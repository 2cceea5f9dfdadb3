---------------------------- MODULE MCReviewChain ----------------------------
EXTENDS ReviewChain

EndsWith(texts, success) == [texts |-> texts, success |-> success]

\* Nothing published; a clean review, by a run that succeeds or fails after it;
\* a review that says two things.
MCEnds == {EndsWith(<< >>, FALSE), EndsWith(<<{"CLEAN"}>>, TRUE),
           EndsWith(<<{"CLEAN"}>>, FALSE), EndsWith(<<{"CLEAN", "BLOCKED"}>>, TRUE)}

\* A clean review, or none.
MCPlainEnds == {EndsWith(<< >>, FALSE), EndsWith(<<{"CLEAN"}>>, TRUE)}
===============================================================================
