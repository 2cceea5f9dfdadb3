--------------------------- MODULE MCReviewerDispatch ---------------------------
(* ReviewerDispatch for TLC.  When an architect is run again, Sol may      *)
(* decide again on another main and on another kind of review.             *)
EXTENDS ReviewerDispatch

MCDecisions == {[main |-> "old", mode |-> "expert"], [main |-> "new", mode |-> "coder"]}
=============================================================================
