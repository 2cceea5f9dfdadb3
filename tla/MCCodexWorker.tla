---------------------------- MODULE MCCodexWorker ----------------------------
(* A worker that may leave three trees besides the source, one of them too *)
(* large and one that its own tests change, and that gets three turns. The *)
(* usages are a plain response, one served from the cache, one that        *)
(* reports nothing and one whose parts exceed the whole.                   *)
EXTENDS CodexWorker

CONSTANTS a, b, large, clean, none

ModelTrees == {clean, a, b, large}
ModelOversized == {large}
ModelReferences == {a, large}
ModelLeaves == [t \in ModelTrees |-> IF t = a THEN {a, b} ELSE {t}]
(* One candidate, too large, whose tests write nothing.                    *)
StillTrees == {clean, large}
StillReferences == {large}
StillLeaves == [t \in StillTrees |-> {t}]
ModelUsages ==
  { [input |-> 4,  cached |-> 0, write |-> 0, output |-> 1],
    [input |-> 10, cached |-> 9, write |-> 1, output |-> 0],
    [input |-> 0,  cached |-> 0, write |-> 0, output |-> 0],
    [input |-> 0,  cached |-> 1, write |-> 0, output |-> 0] }
=============================================================================
