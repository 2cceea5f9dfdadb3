------------------------------ MODULE SolPasses ------------------------------
(***************************************************************************)
(* The paid calls of one architect run, as the run makes them and as       *)
(* architect_cost() of scripts/resume_after_agent_completion.py reads them *)
(* off the run's artifact.                                                 *)
(***************************************************************************)
EXTENDS Naturals

CONSTANT MAX_SOL_CALLS_PER_ARCHITECT_RUN   \* (the code: 3)

(* Which Sol passes a run made beyond the initial one.                     *)
Passes == [escalated : BOOLEAN, reconstructed : BOOLEAN]

TrueSolCalls(p) ==
  1 + (IF p.escalated THEN 1 ELSE 0) + (IF p.reconstructed THEN 1 ELSE 0)

(* architect_cost(): sol-usage-initial.json and sol-usage.json hold at     *)
(* most two distinct responses, because reconstruction overwrites the      *)
(* second file; a reconstruction with fewer than three records reserves    *)
(* one more call.                                                          *)
RecordedUsages(p) == IF p.escalated \/ p.reconstructed THEN 2 ELSE 1

ReservesOverwrittenPass(p) ==
  p.reconstructed /\ RecordedUsages(p) < MAX_SOL_CALLS_PER_ARCHITECT_RUN

ArchitectSolCalls_NoReserve(p) == RecordedUsages(p)

ArchitectSolCalls(p) ==
  RecordedUsages(p) + (IF ReservesOverwrittenPass(p) THEN 1 ELSE 0)
=============================================================================
