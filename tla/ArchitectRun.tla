----------------------------- MODULE ArchitectRun -----------------------------
(***************************************************************************)
(* What an architect run is to the workflows around it: it may delegate    *)
(* once, and it ends.  The completion gate charges the session of a run    *)
(* that delegated with the calls it reads off the run's artifact, and the  *)
(* two recoveries may run again a run that delegated nothing, as one that  *)
(* paid for no call, or for exactly one.  Nothing is said of the run's     *)
(* steps, its snapshot or its files.                                       *)
(***************************************************************************)
EXTENDS SolPasses

CONSTANT Nothing

VARIABLES
  work,      \* what it delegated
  paid,      \* the calls it has paid for
  charge,    \* the calls its artifact is read to say, once it has delegated
  ended,
  outcome    \* what its steps and its artifact say of how it ended

runVars == <<work, paid, charge, ended, outcome>>

Init ==
  /\ work = Nothing /\ paid = 0 /\ charge = 0
  /\ ended = FALSE /\ outcome = "none"

Free == ~ended /\ work = Nothing

Calls ==
  /\ Free
  /\ paid < MAX_SOL_CALLS_PER_ARCHITECT_RUN /\ paid' = paid + 1
  /\ UNCHANGED <<work, charge, ended, outcome>>

(* No call follows: what is read off the artifact stays what was paid.     *)
Delegates ==
  /\ Free
  /\ work' # Nothing
  /\ \E p \in Passes : /\ paid <= TrueSolCalls(p) /\ paid' = TrueSolCalls(p)
                       /\ charge' = ArchitectSolCalls(p)
  /\ UNCHANGED <<ended, outcome>>

EndsDelegated ==
  /\ ~ended /\ work # Nothing
  /\ ended' = TRUE /\ outcome' = "package"
  /\ UNCHANGED <<work, paid, charge>>

(* The last call may be the one it fails in.                               *)
EndsFree ==
  /\ Free
  /\ ended' = TRUE
  /\ paid' \in paid .. MAX_SOL_CALLS_PER_ARCHITECT_RUN
  /\ \/ outcome' = "pre_spend" /\ paid' = 0
     \/ outcome' = "sol_incomplete" /\ paid' = 1
     \/ outcome' = "ended"
  /\ UNCHANGED <<work, charge>>

Next == Calls \/ Delegates \/ EndsDelegated \/ EndsFree

Spec == Init /\ [][Next]_runVars
=============================================================================
