--------------------------- MODULE ResumeReceipts ---------------------------
(***************************************************************************)
(* The immutable receipts of the workflow "QORE agent completion resume",  *)
(* and the pure decisions the gate takes from them: what a completion's    *)
(* receipt says, when a lineage stops, how the two controller recoveries   *)
(* build theirs.  scripts/resume_after_agent_completion.py,                *)
(* recover_pre_spend_architect.py and recover_post_spend_architect.py.     *)
(*                                                                         *)
(* Money is counted in whole units (the code: US dollars, six decimals).   *)
(* A run id is a natural number; NoRun stands for the code's None.         *)
(***************************************************************************)
EXTENDS SolPasses, FiniteSets

CONSTANTS
  Reviewers,          \* REVIEWER_PACKAGE_RES: CLAUDE_CODE and DEEPSEEK
  MAX_RECEIPT_SCAN,   \* newest resume runs the gate looks at (the code: 40)
  MaxAutoResumes,     \* --max-auto-resumes (3)
  MaxSpend,           \* --max-estimated-spend-usd (5.00)
  MaxSolCalls,        \* --max-sol-calls (12)
  MaxCodexJobs,       \* --max-codex-jobs (3)
  MAX_PRE_SPEND_RECOVERIES_PER_SESSION,             \* (1)
  MAX_POST_SPEND_RECOVERIES_PER_SESSION,            \* (1)
  SolPassPrice,                  \* estimated cost of one recorded Sol pass
  UNKNOWN_SOL_PASS_RESERVE_USD,  \* reserve for a pass without a record (1.25)
  CodexPrice,                    \* estimated cost of one recorded Codex job
  UNKNOWN_CODEX_COST_RESERVE_USD \* reserve for a job without a record (1.90)

(* What main() accepts from its command line, and that costs are not       *)
(* negative.  A Sol reserve is money: main() of the recovery relies on it. *)
ASSUME PolicyAssumption ==
  /\ MAX_RECEIPT_SCAN \in Nat \ {0}
  /\ MaxAutoResumes \in Nat \ {0}
  /\ MaxSpend \in Nat \ {0}
  /\ MaxCodexJobs \in Nat \ {0}
  /\ MAX_SOL_CALLS_PER_ARCHITECT_RUN = 3
  /\ MaxSolCalls \in Nat /\ MaxSolCalls >= MAX_SOL_CALLS_PER_ARCHITECT_RUN
  /\ MAX_PRE_SPEND_RECOVERIES_PER_SESSION \in Nat \ {0}
  /\ MAX_POST_SPEND_RECOVERIES_PER_SESSION \in Nat \ {0}
  /\ SolPassPrice \in Nat /\ CodexPrice \in Nat
  /\ UNKNOWN_SOL_PASS_RESERVE_USD \in Nat \ {0}
  /\ UNKNOWN_CODEX_COST_RESERVE_USD \in Nat
  /\ Reviewers \cap {"CODEX", "CONTROLLER", "CONTROLLER_POST_SPEND", "NONE"} = {}

NoRun == 0
NoPackage == <<"NONE", 0>>

Agents == Reviewers \cup {"CODEX"}

-----------------------------------------------------------------------------
(* Receipts *)

(* actor:repository:run:attempt.  One agent run is issued per architect    *)
(* run, so the architect run also names the agent run.                     *)
EventKey(actor, run, attempt) == <<actor, run, attempt>>

AtMostOne(S) == \A x, y \in S : x = y

(* resume_dispatched and resumed_architect_run_id are written together.    *)
IsDispatched(r) == r.child # NoRun

PriorEvents_StoppedOnly(scan, key) == {r \in scan : r.key = key /\ ~IsDispatched(r)}

(* What the two look-ups find among the receipts of one scan.  Both raise  *)
(* ResumeError when they find more than one.                               *)
PriorEvents(scan, key) == {r \in scan : r.key = key}

LineageReceipts(scan, run) == {r \in scan : IsDispatched(r) /\ r.child = run}

(* The counters a session starts from when no receipt claims its parent.   *)
FreshSession(run) ==
  [session |-> run, cycle |-> 0, spend |-> 0, sol |-> 0, codex |-> 0,
   history |-> {}, pre |-> 0]

LineageOf(r) ==
  [session |-> r.session, cycle |-> r.cycle, spend |-> r.spend, sol |-> r.sol,
   codex |-> r.codex, history |-> r.history, pre |-> r.pre]

PriorLineages_Forgotten(scan, run) == {FreshSession(run)}

(* The lineage a completion of an agent of `run` continues: at most one    *)
(* when the caller has checked AtMostOne(LineageReceipts(scan, run)).      *)
PriorLineages(scan, run) ==
  IF LineageReceipts(scan, run) = {}
  THEN {FreshSession(run)}
  ELSE {LineageOf(r) : r \in LineageReceipts(scan, run)}

-----------------------------------------------------------------------------
(* Cost evidence of an architect run *)

ArchitectCost(p) ==
  RecordedUsages(p) * SolPassPrice
    + (IF ReservesOverwrittenPass(p) THEN UNKNOWN_SOL_PASS_RESERVE_USD ELSE 0)

-----------------------------------------------------------------------------
(* build_receipt() *)

StopReason_NoRoomForRun(prior, pkg, total, sol, codex) ==
  IF pkg \in prior.history THEN "LOOP_SIGNATURE_REPEATED_PACKAGE"
  ELSE IF prior.cycle + 1 > MaxAutoResumes THEN "AUTO_RESUME_CYCLE_CAP_REACHED"
  ELSE IF total >= MaxSpend THEN "ESTIMATED_SPEND_CAP_REACHED"
  ELSE IF sol > MaxSolCalls THEN "SOL_CALL_CAP_EXCEEDED"
  ELSE IF codex >= MaxCodexJobs THEN "CODEX_JOB_CAP_REACHED"
  ELSE "none"

StopReason_NoLoopSignature(prior, pkg, total, sol, codex) ==
  IF prior.cycle + 1 > MaxAutoResumes THEN "AUTO_RESUME_CYCLE_CAP_REACHED"
  ELSE IF total >= MaxSpend THEN "ESTIMATED_SPEND_CAP_REACHED"
  ELSE IF sol > MaxSolCalls THEN "SOL_CALL_CAP_EXCEEDED"
  ELSE IF sol + MAX_SOL_CALLS_PER_ARCHITECT_RUN > MaxSolCalls THEN "SOL_CALL_CAP_REACHED"
  ELSE IF codex >= MaxCodexJobs THEN "CODEX_JOB_CAP_REACHED"
  ELSE "none"

(* The first reason that applies, in the order of the code; "none" is the  *)
(* code's empty string.                                                    *)
StopReason(prior, pkg, total, sol, codex) ==
  IF pkg \in prior.history THEN "LOOP_SIGNATURE_REPEATED_PACKAGE"
  ELSE IF prior.cycle + 1 > MaxAutoResumes THEN "AUTO_RESUME_CYCLE_CAP_REACHED"
  ELSE IF total >= MaxSpend THEN "ESTIMATED_SPEND_CAP_REACHED"
  ELSE IF sol > MaxSolCalls THEN "SOL_CALL_CAP_EXCEEDED"
  ELSE IF sol + MAX_SOL_CALLS_PER_ARCHITECT_RUN > MaxSolCalls THEN "SOL_CALL_CAP_REACHED"
  ELSE IF codex >= MaxCodexJobs THEN "CODEX_JOB_CAP_REACHED"
  ELSE "none"

(* A receipt of the gate run `at`: who, about which event, with which      *)
(* counters.  `of` is recovery_of_child_architect_run_id; `newest`         *)
(* (history) is the newest gate run when this one read the receipts.       *)
Receipt(at, actor, key, pkg, parent, of, lineage, stop) ==
  [id |-> at.id, newest |-> at.newest, actor |-> actor, key |-> key, pkg |-> pkg, parent |-> parent,
   of |-> of, session |-> lineage.session, cycle |-> lineage.cycle,
   spend |-> lineage.spend, sol |-> lineage.sol, codex |-> lineage.codex,
   history |-> lineage.history, pre |-> lineage.pre, stop |-> stop,
   child |-> NoRun]

(* main(), after dispatch_architect() has returned the child.              *)
WithChild(receipt, child) == [receipt EXCEPT !.child = child]

(* A completion { actor, attempt, pkg, parent, passes, cost } of an agent, *)
(* with no earlier receipt in the scan, continuing `prior`.  The counter   *)
(* pre_spend_recovery_count is not among the fields build_receipt() writes:*)
(* the next reader takes 0.                                                *)
BuildReceipt(at, c, prior) ==
  LET total == prior.spend + ArchitectCost(c.passes) + c.cost
      sol   == prior.sol + ArchitectSolCalls(c.passes)
      codex == prior.codex + (IF c.actor = "CODEX" THEN 1 ELSE 0)
  IN  Receipt(at, c.actor, EventKey(c.actor, c.parent, c.attempt), c.pkg,
              c.parent, NoRun,
              [session |-> prior.session, cycle |-> prior.cycle + 1,
               spend |-> total, sol |-> sol, codex |-> codex,
               history |-> prior.history \cup {c.pkg}, pre |-> 0],
              StopReason(prior, c.pkg, total, sol, codex))

(* The receipt of an exact duplicate: the first one's session and counters,*)
(* without its package history.                                            *)
DuplicateReceipt(at, c, first) ==
  Receipt(at, c.actor, first.key, c.pkg, c.parent, NoRun,
          [session |-> first.session, cycle |-> first.cycle, spend |-> first.spend,
           sol |-> first.sol, codex |-> first.codex, history |-> {}, pre |-> 0],
          "EXACT_COMPLETION_EVENT_ALREADY_RECEIPTED")

-----------------------------------------------------------------------------
(* recover_pre_spend_architect.py and recover_post_spend_architect.py      *)

CopyLineage_CountNotIncremented(at, run, prior) ==
  Receipt(at, "CONTROLLER", EventKey("CONTROLLER", run, 1), prior.pkg, prior.parent,
          run, prior, "none")

(* _copy_lineage(): what the claiming receipt says is kept, the recovery   *)
(* is counted.                                                             *)
CopyLineage(at, run, prior) ==
  Receipt(at, "CONTROLLER", EventKey("CONTROLLER", run, 1), prior.pkg, prior.parent,
          run,
          [session |-> prior.session, cycle |-> prior.cycle, spend |-> prior.spend,
           sol |-> prior.sol, codex |-> prior.codex, history |-> prior.history,
           pre |-> prior.pre + 1], "none")

(* _existing_dispatched_recovery() and _existing_recovery() *)
ExistingRecovery_AnyStop(scan, actor, run) ==
  {r \in scan : r.actor = actor /\ r.of = run /\ IsDispatched(r) /\ r.stop # "none"}

ExistingRecovery(scan, actor, run) ==
  {r \in scan : r.actor = actor /\ r.of = run /\ IsDispatched(r)}

(* recover() of the post-spend controller: the receipts of the session     *)
(* that count against its one recovery, dispatched or not.                 *)
PostSpendAttempts(scan, run) ==
  {r \in scan : r.actor = "CONTROLLER_POST_SPEND" /\ r.session = run}

(* _receipt(): a fresh session whose seed is the failed run, with the      *)
(* observed incomplete pass already spent.                                 *)
PostSpendReceipt(at, run, reason) ==
  Receipt(at, "CONTROLLER_POST_SPEND", EventKey("CONTROLLER_POST_SPEND", run, 1),
          NoPackage, run, run,
          [session |-> run, cycle |-> 0, spend |-> SolPassPrice, sol |-> 1,
           codex |-> 0, history |-> {}, pre |-> 0], reason)

(* The order of recover()'s stops; `active` is _active_architect_or_codex. *)
PostSpendStop(scan, run, active) ==
  IF ExistingRecovery(scan, "CONTROLLER_POST_SPEND", run) # {}
  THEN "POST_SPEND_RECOVERY_ALREADY_DISPATCHED"
  ELSE IF Cardinality(PostSpendAttempts(scan, run)) >= MAX_POST_SPEND_RECOVERIES_PER_SESSION
  THEN "POST_SPEND_RECOVERY_CAP_REACHED"
  ELSE IF SolPassPrice + UNKNOWN_SOL_PASS_RESERVE_USD * MAX_SOL_CALLS_PER_ARCHITECT_RUN
            > MaxSpend
  THEN "ESTIMATED_SPEND_CAP_REACHED"
  ELSE IF 1 + MAX_SOL_CALLS_PER_ARCHITECT_RUN > MaxSolCalls
  THEN "SOL_CALL_CAP_REACHED"
  ELSE IF active THEN "ACTIVE_WORK_PRESENT"
  ELSE "none"
=============================================================================
