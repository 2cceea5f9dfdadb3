--------------------------- MODULE AutonomyControl ---------------------------
(***************************************************************************)
(* The control loop of the orchestrator: Autonomous V2 architect runs, the *)
(* agents they delegate to, the completion-resume gate that turns an       *)
(* agent's completion into at most one fresh architect run, the two        *)
(* recoveries of a failed run, and the human rearm of a stopped session.   *)
(*                                                                         *)
(* The actors are workflows of GitHub Actions: one gate run and one rearm  *)
(* run at a time (their concurrency groups), in parallel with architects   *)
(* and agents.  They share nothing but GitHub: the list of workflow runs,  *)
(* which lags behind, and the receipts the gate has uploaded.              *)
(*                                                                         *)
(* `truth` is a history variable: what really happened, to be compared     *)
(* with what the receipts claim.                                           *)
(***************************************************************************)
EXTENDS ResumeReceipts, Sequences

CONSTANTS
  MaxRuns,          \* bound: architect runs in a behaviour
  MaxDisturbances,  \* bound: human acts and faults in a behaviour
  Disturbances,     \* the kinds of human acts and faults considered
  PassChoices,      \* the Sol passes considered
  CodexWork,        \* engineering packages: content-derived, so they can recur
  CodexScan,        \* newest worker runs dispatch_codex_worker.py looks at (50)
  MAX_REARM_SCAN    \* newest rearm runs rearm_autonomy.py looks at (40)

ASSUME BoundsAssumption ==
  /\ PassChoices \subseteq Passes
  /\ MaxRuns \in Nat \ {0} /\ MaxDisturbances \in Nat
  /\ CodexScan \in Nat \ {0} /\ MAX_REARM_SCAN \in Nat \ {0}
  /\ "REARM" \notin Reviewers

VARIABLES
  run,        \* architect runs: status, outcome and the package they issued
  listed,     \* the architect runs that GitHub's listing shows
  agent,      \* the agent run of an architect run: state, attempt, cost
  codexRuns,  \* the packages of the Codex worker runs, oldest first
  notices,    \* completion events and requests not yet turned into gate runs
  pending,    \* the one gate run the concurrency group lets wait
  gate,       \* the gate run in progress
  ledger,     \* the receipts uploaded by gate runs
  lastId,     \* number of the newest gate run
  rearm,      \* the rearm run in progress
  rearms,     \* the receipts uploaded by rearm runs
  lastRearm,  \* number of the newest rearm run
  truth,      \* history: where each architect run really comes from
  disturbances  \* human acts and faults so far

gateVars  == <<pending, gate, ledger, lastId>>
rearmVars == <<rearm, rearms, lastRearm>>
workVars  == <<run, listed, agent, codexRuns>>
vars == <<run, listed, agent, codexRuns, notices, pending, gate, ledger,
          lastId, rearm, rearms, lastRearm, truth, disturbances>>

Run == 1 .. MaxRuns

Packages == ({"CODEX"} \X CodexWork) \cup ({"REVIEW"} \X Run) \cup {NoPackage}

Statuses == {"absent", "waiting", "running", "issued", "completed"}

(* "package": the run delegated, whatever its conclusion then was.         *)
(* "ended": no delegation, by success, cancellation or any other failure.  *)
Outcomes == {"none", "package", "ended", "pre_spend", "sol_incomplete"}

NoPasses == [escalated |-> FALSE, reconstructed |-> FALSE]

NewRun(status) == [status |-> status, outcome |-> "none", actor |-> "NONE",
                   pkg |-> NoPackage, passes |-> NoPasses]

NoAgent == [state |-> "none", attempt |-> 0, cost |-> 0]

Existing == {r \in Run : run[r].status # "absent"}

(* The events that start a gate run.  A successful Codex worker arrives    *)
(* twice, as workflow_run and as repository_dispatch: two copies, for the  *)
(* gate verifies the live run whichever it is.                             *)
Notice(kind, r, attempt, copies) ==
  [kind |-> kind, run |-> r, attempt |-> attempt, copies |-> copies]

Remaining(n) ==
  (notices \ {n}) \cup (IF n.copies > 1 THEN {[n EXCEPT !.copies = @ - 1]} ELSE {})

(* A gate run between its decision and its receipt.  `sound` (history): it *)
(* has found the receipt that dispatched the run it continues.             *)
NoReceipt == Receipt([id |-> 0, newest |-> 0], "NONE", EventKey("NONE", NoRun, 0),
                     NoPackage, NoRun, NoRun, FreshSession(NoRun), "none")

IdleGate == [pc |-> "idle", receipt |-> NoReceipt, sound |-> TRUE,
             before |-> {}]

IdleRearm == [pc |-> "idle", of |-> 0, before |-> {}]

(* A person has dispatched the first architect run. *)
Init ==
  /\ run = [r \in Run |-> NewRun(IF r = 1 THEN "running" ELSE "absent")]
  /\ listed = {}
  /\ agent = [r \in Run |-> NoAgent]
  /\ codexRuns = <<>>
  /\ notices = {}
  /\ pending = {}
  /\ gate = IdleGate
  /\ ledger = {}
  /\ lastId = 0
  /\ rearm = IdleRearm
  /\ rearms = {}
  /\ lastRearm = 0
  /\ truth = [r \in Run |-> [binder |-> 0, newest |-> 0, event |-> NoReceipt.key,
                             base |-> 0, cycles |-> 0, retries |-> 0, seen |-> {},
                             missed |-> 0]]
  /\ disturbances = 0

Disturb(kind) ==
  /\ kind \in Disturbances
  /\ disturbances < MaxDisturbances
  /\ disturbances' = disturbances + 1

-----------------------------------------------------------------------------
(* Architect runs *)

Busy == \E r \in Run : run[r].status \in {"running", "issued"}

Waiting == {r \in Run : run[r].status = "waiting"}

Finished(r, outcome) ==
  [status |-> "completed", outcome |-> outcome, actor |-> run[r].actor,
   pkg |-> run[r].pkg, passes |-> run[r].passes]

(* workflow_dispatch of the architect: the run starts, or waits for its    *)
(* concurrency group, where it cancels the run that was waiting.           *)
Created(r) ==
  [s \in Run |->
     IF s = r THEN NewRun(IF Busy THEN "waiting" ELSE "running")
     ELSE IF s \in Waiting THEN Finished(s, "ended")
     ELSE run[s]]

(* Most architect completions, and manual dry runs, start a gate run that  *)
(* only says why it did nothing.  No controller reads such a receipt; but  *)
(* the gate run is one of the newest, and while the gate is busy it takes  *)
(* the place of the run that waits.                                        *)
IdleGateRuns(n) ==
  /\ lastId' = lastId + n
  /\ pending' = IF n > 0 /\ gate.pc # "idle" THEN {} ELSE pending

FreshRun(r) == r \in Run \ Existing /\ \A s \in Run \ Existing : r <= s

(* A run completes: its group lets the waiting run start, and the gate is  *)
(* told by workflow_run.                                                   *)
Completed(r, outcome) ==
  [s \in Run |->
     IF s = r THEN Finished(r, outcome)
     ELSE IF s \in Waiting THEN [run[s] EXCEPT !.status = "running"]
     ELSE run[s]]

(* dispatch_codex_worker.py: an engineering package is dispatched unless a *)
(* recent worker run already has it.                                       *)
RecentCodex ==
  {codexRuns[i] : i \in {j \in DOMAIN codexRuns : j + CodexScan > Len(codexRuns)}}

Issued(actor, pkg, passes) ==
  [status |-> "issued", outcome |-> "none", actor |-> actor, pkg |-> pkg,
   passes |-> passes]

IssueCodex(r) ==
  \E pkg \in {"CODEX"} \X CodexWork, passes \in PassChoices :
    /\ pkg \notin RecentCodex
    /\ codexRuns' = Append(codexRuns, pkg)
    /\ run' = [run EXCEPT ![r] = Issued("CODEX", pkg, passes)]

IssueReview(r) ==
  \E reviewer \in Reviewers, passes \in PassChoices :
    /\ run' = [run EXCEPT ![r] = Issued(reviewer, <<"REVIEW", r>>, passes)]
    /\ UNCHANGED codexRuns

(* One architect run delegates to at most one agent. *)
ArchitectIssues(r) ==
  /\ run[r].status = "running"
  /\ IssueCodex(r) \/ IssueReview(r)
  /\ agent' = [agent EXCEPT ![r] = [state |-> "running", attempt |-> 1, cost |-> 0]]
  /\ UNCHANGED <<listed, notices, gateVars, rearmVars, truth, disturbances>>

(* Mutant: a recovery does not look for what the failed run delegated.     *)
MayEnd_Anyhow(r, outcome) ==
  run[r].status \in (IF outcome = "package" THEN {"issued"} ELSE {"running", "issued"})

(* A run that delegated shows it, however it ends: only the others are     *)
(* taken for failed in or before their first Sol pass.                     *)
MayEnd(r, outcome) ==
  run[r].status = IF outcome = "package" THEN "issued" ELSE "running"

(* The run ends after it has delegated, or without: no work, a failure     *)
(* before, in, or after the first Sol pass.  A run stopped by its snapshot *)
(* gate is the one whose completion the gate looks into.                   *)
ArchitectEnds(r) ==
  /\ \E o \in {"package", "ended", "pre_spend", "sol_incomplete"} :
       /\ MayEnd(r, o)
       /\ run' = Completed(r, o)
       /\ IF o = "pre_spend"
          THEN /\ notices' = notices \cup {Notice("architect", r, 1, 1)}
               /\ UNCHANGED <<pending, lastId>>
          ELSE /\ IdleGateRuns(1)
               /\ UNCHANGED notices
  /\ UNCHANGED <<listed, agent, codexRuns, gate, ledger, rearmVars, truth, disturbances>>

(* Reading GitHub's listing of architect runs: it shows what it showed     *)
(* before, the runs that have worked for minutes, and more or less of what *)
(* has been created since.  A run that waits for its concurrency group is  *)
(* neither queued nor in progress.                                         *)
Reads(shown) ==
  /\ shown \in SUBSET Existing
  /\ listed \subseteq shown
  /\ \A r \in Run : run[r].status \in {"issued", "completed"} => r \in shown

Started(shown) == {r \in shown : run[r].status # "waiting"}

-----------------------------------------------------------------------------
(* Agents *)

CodexCosts == {CodexPrice, UNKNOWN_CODEX_COST_RESERVE_USD}

(* An agent ends and the gate can take it for complete.  A reviewer runs   *)
(* in another repository, only a successful review calls back, its cost is *)
(* not metered.  Of a Codex worker GitHub reports the end whatever its     *)
(* conclusion, and parse_codex_event() asks for its artifact only, which   *)
(* is uploaded always(): a worker that failed or was cancelled is resumed  *)
(* from, with the reserved cost when it left no usage.  A successful one   *)
(* also calls back: two copies.                                            *)
AgentCompletes(r) ==
  /\ agent[r].state = "running"
  /\ \E cost \in (IF run[r].actor = "CODEX" THEN CodexCosts ELSE {0}),
        copies \in (IF run[r].actor = "CODEX" THEN {1, 2} ELSE {1}) :
       /\ agent' = [agent EXCEPT ![r] = [state |-> "done", attempt |-> @.attempt,
                                          cost |-> cost]]
       /\ notices' = notices \cup {Notice("agent", r, agent[r].attempt, copies)}
  /\ UNCHANGED <<run, listed, codexRuns, gateVars, rearmVars, truth, disturbances>>

(* An agent ends and nothing can be made of it: a review that failed, or a *)
(* worker that left no artifact, whose end still starts a gate run.        *)
AgentFails(r) ==
  /\ agent[r].state = "running"
  /\ agent' = [agent EXCEPT ![r] = [state |-> "failed", attempt |-> @.attempt, cost |-> 0]]
  /\ IdleGateRuns(IF run[r].actor = "CODEX" THEN 1 ELSE 0)
  /\ UNCHANGED <<run, listed, codexRuns, notices, gate, ledger, rearmVars, truth,
                 disturbances>>

-----------------------------------------------------------------------------
(* The resume gate *)

(* An event becomes a gate run.  While a gate run is in progress the       *)
(* concurrency group lets one run wait; a newer one cancels it, and its    *)
(* event is never looked at.                                               *)
Deliver_Queueing(n) ==
  /\ gate.pc # "idle"
  /\ notices' = Remaining(n)
  /\ lastId' = lastId + 1
  /\ pending' = pending \cup {[id |-> lastId + 1, notice |-> n]}
  /\ UNCHANGED <<workVars, gate, ledger, rearmVars, truth, disturbances>>

Deliver(n) ==
  /\ gate.pc # "idle"
  /\ notices' = Remaining(n)
  /\ lastId' = lastId + 1
  /\ pending' = {[id |-> lastId + 1, notice |-> n]}
  /\ UNCHANGED <<workVars, gate, ledger, rearmVars, truth, disturbances>>

(* The next gate run: the one that waited, else the one of any event. *)
NextGateRuns ==
  IF pending # {} THEN pending
  ELSE {[id |-> lastId + 1, notice |-> n] : n \in notices}

Newest == IF pending # {} THEN lastId ELSE lastId + 1

Takes(e, kind) ==
  /\ gate.pc = "idle"
  /\ e.notice.kind = kind
  /\ lastId' = Newest
  /\ notices' = IF pending # {} THEN notices ELSE Remaining(e.notice)
  /\ pending' = {}
  /\ UNCHANGED <<run, agent, codexRuns, rearmVars, truth, disturbances>>

(* recent_receipts(): those of the newest gate runs, this one included. *)
Scan == {r \in ledger : r.id + MAX_RECEIPT_SCAN > Newest}

(* The gate run e, and (history) how far it looked back. *)
At(e) == [id |-> e.id, newest |-> Newest]

Uploads(receipt) == ledger' = ledger \cup {receipt} /\ UNCHANGED gate

(* The gate run fails, or leaves a receipt that only says why nothing was  *)
(* done: no controller ever reads those, the ledger leaves them out.       *)
Declines == UNCHANGED <<ledger, gate>>

Authorizes(receipt, sound) ==
  /\ gate' = [pc |-> "authorized", receipt |-> receipt, sound |-> sound,
              before |-> {}]
  /\ UNCHANGED ledger

(* History: the receipt of the gate run that dispatched r is found; it may *)
(* never have been written, have left the scan, or name another child.     *)
Sound(r) ==
  truth[r].binder # 0 =>
    \E q \in LineageReceipts(Scan, r) : q.id = truth[r].binder

(* resume_after_agent_completion_v2.py: the completion is looked up live,  *)
(* and bound to the artifacts of a completed parent.                       *)
ValidCompletion(n) ==
  /\ agent[n.run].state = "done"
  /\ agent[n.run].attempt = n.attempt
  /\ run[n.run].status = "completed"

CompletionOf(n) ==
  [actor |-> run[n.run].actor, attempt |-> n.attempt, pkg |-> run[n.run].pkg,
   parent |-> n.run, passes |-> run[n.run].passes, cost |-> agent[n.run].cost]

GateAgent(e) ==
  LET n == e.notice
      c == CompletionOf(n)
      priors == PriorEvents(Scan, EventKey(c.actor, n.run, n.attempt))
      claims == LineageReceipts(Scan, n.run)
  IN  /\ Takes(e, "agent")
      /\ UNCHANGED listed
      /\ \/ /\ \/ ~ValidCompletion(n)
               \/ ~AtMostOne(priors)
               \/ priors = {} /\ ~AtMostOne(claims)
            /\ Declines
         \/ /\ ValidCompletion(n) /\ AtMostOne(priors)
            /\ \E first \in priors : Uploads(DuplicateReceipt(At(e), c, first))
         \/ /\ ValidCompletion(n) /\ priors = {} /\ AtMostOne(claims)
            /\ \E prior \in PriorLineages(Scan, n.run) :
                 LET receipt == BuildReceipt(At(e), c, prior)
                 IN  IF receipt.stop = "none"
                     THEN Authorizes(receipt, Sound(n.run))
                     ELSE Uploads(receipt)

(* recover() of the pre-spend controller: the child of exactly one receipt,*)
(* not recovered before, with a recovery left, and stopped by its snapshot *)
(* gate before any model call.  An architect's completion and a push that  *)
(* names the claiming receipt lead here.                                   *)
PreSpendClaim(r) ==
  {q \in LineageReceipts(Scan, r) :
     /\ AtMostOne(LineageReceipts(Scan, r))
     /\ ExistingRecovery(Scan, "CONTROLLER", r) = {}
     /\ q.pre < MAX_PRE_SPEND_RECOVERIES_PER_SESSION
     /\ run[r].outcome = "pre_spend"}

GatePreSpend(e, kind) ==
  LET r == e.notice.run
  IN  /\ Takes(e, kind)
      /\ UNCHANGED listed
      /\ \/ PreSpendClaim(r) = {} /\ Declines
         \/ \E q \in PreSpendClaim(r) :
              Authorizes(CopyLineage(At(e), r, q), Sound(r))

(* _active_architect_or_codex() *)
ActiveArchitectOrCodex(shown) ==
  \/ \E r \in shown : run[r].status \in {"running", "issued"}
  \/ \E r \in Run : run[r].actor = "CODEX" /\ agent[r].state = "running"

(* A push to main asks for the recovery of the seed of a rearmed session   *)
(* whose initial Sol pass ran out of tokens.                               *)
GatePostSpend(e) ==
  LET r == e.notice.run
      valid == /\ \E m \in rearms : m.child = r
               /\ run[r].outcome = "sol_incomplete"
               /\ AtMostOne(ExistingRecovery(Scan, "CONTROLLER_POST_SPEND", r))
  IN  /\ Takes(e, "postpush")
      /\ \E shown \in SUBSET Run :
           LET stop == PostSpendStop(Scan, r, ActiveArchitectOrCodex(shown))
               receipt == PostSpendReceipt(At(e), r, stop)
           IN  /\ Reads(shown)
               /\ listed' = shown
               /\ \/ ~valid /\ Declines
                  \/ valid /\ stop # "none" /\ Uploads(receipt)
                  \/ /\ valid /\ stop = "none"
                     /\ Authorizes(receipt, truth[r].binder = 0)

(* The architect run that a receipt resumes from or retries. *)
Continued(receipt) ==
  IF receipt.actor \in Agents THEN receipt.parent ELSE receipt.of

(* History: what the architect run dispatched for `receipt` really is: the *)
(* gate run that dispatched it and the newest one that run saw, the event, *)
(* the Sol calls of the automatic runs before it, the agent completions    *)
(* and the pre-spend retries since, the packages already worked on, and    *)
(* how often a run of its lineage was taken for the first of a session.    *)
Origin(receipt, sound) ==
  LET t == truth[Continued(receipt)]
      p == run[Continued(receipt)]
      resumes == receipt.actor \in Agents
      retries == receipt.actor = "CONTROLLER"
  IN  [binder |-> receipt.id, newest |-> receipt.newest, event |-> receipt.key,
       base |-> t.base + (IF resumes THEN TrueSolCalls(p.passes)
                          ELSE IF retries THEN 0 ELSE 1),
       cycles |-> t.cycles + (IF resumes THEN 1 ELSE 0),
       retries |-> IF resumes THEN 0
                   ELSE t.retries + (IF retries THEN 1 ELSE 0),
       seen |-> t.seen \cup (IF resumes THEN {p.pkg} ELSE {}),
       missed |-> t.missed + (IF sound THEN 0 ELSE 1)]

(* dispatch_architect(): the listing is read, then the workflow dispatched.*)
GatePosts ==
  /\ gate.pc = "authorized"
  /\ \E r \in Run, shown \in SUBSET Run :
       /\ FreshRun(r)
       /\ Reads(shown)
       /\ listed' = shown
       /\ run' = Created(r)
       /\ IdleGateRuns(Cardinality(Waiting))
       /\ gate' = [pc |-> "posted", receipt |-> gate.receipt,
                   sound |-> gate.sound, before |-> shown]
       /\ truth' = [truth EXCEPT ![r] = Origin(gate.receipt, gate.sound)]
  /\ UNCHANGED <<agent, codexRuns, notices, ledger, rearmVars,
                 disturbances>>

NewRuns_Newest(shown, before) == {r \in Started(shown) : \A s \in Started(shown) : s <= r}

(* The runs that were not there before the dispatch. *)
NewRuns(shown, before) == Started(shown) \ before

(* One new run: it is taken for the child, and the receipt is uploaded.    *)
GateObserves ==
  /\ gate.pc = "posted"
  /\ \E shown \in SUBSET Run, child \in Run :
       /\ Reads(shown)
       /\ listed' = shown
       /\ NewRuns(shown, gate.before) = {child}
       /\ ledger' = ledger \cup {WithChild(gate.receipt, child)}
  /\ gate' = IdleGate
  /\ UNCHANGED <<run, agent, codexRuns, notices, pending, lastId, rearmVars,
                 truth, disturbances>>

(* Several new runs, or none until the polls run out: an error after the   *)
(* dispatch was accepted, and no receipt that anyone reads.                *)
GateGivesUp ==
  /\ gate.pc = "posted"
  /\ \E shown \in SUBSET Run :
       /\ Reads(shown)
       /\ listed' = shown
       /\ Cardinality(NewRuns(shown, gate.before)) # 1
  /\ gate' = IdleGate
  /\ UNCHANGED <<run, agent, codexRuns, notices, pending, ledger, lastId,
                 rearmVars, truth, disturbances>>

(* The runner is lost, or its job times out, or the upload fails: whatever *)
(* the gate run had done, it leaves no receipt.                            *)
GateCrashes ==
  /\ Disturb("crash")
  /\ gate.pc # "idle"
  /\ gate' = IdleGate
  /\ UNCHANGED <<workVars, notices, pending, ledger, lastId, rearmVars, truth>>

(* An event is lost before it starts a gate run. *)
LoseNotice(n) ==
  /\ Disturb("loss")
  /\ notices' = Remaining(n)
  /\ UNCHANGED <<workVars, gateVars, rearmVars, truth>>

-----------------------------------------------------------------------------
(* rearm_autonomy.py *)

ALLOWED_STOP_REASONS ==
  {"AUTO_RESUME_CYCLE_CAP_REACHED", "ESTIMATED_SPEND_CAP_REACHED",
   "SOL_CALL_CAP_REACHED", "CODEX_JOB_CAP_REACHED"}

(* load_stopped_receipt(): a stopped receipt of a gate run that an agent's *)
(* completion caused.                                                      *)
Rearmable(q) ==
  /\ q.actor \in Agents
  /\ ~IsDispatched(q)
  /\ q.stop \in ALLOWED_STOP_REASONS
  /\ q.history # {}

PreviousRearms_WindowOneShort(id) ==
  {m \in rearms : m.of = id /\ m.id + MAX_REARM_SCAN > lastRearm + 2}

(* previous_rearms(): among the newest rearm runs, this one included. *)
PreviousRearms(id) ==
  {m \in rearms : m.of = id /\ m.id + MAX_REARM_SCAN > lastRearm + 1}

(* active_orchestrator_runs(): architects, workers, and gate runs. *)
ActiveOrchestrator(shown) ==
  ActiveArchitectOrCodex(shown) \/ gate.pc # "idle" \/ pending # {}

(* A human asks for the rearm of q; the controller checks it. *)
RearmChecks(q) ==
  /\ Disturb("rearm")
  /\ rearm.pc = "idle"
  /\ q \in ledger /\ Rearmable(q)
  /\ lastRearm' = lastRearm + 1
  /\ \E shown \in SUBSET Run :
       /\ Reads(shown)
       /\ listed' = shown
       /\ rearm' = IF PreviousRearms(q.id) = {} /\ ~ActiveOrchestrator(shown)
                   THEN [pc |-> "checked", of |-> q.id, before |-> {}]
                   ELSE IdleRearm
  /\ UNCHANGED <<run, agent, codexRuns, notices, gateVars, rearms, truth>>

(* The rearmed session is a person's: only its event (history) says which  *)
(* rearm run dispatched it, for which stopped receipt.                     *)
RearmPosts ==
  /\ rearm.pc = "checked"
  /\ \E r \in Run, shown \in SUBSET Run :
       /\ FreshRun(r)
       /\ Reads(shown)
       /\ listed' = shown
       /\ run' = Created(r)
       /\ IdleGateRuns(Cardinality(Waiting))
       /\ rearm' = [pc |-> "posted", of |-> rearm.of, before |-> shown]
       /\ truth' = [truth EXCEPT ![r].event = EventKey("REARM", rearm.of, lastRearm)]
  /\ UNCHANGED <<agent, codexRuns, notices, gate, ledger, rearms, lastRearm,
                 disturbances>>

RearmObserves ==
  /\ rearm.pc = "posted"
  /\ \E shown \in SUBSET Run, child \in Run :
       /\ Reads(shown)
       /\ listed' = shown
       /\ NewRuns(shown, rearm.before) = {child}
       /\ rearms' = rearms \cup {[id |-> lastRearm, of |-> rearm.of, child |-> child]}
  /\ rearm' = IdleRearm
  /\ UNCHANGED <<run, agent, codexRuns, notices, gateVars, lastRearm, truth,
                 disturbances>>

(* As the gate: an error after the dispatch leaves no receipt. *)
RearmGivesUp ==
  /\ rearm.pc = "posted"
  /\ \E shown \in SUBSET Run :
       /\ Reads(shown)
       /\ listed' = shown
       /\ Cardinality(NewRuns(shown, rearm.before)) # 1
  /\ rearm' = IdleRearm
  /\ UNCHANGED <<run, agent, codexRuns, notices, gateVars, rearms, lastRearm,
                 truth, disturbances>>

-----------------------------------------------------------------------------
(* What people do *)

(* A new session: Autonomous V2 dispatched by hand. *)
ManualDispatch(r) ==
  /\ Disturb("dispatch")
  /\ FreshRun(r)
  /\ run' = Created(r)
  /\ IdleGateRuns(Cardinality(Waiting))
  /\ UNCHANGED <<listed, agent, codexRuns, notices, gate, ledger, rearmVars, truth>>

(* A recovery request is committed to main. *)
RequestRecovery(r, kind) ==
  /\ Disturb(kind)
  /\ run[r].outcome \in {"pre_spend", "sol_incomplete"}
  /\ notices' = notices \cup {Notice(kind, r, 1, 1)}
  /\ UNCHANGED <<workVars, gateVars, rearmVars, truth>>

(* The gate is run by hand, dry. *)
RunDiagnostic ==
  /\ Disturb("diagnostic")
  /\ IdleGateRuns(1)
  /\ UNCHANGED <<workVars, notices, gate, ledger, rearmVars, truth>>

(* An agent's workflow run is run again: same run id, next attempt. *)
RerunAgent(r) ==
  /\ Disturb("rerun")
  /\ agent[r].state \in {"done", "failed"}
  /\ agent' = [agent EXCEPT ![r] = [state |-> "running", attempt |-> @.attempt + 1, cost |-> 0]]
  /\ UNCHANGED <<run, listed, codexRuns, notices, gateVars, rearmVars, truth>>

(* A completion callback is sent again. *)
ReplayCallback(r) ==
  /\ Disturb("replay")
  /\ agent[r].state = "done"
  /\ notices' = notices \cup {Notice("agent", r, agent[r].attempt, 1)}
  /\ UNCHANGED <<workVars, gateVars, rearmVars, truth>>

-----------------------------------------------------------------------------
Next ==
  \/ \E r \in Run : \/ ArchitectIssues(r) \/ ArchitectEnds(r)
                    \/ AgentCompletes(r) \/ AgentFails(r)
                    \/ ManualDispatch(r) \/ RerunAgent(r) \/ ReplayCallback(r)
                    \/ RequestRecovery(r, "prepush") \/ RequestRecovery(r, "postpush")
  \/ \E n \in notices : Deliver(n) \/ LoseNotice(n)
  \/ \E e \in NextGateRuns : \/ GateAgent(e) \/ GatePostSpend(e)
                             \/ GatePreSpend(e, "architect") \/ GatePreSpend(e, "prepush")
  \/ GatePosts \/ GateObserves \/ GateGivesUp \/ GateCrashes
  \/ \E q \in ledger : RearmChecks(q)
  \/ RearmPosts \/ RearmObserves \/ RearmGivesUp
  \/ RunDiagnostic

Spec == Init /\ [][Next]_vars

-----------------------------------------------------------------------------
(* Properties *)

RunStates == [status : Statuses, outcome : Outcomes, actor : Agents \cup {"NONE"},
              pkg : Packages, passes : Passes]

AgentStates == [state : {"none", "running", "done", "failed"}, attempt : Nat, cost : Nat]

Kinds == {"agent", "architect", "prepush", "postpush"}
Notices == [kind : Kinds, run : Run, attempt : Nat, copies : Nat]

ReceiptActors ==
  Agents \cup {"CONTROLLER", "CONTROLLER_POST_SPEND", "NONE"}

StopReasons ==
  {"none", "EXACT_COMPLETION_EVENT_ALREADY_RECEIPTED",
   "LOOP_SIGNATURE_REPEATED_PACKAGE", "AUTO_RESUME_CYCLE_CAP_REACHED",
   "ESTIMATED_SPEND_CAP_REACHED", "SOL_CALL_CAP_EXCEEDED", "SOL_CALL_CAP_REACHED",
   "CODEX_JOB_CAP_REACHED", "POST_SPEND_RECOVERY_ALREADY_DISPATCHED",
   "POST_SPEND_RECOVERY_CAP_REACHED", "ACTIVE_WORK_PRESENT"}

Receipts ==
  [id : Nat, newest : Nat, actor : ReceiptActors, key : ReceiptActors \X Nat \X Nat,
   pkg : Packages, parent : Run \cup {NoRun}, of : Run \cup {NoRun},
   session : Run \cup {NoRun}, cycle : Nat, spend : Nat, sol : Nat, codex : Nat,
   history : SUBSET Packages, pre : Nat, stop : StopReasons,
   child : Run \cup {NoRun}]

GateRuns == [id : Nat, notice : Notices]

GateStates == [pc : {"idle", "authorized", "posted"}, receipt : Receipts,
               sound : BOOLEAN, before : SUBSET Run]

RearmStates == [pc : {"idle", "checked", "posted"}, of : Nat, before : SUBSET Run]
RearmReceipts == [id : Nat, of : Nat, child : Run]

Truths == [binder : Nat, newest : Nat, event : (ReceiptActors \cup {"REARM"}) \X Nat \X Nat,
           base : Nat, cycles : Nat, retries : Nat, seen : SUBSET Packages,
           missed : Nat]

WorkTypeOK ==
  /\ run \in [Run -> RunStates]
  /\ listed \in SUBSET Run
  /\ agent \in [Run -> AgentStates]
  /\ codexRuns \in Seq(Packages)
  /\ notices \in SUBSET Notices
  /\ \A r \in Run :
       agent[r].state # "none" =>
         run[r].actor \in Agents /\ run[r].status \in {"issued", "completed"}

GateTypeOK ==
  /\ lastId \in Nat
  /\ pending \in SUBSET GateRuns
  /\ AtMostOne(pending)
  /\ \A e \in pending : e.id <= lastId
  /\ gate \in GateStates
  /\ gate.pc # "idle" => Continued(gate.receipt) \in Run /\ gate.receipt.id <= lastId
  /\ ledger \in SUBSET Receipts
  /\ \A q \in ledger : q.id <= lastId

RearmTypeOK ==
  /\ rearm \in RearmStates
  /\ rearms \in SUBSET RearmReceipts
  /\ lastRearm \in Nat

HistoryTypeOK ==
  /\ truth \in [Run -> Truths]
  /\ disturbances \in Nat

(* The type invariant.  Beyond the types: at most one gate run waits, no   *)
(* gate run is newer than the newest, an agent belongs to an architect run *)
(* that delegated to it, and a gate run that was authorized to dispatch    *)
(* knows which architect run it continues (qore-agent-completion-resume).  *)
TypeOK == WorkTypeOK /\ GateTypeOK /\ RearmTypeOK /\ HistoryTypeOK

(* Every receipt that dispatched a run was within the whole policy, with   *)
(* room for the three Sol calls the new run may make: whichever controller *)
(* wrote it, and whatever was lost or misread before.                      *)
WithinPolicy(q) ==
  /\ q.cycle <= MaxAutoResumes
  /\ q.spend < MaxSpend
  /\ q.sol + MAX_SOL_CALLS_PER_ARCHITECT_RUN <= MaxSolCalls
  /\ q.codex < MaxCodexJobs

WithinCaps == \A q \in ledger : IsDispatched(q) => WithinPolicy(q)

(* No run of the lineage was taken for the first of a session.             *)
Covered(t) == t.missed = 0

(* The Sol calls really made by an automatic lineage, those of its next    *)
(* run included, never exceed the cap, as long as no receipt of the        *)
(* lineage was lost: the usage evidence never undercounts.                 *)
TrueSolWithinCap ==
  \A r \in Run :
    Covered(truth[r]) /\ truth[r].binder # 0 =>
      truth[r].base + MAX_SOL_CALLS_PER_ARCHITECT_RUN <= MaxSolCalls

(* The resumes since a person last acted, and the pre-spend retries since  *)
(* the last resume, exceed the policy only where the loop has lost track:  *)
(* each time it takes a run it dispatched itself for the first of a        *)
(* session, because the receipt was never written or is not found, allows  *)
(* one more tranche (resume_after_agent_completion.py:604) and nothing     *)
(* else does, though build_receipt() forgets the retries.                  *)
FiniteAutonomy ==
  \A r \in Run :
    /\ truth[r].cycles <= MaxAutoResumes * (truth[r].missed + 1)
    /\ truth[r].retries <= MAX_PRE_SPEND_RECOVERIES_PER_SESSION * (truth[r].missed + 1)

(* The packages a lineage really worked on are pairwise different: every   *)
(* resume added a new one.                                                 *)
NoRepeatedPackage ==
  \A r \in Run : Covered(truth[r]) => Cardinality(truth[r].seen) = truth[r].cycles

(* Two receipts of the same completion event that both dispatched a run    *)
(* are so far apart that the later gate run could not see the earlier one. *)
FarApart(q, r) ==
  \/ q.id + MAX_RECEIPT_SCAN <= r.newest
  \/ r.id + MAX_RECEIPT_SCAN <= q.newest

OneDispatchPerEvent ==
  \A q, r \in ledger :
    q # r /\ q.key = r.key /\ IsDispatched(q) /\ IsDispatched(r) => FarApart(q, r)

(* An architect run that really was dispatched for a completion, or to     *)
(* recover a failed run, is followed by another for the same only if its   *)
(* gate run wrote no receipt, or one too far back for the later gate run   *)
(* to see: duplicates, replays, workflow_run events and pushes never get   *)
(* past a receipt that can be read (prior_event() and the look-ups of the  *)
(* two recoveries).                                                        *)
RepeatedOnlyUnseen ==
  \A r, s \in Run :
    /\ truth[r].binder # 0 /\ truth[r].binder < truth[s].binder
    /\ truth[r].event = truth[s].event
    => \A q \in ledger :
         q.id = truth[r].binder => q.id + MAX_RECEIPT_SCAN <= truth[s].newest

(* No architect run is the child of two receipts: lineages never merge,    *)
(* even when another dispatcher's run is taken for the child.              *)
ChildClaimedOnce ==
  \A q, r \in ledger : IsDispatched(q) /\ IsDispatched(r) /\ q.child = r.child => q = r

(* A stopped receipt that really was rearmed is rearmed again only if the  *)
(* first rearm run wrote no receipt, or one that has left the newest rearm *)
(* runs that previous_rearms() looks at.                                   *)
RearmedOnlyUnseen ==
  \A r, s \in Run :
    LET first == truth[r].event
        later == truth[s].event
    IN  /\ first[1] = "REARM" /\ later[1] = "REARM"
        /\ first[2] = later[2] /\ first[3] < later[3]
        => \A m \in rearms : m.id = first[3] => m.id + MAX_REARM_SCAN <= later[3]

-----------------------------------------------------------------------------
(* What the documents say, and the code does not do *)

(* docs/architecture/CODEX-COMPLETION-CALLBACK-015.md: one completion      *)
(* event, delivered twice, lets at most one architect run start.  This     *)
(* counts the runs that really were dispatched.                            *)
CompletionResumesOnce ==
  \A r, s \in Run :
    r # s /\ truth[r].binder # 0 /\ truth[s].binder # 0
      => truth[r].event # truth[s].event

(* docs/architecture/PRE-SPEND-AUTONOMY-RECOVERY-014.md: a bounded session *)
(* has one pre-spend recovery.                                             *)
OnePreSpendRecoveryPerSession ==
  \A q, r \in ledger :
    q.actor = "CONTROLLER" /\ r.actor = "CONTROLLER" /\ q.session = r.session
      => q = r

-----------------------------------------------------------------------------
(* The promise *)

(* The detailed loop keeps the promise of BoundedAutonomy: its grants are  *)
(* the receipts that dispatched a run.                                     *)
Dispatched == {q \in ledger : IsDispatched(q)}

Promise == INSTANCE BoundedAutonomy WITH grants <- Dispatched

KeepsPromise == Promise!Spec

-----------------------------------------------------------------------------
(* The architect runs *)

(* Each run of the loop as ArchitectRun has it, which the runs of          *)
(* ArchitectCycle implement.  What a run paid before it delegates is its   *)
(* own affair: the loop learns of it when it delegates or ends.            *)
HasDelegated(r) == run[r].pkg # NoPackage

Architect(r) ==
  INSTANCE ArchitectRun
    WITH Nothing <- NoPackage, work <- run[r].pkg,
         paid <- IF HasDelegated(r) THEN TrueSolCalls(run[r].passes)
                 ELSE IF run[r].outcome = "sol_incomplete" THEN 1 ELSE 0,
         charge <- IF HasDelegated(r) THEN ArchitectSolCalls(run[r].passes) ELSE 0,
         ended <- run[r].status = "completed", outcome <- run[r].outcome

(* Whatever the gate, the recoveries and people do, no run of the loop     *)
(* delegates twice, is charged or paid for after that, changes once it has *)
(* ended, or is taken for a failed one when it has delegated: the loop     *)
(* asks of an architect run nothing but what ArchitectRun says.            *)
RunsAreArchitectRuns ==
  /\ \A r \in Run : Architect(r)!Init
  /\ [][\A r \in Run : [Architect(r)!Next]_(Architect(r)!runVars)]_vars
=============================================================================
