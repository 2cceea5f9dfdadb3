----------------------- MODULE AutonomyControl_typing -----------------------
(***************************************************************************)
(* The type invariant of the control loop, for every value of the          *)
(* constants.  It is inductive as it stands.                               *)
(***************************************************************************)
EXTENDS AutonomyControl, FiniteSetTheorems, TLAPS

-----------------------------------------------------------------------------
(* Receipts *)

Lineages ==
  [session : Run \cup {NoRun}, cycle : Nat, spend : Nat, sol : Nat, codex : Nat,
   history : SUBSET Packages, pre : Nat]

Ats == [id : Nat, newest : Nat]

LEMMA ReceiptType ==
  ASSUME NEW at \in Ats, NEW actor \in ReceiptActors,
         NEW key \in ReceiptActors \X Nat \X Nat, NEW pkg \in Packages,
         NEW parent \in Run \cup {NoRun}, NEW of \in Run \cup {NoRun},
         NEW lineage \in Lineages, NEW stop \in StopReasons
  PROVE  Receipt(at, actor, key, pkg, parent, of, lineage, stop) \in Receipts
BY DEF Receipt, Receipts, Ats, Lineages

LEMMA LineageOfType ==
  ASSUME NEW q \in Receipts
  PROVE  LineageOf(q) \in Lineages
BY DEF Receipts, LineageOf, Lineages

LEMMA FreshSessionType ==
  ASSUME NEW r \in Run \cup {NoRun}
  PROVE  FreshSession(r) \in Lineages
BY DEF FreshSession, Lineages

LEMMA WithChildType ==
  ASSUME NEW q \in Receipts, NEW child \in Run
  PROVE  WithChild(q, child) \in Receipts
BY DEF WithChild, Receipts

LEMMA NoReceiptType == NoReceipt \in Receipts
<1>1. [id |-> 0, newest |-> 0] \in Ats
  BY DEF Ats
<1>2. EventKey("NONE", NoRun, 0) \in ReceiptActors \X Nat \X Nat
  BY DEF EventKey, NoRun, ReceiptActors
<1>3. NoPackage \in Packages /\ "NONE" \in ReceiptActors
  BY DEF Packages, ReceiptActors
<1>4. FreshSession(NoRun) \in Lineages
  BY FreshSessionType
<1>5. "none" \in StopReasons
  BY DEF StopReasons
<1> QED BY <1>1, <1>2, <1>3, <1>4, <1>5, ReceiptType DEF NoReceipt

LEMMA IdleGateType == IdleGate \in GateStates
BY NoReceiptType DEF IdleGate, GateStates

(* What each controller writes is a receipt.                               *)
Completions ==
  [actor : Agents, attempt : Nat, pkg : Packages, parent : Run, passes : Passes,
   cost : Nat]

LEMMA CostType ==
  ASSUME NEW p \in Passes
  PROVE  ArchitectSolCalls(p) \in 1 .. 3 /\ ArchitectCost(p) \in Nat
BY PolicyAssumption
   DEF Passes, ArchitectSolCalls, ArchitectCost, RecordedUsages, ReservesOverwrittenPass

LEMMA KeyType ==
  ASSUME NEW actor \in ReceiptActors, NEW r \in Run, NEW attempt \in Nat
  PROVE  EventKey(actor, r, attempt) \in ReceiptActors \X Nat \X Nat
BY BoundsAssumption DEF EventKey, Run

LEMMA StopReasonType ==
  ASSUME NEW prior, NEW pkg, NEW total, NEW sol, NEW codex
  PROVE  StopReason(prior, pkg, total, sol, codex) \in StopReasons
BY DEF StopReason, StopReasons

LEMMA BuildReceiptType ==
  ASSUME NEW at \in Ats, NEW c \in Completions, NEW prior \in Lineages
  PROVE  BuildReceipt(at, c, prior) \in Receipts
<1> DEFINE total == prior.spend + ArchitectCost(c.passes) + c.cost
           sol   == prior.sol + ArchitectSolCalls(c.passes)
           codex == prior.codex + (IF c.actor = "CODEX" THEN 1 ELSE 0)
           lineage == [session |-> prior.session, cycle |-> prior.cycle + 1,
                       spend |-> total, sol |-> sol, codex |-> codex,
                       history |-> prior.history \cup {c.pkg}, pre |-> 0]
<1>1. ArchitectSolCalls(c.passes) \in 1 .. 3 /\ ArchitectCost(c.passes) \in Nat
  BY CostType DEF Completions
<1>2. total \in Nat /\ sol \in Nat /\ codex \in Nat
  BY <1>1 DEF Completions, Lineages
<1>3. lineage \in Lineages
  <2> HIDE DEF total, sol, codex
  <2> QED BY <1>2 DEF Lineages, Completions
<1>4. c.actor \in ReceiptActors /\ c.pkg \in Packages /\ c.parent \in Run
  BY DEF Completions, ReceiptActors
<1>5. EventKey(c.actor, c.parent, c.attempt) \in ReceiptActors \X Nat \X Nat
  BY <1>4, KeyType DEF Completions
<1>6. StopReason(prior, c.pkg, total, sol, codex) \in StopReasons
  BY StopReasonType
<1>7. BuildReceipt(at, c, prior)
        = Receipt(at, c.actor, EventKey(c.actor, c.parent, c.attempt), c.pkg,
                  c.parent, NoRun, lineage,
                  StopReason(prior, c.pkg, total, sol, codex))
  BY DEF BuildReceipt
<1> HIDE DEF total, sol, codex, lineage
<1> QED BY <1>3, <1>4, <1>5, <1>6, <1>7, ReceiptType

LEMMA DuplicateReceiptType ==
  ASSUME NEW at \in Ats, NEW c \in Completions, NEW first \in Receipts
  PROVE  DuplicateReceipt(at, c, first) \in Receipts
<1> DEFINE lineage == [session |-> first.session, cycle |-> first.cycle,
                       spend |-> first.spend, sol |-> first.sol,
                       codex |-> first.codex, history |-> {}, pre |-> 0]
           reason == "EXACT_COMPLETION_EVENT_ALREADY_RECEIPTED"
<1>1. lineage \in Lineages
  BY DEF Receipts, Lineages
<1>2. c.actor \in ReceiptActors /\ c.pkg \in Packages /\ c.parent \in Run
  BY DEF Completions, ReceiptActors
<1>3. first.key \in ReceiptActors \X Nat \X Nat
  BY DEF Receipts
<1>4. reason \in StopReasons
  BY DEF StopReasons
<1>5. DuplicateReceipt(at, c, first)
        = Receipt(at, c.actor, first.key, c.pkg, c.parent, NoRun, lineage, reason)
  BY DEF DuplicateReceipt
<1> HIDE DEF lineage, reason
<1> QED BY <1>1, <1>2, <1>3, <1>4, <1>5, ReceiptType

LEMMA CopyLineageType ==
  ASSUME NEW at \in Ats, NEW r \in Run, NEW prior \in Receipts
  PROVE  CopyLineage(at, r, prior) \in Receipts
<1> DEFINE lineage == [session |-> prior.session, cycle |-> prior.cycle,
                       spend |-> prior.spend, sol |-> prior.sol,
                       codex |-> prior.codex, history |-> prior.history,
                       pre |-> prior.pre + 1]
           actor == "CONTROLLER"
<1>1. lineage \in Lineages
  BY DEF Receipts, Lineages
<1>2. /\ actor \in ReceiptActors
      /\ prior.pkg \in Packages /\ prior.parent \in Run \cup {NoRun}
  BY DEF ReceiptActors, Receipts
<1>3. EventKey(actor, r, 1) \in ReceiptActors \X Nat \X Nat
  BY <1>2, KeyType
<1>4. "none" \in StopReasons
  BY DEF StopReasons
<1>5. CopyLineage(at, r, prior)
        = Receipt(at, actor, EventKey(actor, r, 1), prior.pkg, prior.parent, r,
                  lineage, "none")
  BY DEF CopyLineage
<1> HIDE DEF lineage, actor
<1> QED BY <1>1, <1>2, <1>3, <1>4, <1>5, ReceiptType

LEMMA PostSpendReceiptType ==
  ASSUME NEW at \in Ats, NEW r \in Run, NEW reason \in StopReasons
  PROVE  PostSpendReceipt(at, r, reason) \in Receipts
<1> DEFINE lineage == [session |-> r, cycle |-> 0, spend |-> SolPassPrice,
                       sol |-> 1, codex |-> 0, history |-> {}, pre |-> 0]
           actor == "CONTROLLER_POST_SPEND"
<1>1. lineage \in Lineages
  BY PolicyAssumption DEF Lineages
<1>2. actor \in ReceiptActors /\ NoPackage \in Packages
  BY DEF ReceiptActors, Packages
<1>3. EventKey(actor, r, 1) \in ReceiptActors \X Nat \X Nat
  BY <1>2, KeyType
<1>4. PostSpendReceipt(at, r, reason)
        = Receipt(at, actor, EventKey(actor, r, 1), NoPackage, r, r, lineage,
                  reason)
  BY DEF PostSpendReceipt
<1> HIDE DEF lineage, actor
<1> QED BY <1>1, <1>2, <1>3, <1>4, ReceiptType

LEMMA PostSpendStopType ==
  ASSUME NEW scan, NEW r, NEW active
  PROVE  PostSpendStop(scan, r, active) \in StopReasons
BY DEF PostSpendStop, StopReasons

-----------------------------------------------------------------------------
(* Steps that several actions share *)

LEMMA NewRunType ==
  ASSUME NEW status \in Statuses
  PROVE  NewRun(status) \in RunStates
BY DEF NewRun, RunStates, Outcomes, Packages, NoPasses, Passes

LEMMA FinishedType ==
  ASSUME run \in [Run -> RunStates], NEW r \in Run, NEW outcome \in Outcomes
  PROVE  Finished(r, outcome) \in RunStates
BY DEF Finished, RunStates, Statuses

(* The agents of the other runs keep a run that delegated to them.         *)
Delegated(runs, agents) ==
  \A r \in Run :
    agents[r].state # "none" =>
      runs[r].actor \in Agents /\ runs[r].status \in {"issued", "completed"}

LEMMA CreatedType ==
  ASSUME WorkTypeOK, NEW r \in Run, FreshRun(r)
  PROVE  Created(r) \in [Run -> RunStates] /\ Delegated(Created(r), agent)
<1>1. run[r].status = "absent"
  BY DEF FreshRun, Existing
<1>2. run \in [Run -> RunStates] /\ Delegated(run, agent)
  BY DEF WorkTypeOK, Delegated
<1>3. "waiting" \in Statuses /\ "running" \in Statuses /\ "ended" \in Outcomes
  BY DEF Statuses, Outcomes
<1>4. \A s \in Run : Created(r)[s] \in RunStates
  BY <1>2, <1>3, NewRunType, FinishedType DEF Created
<1>5. Created(r) \in [Run -> RunStates]
  BY <1>4 DEF Created
<1>6. ASSUME NEW s \in Run, agent[s].state # "none"
      PROVE  Created(r)[s].actor \in Agents /\ Created(r)[s].status \in {"issued", "completed"}
  <2>1. run[s].actor \in Agents /\ run[s].status \in {"issued", "completed"}
    BY <1>2, <1>6 DEF Delegated
  <2>2. s # r /\ s \notin Waiting
    BY <1>1, <2>1 DEF Waiting
  <2> QED BY <2>1, <2>2 DEF Created
<1> QED BY <1>5, <1>6 DEF Delegated

LEMMA CompletedType ==
  ASSUME WorkTypeOK, NEW r \in Run, NEW outcome \in Outcomes
  PROVE  Completed(r, outcome) \in [Run -> RunStates]
         /\ Delegated(Completed(r, outcome), agent)
<1>1. run \in [Run -> RunStates] /\ Delegated(run, agent)
  BY DEF WorkTypeOK, Delegated
<1>2. ASSUME NEW s \in Run
      PROVE  [run[s] EXCEPT !.status = "running"] \in RunStates
  BY <1>1 DEF RunStates, Statuses
<1>3. \A s \in Run : Completed(r, outcome)[s] \in RunStates
  BY <1>1, <1>2, FinishedType DEF Completed
<1>4. Completed(r, outcome) \in [Run -> RunStates]
  BY <1>3 DEF Completed
<1>5. ASSUME NEW s \in Run, agent[s].state # "none"
      PROVE  /\ Completed(r, outcome)[s].actor \in Agents
             /\ Completed(r, outcome)[s].status \in {"issued", "completed"}
  <2>1. run[s].actor \in Agents /\ run[s].status \in {"issued", "completed"}
    BY <1>1, <1>5 DEF Delegated
  <2>2. s \notin Waiting
    BY <2>1 DEF Waiting
  <2> QED BY <2>1, <2>2 DEF Completed, Finished
<1> QED BY <1>4, <1>5 DEF Delegated

LEMMA WaitingCount == Cardinality(Waiting) \in Nat
<1>1. IsFiniteSet(Run)
  BY FS_Interval, BoundsAssumption DEF Run
<1>2. Waiting \subseteq Run
  BY DEF Waiting
<1> QED BY <1>1, <1>2, FS_Subset, FS_CardinalityType

LEMMA IdleGateRunsType ==
  ASSUME GateTypeOK, NEW n \in Nat, IdleGateRuns(n)
  PROVE  /\ lastId' \in Nat /\ lastId' >= lastId
         /\ pending' \in SUBSET GateRuns /\ AtMostOne(pending')
         /\ \A e \in pending' : e.id <= lastId'
BY DEF GateTypeOK, IdleGateRuns, AtMostOne, GateRuns

(* Gate runs that come and go while one is in progress leave it alone.     *)
LEMMA LaterGateType ==
  ASSUME GateTypeOK, UNCHANGED <<gate, ledger>>, lastId' \in Nat, lastId' >= lastId,
         pending' \in SUBSET GateRuns, AtMostOne(pending'),
         \A e \in pending' : e.id <= lastId'
  PROVE  GateTypeOK'
<1>1. \A q \in Receipts : q.id \in Nat
  BY DEF Receipts
<1>2. gate.receipt \in Receipts /\ lastId \in Nat
  BY DEF GateTypeOK, GateStates
<1> QED BY <1>1, <1>2 DEF GateTypeOK, AtMostOne, Continued

LEMMA RemainingType ==
  ASSUME notices \in SUBSET Notices, NEW n \in notices
  PROVE  Remaining(n) \in SUBSET Notices
<1>1. ASSUME n.copies > 1 PROVE [n EXCEPT !.copies = @ - 1] \in Notices
  BY <1>1 DEF Notices
<1> QED BY <1>1 DEF Remaining

(* A gate run that takes up a notice knows it, and its own number.         *)
LEMMA TakesType ==
  ASSUME TypeOK, NEW e \in NextGateRuns, NEW kind, Takes(e, kind)
  PROVE  /\ e.notice \in Notices /\ e.notice.run \in Run
         /\ At(e) \in Ats /\ At(e).id <= lastId' /\ At(e).newest = Newest
         /\ Newest \in Nat /\ lastId' = Newest /\ lastId <= lastId'
         /\ notices' \in SUBSET Notices /\ pending' = {}
<1>1. lastId \in Nat /\ pending \subseteq GateRuns /\ notices \subseteq Notices
  BY DEF TypeOK, GateTypeOK, WorkTypeOK
<1>2. \A x \in pending : x.id <= lastId
  BY DEF TypeOK, GateTypeOK
<1>3. Newest \in Nat /\ Newest >= lastId
  BY <1>1 DEF Newest
<1>4. e \in GateRuns /\ e.id <= Newest
  BY <1>1, <1>2 DEF NextGateRuns, Newest, GateRuns
<1>5. At(e) \in Ats /\ At(e).id = e.id /\ At(e).newest = Newest
  BY <1>3, <1>4 DEF At, Ats, GateRuns
<1>6. pending = {} => e.notice \in notices
  BY DEF NextGateRuns
<1>7. notices' \in SUBSET Notices
  BY <1>1, <1>6, RemainingType DEF Takes
<1>8. e.notice \in Notices /\ e.notice.run \in Run
  BY <1>4 DEF GateRuns, Notices
<1> QED BY <1>3, <1>4, <1>5, <1>7, <1>8 DEF Takes

-----------------------------------------------------------------------------
(* The gate takes up a notice *)

LEMMA ControllersAreNotAgents ==
  "CONTROLLER" \notin Agents /\ "CONTROLLER_POST_SPEND" \notin Agents
BY PolicyAssumption DEF Agents

LEMMA BuildReceiptFields ==
  ASSUME NEW at \in Ats, NEW c \in Completions, NEW prior
  PROVE  /\ BuildReceipt(at, c, prior).id = at.id
         /\ Continued(BuildReceipt(at, c, prior)) = c.parent
BY DEF BuildReceipt, Receipt, Continued, Completions

LEMMA DuplicateReceiptFields ==
  ASSUME NEW at \in Ats, NEW c, NEW first
  PROVE  DuplicateReceipt(at, c, first).id = at.id
BY DEF DuplicateReceipt, Receipt

LEMMA CopyLineageFields ==
  ASSUME NEW at \in Ats, NEW r \in Run, NEW prior
  PROVE  /\ CopyLineage(at, r, prior).id = at.id
         /\ Continued(CopyLineage(at, r, prior)) = r
BY ControllersAreNotAgents DEF CopyLineage, Receipt, Continued

LEMMA PostSpendReceiptFields ==
  ASSUME NEW at \in Ats, NEW r \in Run, NEW reason
  PROVE  /\ PostSpendReceipt(at, r, reason).id = at.id
         /\ Continued(PostSpendReceipt(at, r, reason)) = r
BY ControllersAreNotAgents DEF PostSpendReceipt, Receipt, Continued

(* What a gate run leaves behind when it takes up a notice keeps the       *)
(* types.                                                                  *)
GateOutcome ==
  \/ Declines
  \/ \E q \in Receipts : q.id <= lastId' /\ Uploads(q)
  \/ \E q \in Receipts, sound \in BOOLEAN :
       q.id <= lastId' /\ Continued(q) \in Run /\ Authorizes(q, sound)

LEMMA GateOutcomeType ==
  ASSUME TypeOK, NEW e \in NextGateRuns, NEW kind, Takes(e, kind), GateOutcome
  PROVE  GateTypeOK'
<1>1. /\ lastId' \in Nat /\ lastId <= lastId' /\ pending' = {} /\ lastId \in Nat
  BY TakesType DEF TypeOK, GateTypeOK
<1>2. /\ gate \in GateStates /\ ledger \subseteq Receipts /\ gate.pc = "idle"
      /\ \A q \in ledger : q.id <= lastId
  BY DEF TypeOK, GateTypeOK, Takes
<1>3. \A q \in ledger : q.id \in Nat
  BY <1>2 DEF Receipts
<1>4. CASE Declines
  BY <1>1, <1>2, <1>3, <1>4 DEF Declines, GateTypeOK, AtMostOne
<1>5. CASE \E q \in Receipts : q.id <= lastId' /\ Uploads(q)
  BY <1>1, <1>2, <1>3, <1>5 DEF Uploads, GateTypeOK, AtMostOne
<1>6. CASE \E q \in Receipts, sound \in BOOLEAN :
             q.id <= lastId' /\ Continued(q) \in Run /\ Authorizes(q, sound)
  <2>1. PICK q \in Receipts, sound \in BOOLEAN :
          q.id <= lastId' /\ Continued(q) \in Run /\ Authorizes(q, sound)
    BY <1>6
  <2>2. gate' \in GateStates /\ gate'.receipt = q /\ ledger' = ledger
    BY <2>1 DEF Authorizes, GateStates
  <2>3. Continued(gate'.receipt) \in Run /\ gate'.receipt.id <= lastId'
    BY <2>1, <2>2
  <2>4. Continued(gate.receipt)' = Continued(gate'.receipt)
    BY DEF Continued
  <2> QED BY <1>1, <1>2, <1>3, <2>2, <2>3, <2>4 DEF GateTypeOK, AtMostOne
<1> QED BY <1>4, <1>5, <1>6 DEF GateOutcome

LEMMA CompletionType ==
  ASSUME TypeOK, NEW n \in Notices, ValidCompletion(n)
  PROVE  CompletionOf(n) \in Completions
<1>1. n.run \in Run /\ n.attempt \in Nat
  BY DEF Notices
<1>2. run[n.run] \in RunStates /\ agent[n.run] \in AgentStates
  BY <1>1 DEF TypeOK, WorkTypeOK
<1>3. run[n.run].actor \in Agents
  BY <1>1 DEF TypeOK, WorkTypeOK, ValidCompletion
<1> QED BY <1>1, <1>2, <1>3 DEF CompletionOf, Completions, RunStates, AgentStates

LEMMA ScanType ==
  ASSUME TypeOK
  PROVE  Scan \subseteq Receipts
BY DEF TypeOK, GateTypeOK, Scan

LEMMA PriorLineagesType ==
  ASSUME TypeOK, NEW r \in Run
  PROVE  PriorLineages(Scan, r) \subseteq Lineages
<1>1. LineageReceipts(Scan, r) \subseteq Receipts
  BY ScanType DEF LineageReceipts
<1> QED BY <1>1, FreshSessionType, LineageOfType DEF PriorLineages

LEMMA GateAgentType ==
  ASSUME TypeOK, NEW e \in NextGateRuns, GateAgent(e)
  PROVE  GateOutcome
<1> DEFINE n == e.notice
           c == CompletionOf(n)
<1>1. Takes(e, "agent")
  BY DEF GateAgent
<1>2. n \in Notices /\ n.run \in Run /\ At(e) \in Ats /\ At(e).id <= lastId'
  BY <1>1, TakesType
<1>3. CASE Declines
  BY <1>3 DEF GateOutcome
<1>4. ASSUME ValidCompletion(n), NEW first \in Scan,
             Uploads(DuplicateReceipt(At(e), c, first))
      PROVE  GateOutcome
  BY <1>2, <1>4, CompletionType, ScanType, DuplicateReceiptType,
     DuplicateReceiptFields DEF GateOutcome
<1>5. ASSUME ValidCompletion(n), NEW prior \in PriorLineages(Scan, n.run),
             \/ Authorizes(BuildReceipt(At(e), c, prior), Sound(n.run))
             \/ Uploads(BuildReceipt(At(e), c, prior))
      PROVE  GateOutcome
  <2>1. c \in Completions /\ prior \in Lineages
    BY <1>2, <1>5, CompletionType, PriorLineagesType
  <2>2. /\ BuildReceipt(At(e), c, prior) \in Receipts
        /\ BuildReceipt(At(e), c, prior).id <= lastId'
        /\ Continued(BuildReceipt(At(e), c, prior)) \in Run
    BY <1>2, <2>1, BuildReceiptType, BuildReceiptFields DEF Completions
  <2>3. Sound(n.run) \in BOOLEAN
    BY DEF Sound
  <2> QED BY <1>5, <2>2, <2>3 DEF GateOutcome
<1>6. PriorEvents(Scan, EventKey(c.actor, n.run, n.attempt)) \subseteq Scan
  BY DEF PriorEvents
<1> QED BY <1>3, <1>4, <1>5, <1>6 DEF GateAgent

LEMMA GatePreSpendType ==
  ASSUME TypeOK, NEW e \in NextGateRuns, NEW kind, GatePreSpend(e, kind)
  PROVE  GateOutcome
<1> DEFINE r == e.notice.run
<1>1. Takes(e, kind)
  BY DEF GatePreSpend
<1>2. r \in Run /\ At(e) \in Ats /\ At(e).id <= lastId'
  BY <1>1, TakesType
<1>3. PreSpendClaim(r) \subseteq Receipts
  BY ScanType DEF PreSpendClaim, LineageReceipts
<1>4. CASE Declines
  BY <1>4 DEF GateOutcome
<1>5. ASSUME NEW q \in PreSpendClaim(r),
             Authorizes(CopyLineage(At(e), r, q), Sound(r))
      PROVE  GateOutcome
  <2>1. CopyLineage(At(e), r, q) \in Receipts
    BY <1>2, <1>3, CopyLineageType
  <2>2. Sound(r) \in BOOLEAN
    BY DEF Sound
  <2> QED BY <1>2, <1>5, <2>1, <2>2, CopyLineageFields DEF GateOutcome
<1> QED BY <1>4, <1>5 DEF GatePreSpend

LEMMA GatePostSpendType ==
  ASSUME TypeOK, NEW e \in NextGateRuns, GatePostSpend(e)
  PROVE  GateOutcome
<1> DEFINE r == e.notice.run
<1>1. Takes(e, "postpush")
  BY DEF GatePostSpend
<1>2. r \in Run /\ At(e) \in Ats /\ At(e).id <= lastId'
  BY <1>1, TakesType
<1>3. CASE Declines
  BY <1>3 DEF GateOutcome
<1>4. ASSUME NEW stop \in StopReasons,
             \/ Uploads(PostSpendReceipt(At(e), r, stop))
             \/ Authorizes(PostSpendReceipt(At(e), r, stop), truth[r].binder = 0)
      PROVE  GateOutcome
  <2>1. PostSpendReceipt(At(e), r, stop) \in Receipts
    BY <1>2, PostSpendReceiptType
  <2> QED BY <1>2, <1>4, <2>1, PostSpendReceiptFields DEF GateOutcome
<1>5. \/ Declines
      \/ \E shown \in SUBSET Run :
           \/ Uploads(PostSpendReceipt(At(e), r,
                PostSpendStop(Scan, r, ActiveArchitectOrCodex(shown))))
           \/ Authorizes(PostSpendReceipt(At(e), r,
                PostSpendStop(Scan, r, ActiveArchitectOrCodex(shown))),
                truth[r].binder = 0)
  BY DEF GatePostSpend
<1> QED BY <1>3, <1>4, <1>5, PostSpendStopType

LEMMA TakingType ==
  ASSUME TypeOK, NEW e \in NextGateRuns,
         \/ GateAgent(e) \/ GatePostSpend(e)
         \/ GatePreSpend(e, "architect") \/ GatePreSpend(e, "prepush")
  PROVE  TypeOK'
<1>1. /\ GateOutcome
      /\ \E kind : Takes(e, kind)
  BY GateAgentType, GatePostSpendType, GatePreSpendType
     DEF GateAgent, GatePostSpend, GatePreSpend
<1>2. PICK kind : Takes(e, kind)
  BY <1>1
<1>3. GateTypeOK'
  BY <1>1, <1>2, GateOutcomeType
<1>4. notices' \in SUBSET Notices
  BY <1>2, TakesType
<1>5. UNCHANGED <<run, agent, codexRuns, rearm, rearms, lastRearm, truth, disturbances>>
  BY <1>2 DEF Takes, rearmVars
<1>6. listed' \in SUBSET Run
  BY DEF GateAgent, GatePostSpend, GatePreSpend, TypeOK, WorkTypeOK
<1> QED BY <1>3, <1>4, <1>5, <1>6
        DEF TypeOK, WorkTypeOK, RearmTypeOK, HistoryTypeOK

-----------------------------------------------------------------------------
(* The other steps *)

LEMMA ArchitectIssuesType ==
  ASSUME TypeOK, NEW r \in Run, ArchitectIssues(r)
  PROVE  TypeOK'
<1>1. \E actor \in Agents, pkg \in Packages, passes \in Passes :
        run' = [run EXCEPT ![r] = Issued(actor, pkg, passes)]
  <2>1. CASE IssueCodex(r)
    BY <2>1, BoundsAssumption DEF IssueCodex, Agents, Packages
  <2>2. CASE IssueReview(r)
    BY <2>2, BoundsAssumption DEF IssueReview, Agents, Packages
  <2> QED BY <2>1, <2>2 DEF ArchitectIssues
<1>2. PICK actor \in Agents, pkg \in Packages, passes \in Passes :
        run' = [run EXCEPT ![r] = Issued(actor, pkg, passes)]
  BY <1>1
<1>3. Issued(actor, pkg, passes) \in RunStates
  BY <1>2 DEF Issued, RunStates, Statuses, Outcomes
<1>4. codexRuns' \in Seq(Packages)
  <2>1. codexRuns \in Seq(Packages)
    BY DEF TypeOK, WorkTypeOK
  <2>2. CASE IssueCodex(r)
    <3>1. PICK pkg_ \in {"CODEX"} \X CodexWork : codexRuns' = Append(codexRuns, pkg_)
      BY <2>2 DEF IssueCodex
    <3>2. pkg_ \in Packages
      BY DEF Packages
    <3> QED BY <2>1, <3>1, <3>2
  <2>3. CASE IssueReview(r)
    BY <2>1, <2>3 DEF IssueReview
  <2> QED BY <2>2, <2>3 DEF ArchitectIssues
<1>5. run' \in [Run -> RunStates]
  BY <1>2, <1>3 DEF TypeOK, WorkTypeOK
<1>6. agent' = [agent EXCEPT ![r] = [state |-> "running", attempt |-> 1, cost |-> 0]]
  BY DEF ArchitectIssues
<1>7. [state |-> "running", attempt |-> 1, cost |-> 0] \in AgentStates
  BY DEF AgentStates
<1>8. agent' \in [Run -> AgentStates]
  BY <1>6, <1>7 DEF TypeOK, WorkTypeOK
<1>9. ASSUME NEW s \in Run, agent'[s].state # "none"
      PROVE  run'[s].actor \in Agents /\ run'[s].status \in {"issued", "completed"}
  <2>1. CASE s = r
    BY <1>2, <2>1 DEF Issued, TypeOK, WorkTypeOK
  <2>2. CASE s # r
    BY <1>2, <1>6, <1>9, <2>2 DEF TypeOK, WorkTypeOK
  <2> QED BY <2>1, <2>2
<1>10. WorkTypeOK'
  BY <1>4, <1>5, <1>8, <1>9 DEF ArchitectIssues, TypeOK, WorkTypeOK
<1> QED
  BY <1>10 DEF ArchitectIssues, TypeOK, GateTypeOK, RearmTypeOK, HistoryTypeOK,
               gateVars, rearmVars, AtMostOne, Continued

LEMMA ArchitectEndsType ==
  ASSUME TypeOK, NEW r \in Run, ArchitectEnds(r)
  PROVE  TypeOK'
<1>1. PICK o \in {"package", "ended", "pre_spend", "sol_incomplete"} :
        /\ run' = Completed(r, o)
        /\ IF o = "pre_spend"
           THEN /\ notices' = notices \cup {Notice("architect", r, 1, 1)}
                /\ UNCHANGED <<pending, lastId>>
           ELSE IdleGateRuns(1) /\ UNCHANGED notices
  BY DEF ArchitectEnds, MayEnd
<1>2. run' \in [Run -> RunStates] /\ Delegated(run', agent)
  BY <1>1, CompletedType DEF TypeOK, Outcomes
<1>3. notices' \in SUBSET Notices
  BY <1>1 DEF Notice, Notices, Kinds, TypeOK, WorkTypeOK
<1>4. WorkTypeOK'
  BY <1>2, <1>3 DEF ArchitectEnds, TypeOK, WorkTypeOK, Delegated
<1>5. GateTypeOK'
  <2>1. /\ lastId' \in Nat /\ lastId' >= lastId
        /\ pending' \in SUBSET GateRuns /\ AtMostOne(pending')
        /\ \A e \in pending' : e.id <= lastId'
    <3>1. CASE IdleGateRuns(1)
      BY <3>1, IdleGateRunsType DEF TypeOK
    <3>2. CASE UNCHANGED <<pending, lastId>>
      BY <3>2 DEF TypeOK, GateTypeOK, AtMostOne
    <3> QED BY <1>1, <3>1, <3>2
  <2> QED BY <2>1, LaterGateType DEF ArchitectEnds, TypeOK
<1> QED
  BY <1>4, <1>5 DEF ArchitectEnds, TypeOK, RearmTypeOK, HistoryTypeOK, rearmVars

LEMMA AgentCompletesType ==
  ASSUME TypeOK, NEW r \in Run, AgentCompletes(r)
  PROVE  TypeOK'
<1>1. agent[r] \in AgentStates /\ agent[r].state = "running"
  BY DEF TypeOK, WorkTypeOK, AgentCompletes
<1>2. PICK cost \in (IF run[r].actor = "CODEX" THEN CodexCosts ELSE {0}),
           copies \in (IF run[r].actor = "CODEX" THEN {1, 2} ELSE {1}) :
        /\ agent' = [agent EXCEPT ![r] = [state |-> "done", attempt |-> agent[r].attempt,
                                          cost |-> cost]]
        /\ notices' = notices \cup {Notice("agent", r, agent[r].attempt, copies)}
  BY DEF AgentCompletes
<1>3. cost \in Nat /\ copies \in Nat
  BY PolicyAssumption DEF CodexCosts
<1>4. [state |-> "done", attempt |-> agent[r].attempt, cost |-> cost] \in AgentStates
  BY <1>1, <1>3 DEF AgentStates
<1>5. agent' \in [Run -> AgentStates]
  BY <1>2, <1>4 DEF TypeOK, WorkTypeOK
<1>6. Notice("agent", r, agent[r].attempt, copies) \in Notices
  BY <1>1, <1>3 DEF Notice, Notices, Kinds, AgentStates
<1>7. \A s \in Run : agent'[s].state # "none" => agent[s].state # "none"
  BY <1>1, <1>2 DEF TypeOK, WorkTypeOK
<1>8. WorkTypeOK'
  BY <1>2, <1>5, <1>6, <1>7 DEF AgentCompletes, TypeOK, WorkTypeOK
<1> QED
  BY <1>8 DEF AgentCompletes, TypeOK, GateTypeOK, RearmTypeOK, HistoryTypeOK,
              gateVars, rearmVars, AtMostOne, Continued

LEMMA AgentFailsType ==
  ASSUME TypeOK, NEW r \in Run, AgentFails(r)
  PROVE  TypeOK'
<1>1. agent[r] \in AgentStates /\ agent[r].state = "running"
  BY DEF TypeOK, WorkTypeOK, AgentFails
<1>2. agent' = [agent EXCEPT ![r] = [state |-> "failed", attempt |-> agent[r].attempt,
                                     cost |-> 0]]
  BY DEF AgentFails
<1>3. [state |-> "failed", attempt |-> agent[r].attempt, cost |-> 0] \in AgentStates
  BY <1>1 DEF AgentStates
<1>4. agent' \in [Run -> AgentStates]
  BY <1>2, <1>3 DEF TypeOK, WorkTypeOK
<1>5. \A s \in Run : agent'[s].state # "none" => agent[s].state # "none"
  BY <1>1, <1>2 DEF TypeOK, WorkTypeOK
<1>6. WorkTypeOK'
  BY <1>4, <1>5 DEF AgentFails, TypeOK, WorkTypeOK
<1>7. GateTypeOK'
  BY IdleGateRunsType, LaterGateType DEF AgentFails, TypeOK
<1> QED
  BY <1>6, <1>7 DEF AgentFails, TypeOK, RearmTypeOK, HistoryTypeOK, rearmVars

LEMMA DeliverType ==
  ASSUME TypeOK, NEW n \in notices, Deliver(n)
  PROVE  TypeOK'
<1>1. notices \subseteq Notices /\ lastId \in Nat
  BY DEF TypeOK, WorkTypeOK, GateTypeOK
<1>2. notices' \in SUBSET Notices
  BY <1>1, RemainingType DEF Deliver
<1>3. [id |-> lastId + 1, notice |-> n] \in GateRuns
  BY <1>1 DEF GateRuns
<1>4. /\ pending' \in SUBSET GateRuns /\ AtMostOne(pending')
      /\ \A e \in pending' : e.id <= lastId'
      /\ lastId' \in Nat /\ lastId' >= lastId
  BY <1>1, <1>3 DEF Deliver, AtMostOne
<1>5. GateTypeOK'
  BY <1>4, LaterGateType DEF Deliver, TypeOK
<1> QED
  BY <1>2, <1>5 DEF Deliver, TypeOK, WorkTypeOK, RearmTypeOK, HistoryTypeOK,
                    workVars, rearmVars

(* Human acts and faults that reach neither gate nor architects.           *)
LEMMA NoticesType ==
  ASSUME TypeOK, notices' \in SUBSET Notices, disturbances' \in Nat,
         UNCHANGED <<workVars, gateVars, rearmVars, truth>>
  PROVE  TypeOK'
BY DEF TypeOK, WorkTypeOK, GateTypeOK, RearmTypeOK, HistoryTypeOK, workVars,
       gateVars, rearmVars, AtMostOne, Continued

LEMMA DisturbType ==
  ASSUME TypeOK, NEW kind, Disturb(kind)
  PROVE  disturbances' \in Nat
BY DEF Disturb, TypeOK, HistoryTypeOK

LEMMA LoseNoticeType ==
  ASSUME TypeOK, NEW n \in notices, LoseNotice(n)
  PROVE  TypeOK'
<1>1. notices' \in SUBSET Notices
  BY RemainingType DEF LoseNotice, TypeOK, WorkTypeOK
<1> QED BY <1>1, DisturbType, NoticesType DEF LoseNotice

LEMMA RequestRecoveryType ==
  ASSUME TypeOK, NEW r \in Run, NEW kind \in Kinds, RequestRecovery(r, kind)
  PROVE  TypeOK'
<1>1. notices' \in SUBSET Notices
  BY DEF RequestRecovery, Notice, Notices, TypeOK, WorkTypeOK
<1> QED BY <1>1, DisturbType, NoticesType DEF RequestRecovery

LEMMA ReplayCallbackType ==
  ASSUME TypeOK, NEW r \in Run, ReplayCallback(r)
  PROVE  TypeOK'
<1>1. agent[r].attempt \in Nat
  BY DEF TypeOK, WorkTypeOK, AgentStates
<1>2. notices' \in SUBSET Notices
  BY <1>1 DEF ReplayCallback, Notice, Notices, Kinds, TypeOK, WorkTypeOK
<1> QED BY <1>2, DisturbType, NoticesType DEF ReplayCallback

LEMMA RerunAgentType ==
  ASSUME TypeOK, NEW r \in Run, RerunAgent(r)
  PROVE  TypeOK'
<1>1. agent[r] \in AgentStates /\ agent[r].state \in {"done", "failed"}
  BY DEF RerunAgent, TypeOK, WorkTypeOK
<1>2. agent' = [agent EXCEPT ![r] = [state |-> "running",
                                     attempt |-> agent[r].attempt + 1, cost |-> 0]]
  BY DEF RerunAgent
<1>3. [state |-> "running", attempt |-> agent[r].attempt + 1, cost |-> 0] \in AgentStates
  BY <1>1 DEF AgentStates
<1>4. agent' \in [Run -> AgentStates]
  BY <1>2, <1>3 DEF TypeOK, WorkTypeOK
<1>5. \A s \in Run : agent'[s].state # "none" => agent[s].state # "none"
  BY <1>1, <1>2 DEF TypeOK, WorkTypeOK
<1>6. WorkTypeOK' /\ HistoryTypeOK'
  BY <1>4, <1>5, DisturbType
     DEF RerunAgent, TypeOK, WorkTypeOK, HistoryTypeOK
<1> QED
  BY <1>6 DEF RerunAgent, TypeOK, GateTypeOK, RearmTypeOK, gateVars, rearmVars,
              AtMostOne, Continued

(* A dispatch of the architect, by whomever.                               *)
LEMMA DispatchType ==
  ASSUME TypeOK, NEW r \in Run, FreshRun(r), run' = Created(r), listed' \in SUBSET Run,
         UNCHANGED <<agent, codexRuns, notices>>
  PROVE  WorkTypeOK'
<1>1. run' \in [Run -> RunStates] /\ Delegated(run', agent)
  BY CreatedType DEF TypeOK
<1> QED BY <1>1 DEF TypeOK, WorkTypeOK, Delegated

LEMMA ManualDispatchType ==
  ASSUME TypeOK, NEW r \in Run, ManualDispatch(r)
  PROVE  TypeOK'
<1>1. WorkTypeOK'
  BY DispatchType DEF ManualDispatch, TypeOK, WorkTypeOK
<1>2. GateTypeOK'
  BY WaitingCount, IdleGateRunsType, LaterGateType DEF ManualDispatch, TypeOK
<1>3. RearmTypeOK' /\ HistoryTypeOK'
  BY DisturbType
     DEF ManualDispatch, TypeOK, RearmTypeOK, HistoryTypeOK, rearmVars
<1> QED BY <1>1, <1>2, <1>3 DEF TypeOK

LEMMA RunDiagnosticType ==
  ASSUME TypeOK, RunDiagnostic
  PROVE  TypeOK'
<1>1. GateTypeOK'
  BY IdleGateRunsType, LaterGateType DEF RunDiagnostic, TypeOK
<1> QED
  BY <1>1, DisturbType
     DEF RunDiagnostic, TypeOK, WorkTypeOK, RearmTypeOK, HistoryTypeOK, workVars,
         rearmVars

(* What really happened is a well-typed history.                           *)
LEMMA OriginType ==
  ASSUME TypeOK, gate.pc # "idle"
  PROVE  Origin(gate.receipt, gate.sound) \in Truths
<1> DEFINE p == Continued(gate.receipt)
<1>1. gate.receipt \in Receipts /\ gate.sound \in BOOLEAN /\ p \in Run
  BY DEF TypeOK, GateTypeOK, GateStates
<1>2. run[p] \in RunStates /\ truth[p] \in Truths
  BY <1>1 DEF TypeOK, WorkTypeOK, HistoryTypeOK
<1>3. TrueSolCalls(run[p].passes) \in Nat
  BY <1>2 DEF RunStates, TrueSolCalls, Passes
<1>4. /\ gate.receipt.id \in Nat /\ gate.receipt.newest \in Nat
      /\ gate.receipt.key \in (ReceiptActors \cup {"REARM"}) \X Nat \X Nat
      /\ run[p].pkg \in Packages
  BY <1>1, <1>2 DEF Receipts, RunStates
<1> HIDE DEF p
<1> QED BY <1>1, <1>2, <1>3, <1>4 DEF Origin, Truths, p

LEMMA GatePostsType ==
  ASSUME TypeOK, GatePosts
  PROVE  TypeOK'
<1>1. PICK r \in Run, shown \in SUBSET Run :
        /\ FreshRun(r) /\ listed' = shown /\ run' = Created(r)
        /\ IdleGateRuns(Cardinality(Waiting))
        /\ gate' = [pc |-> "posted", receipt |-> gate.receipt,
                    sound |-> gate.sound, before |-> shown]
        /\ truth' = [truth EXCEPT ![r] = Origin(gate.receipt, gate.sound)]
  BY DEF GatePosts
<1>2. /\ UNCHANGED <<agent, codexRuns, notices, ledger, rearm, rearms, lastRearm,
                     disturbances>>
      /\ gate.pc = "authorized"
  BY DEF GatePosts, rearmVars
<1>3. WorkTypeOK'
  BY <1>1, <1>2, DispatchType
<1>4. /\ lastId' \in Nat /\ lastId' >= lastId
      /\ pending' \in SUBSET GateRuns /\ AtMostOne(pending')
      /\ \A e \in pending' : e.id <= lastId'
  BY <1>1, WaitingCount, IdleGateRunsType DEF TypeOK
<1>5. GateTypeOK'
  <2>1. gate \in GateStates
    BY DEF TypeOK, GateTypeOK
  <2>2. gate' \in GateStates /\ gate'.receipt = gate.receipt
    BY <1>1, <2>1 DEF GateStates
  <2>3. Continued(gate.receipt) \in Run /\ gate.receipt.id <= lastId
    BY <1>2 DEF TypeOK, GateTypeOK
  <2>4. \A q \in ledger : q.id <= lastId /\ q.id \in Nat
    BY DEF TypeOK, GateTypeOK, Receipts
  <2>5. lastId \in Nat /\ gate.receipt.id \in Nat /\ ledger \subseteq Receipts
    BY <2>1 DEF GateStates, Receipts, TypeOK, GateTypeOK
  <2>6. gate'.receipt.id <= lastId' /\ \A q \in ledger : q.id <= lastId'
    BY <1>4, <2>2, <2>3, <2>4, <2>5
  <2>7. Continued(gate.receipt)' \in Run
    BY <2>2, <2>3 DEF Continued
  <2> QED BY <1>2, <1>4, <2>2, <2>5, <2>6, <2>7 DEF GateTypeOK, AtMostOne
<1>6. HistoryTypeOK'
  BY <1>1, <1>2, OriginType DEF TypeOK, HistoryTypeOK
<1> QED BY <1>2, <1>3, <1>5, <1>6 DEF TypeOK, RearmTypeOK

(* The gate run ends, its receipt uploaded or not.                         *)
LEMMA GateEndsType ==
  ASSUME TypeOK, gate' = IdleGate, pending' = pending, lastId' = lastId,
         \/ ledger' = ledger
         \/ \E child \in Run : /\ gate.pc = "posted"
                               /\ ledger' = ledger \cup {WithChild(gate.receipt, child)}
  PROVE  GateTypeOK'
<1>1. gate' \in GateStates /\ gate'.pc = "idle"
  BY IdleGateType DEF IdleGate
<1>2. \A q \in ledger' : q \in Receipts /\ q.id <= lastId
  <2>1. CASE ledger' = ledger
    BY <2>1 DEF TypeOK, GateTypeOK
  <2>2. ASSUME NEW child \in Run, gate.pc = "posted",
               ledger' = ledger \cup {WithChild(gate.receipt, child)}
        PROVE  \A q \in ledger' : q \in Receipts /\ q.id <= lastId
    <3>1. gate.receipt \in Receipts /\ gate.receipt.id <= lastId
      BY <2>2 DEF TypeOK, GateTypeOK, GateStates
    <3>2. WithChild(gate.receipt, child).id = gate.receipt.id
      BY <3>1 DEF WithChild, Receipts
    <3> QED BY <2>2, <3>1, <3>2, WithChildType DEF TypeOK, GateTypeOK
  <2> QED BY <2>1, <2>2
<1> QED BY <1>1, <1>2 DEF TypeOK, GateTypeOK, AtMostOne

LEMMA GateEndingType ==
  ASSUME TypeOK, GateObserves \/ GateGivesUp \/ GateCrashes
  PROVE  TypeOK'
<1>1. /\ gate' = IdleGate
      /\ UNCHANGED <<run, agent, codexRuns, notices, pending, lastId, rearm, rearms,
                     lastRearm, truth>>
  BY DEF GateObserves, GateGivesUp, GateCrashes, rearmVars, workVars
<1>2. \/ ledger' = ledger
      \/ \E child \in Run : /\ gate.pc = "posted"
                            /\ ledger' = ledger \cup {WithChild(gate.receipt, child)}
  BY DEF GateObserves, GateGivesUp, GateCrashes
<1>3. GateTypeOK'
  BY <1>1, <1>2, GateEndsType
<1>4. listed' \in SUBSET Run
  BY DEF GateObserves, GateGivesUp, GateCrashes, workVars, TypeOK, WorkTypeOK
<1>5. disturbances' \in Nat
  BY DisturbType
     DEF GateObserves, GateGivesUp, GateCrashes, TypeOK, HistoryTypeOK
<1> QED
  BY <1>1, <1>3, <1>4, <1>5 DEF TypeOK, WorkTypeOK, RearmTypeOK, HistoryTypeOK

LEMMA RearmType ==
  ASSUME TypeOK,
         \/ \E q \in ledger : RearmChecks(q)
         \/ RearmPosts \/ RearmObserves \/ RearmGivesUp
  PROVE  TypeOK'
<1>1. rearm \in RearmStates /\ rearms \subseteq RearmReceipts /\ lastRearm \in Nat
  BY DEF TypeOK, RearmTypeOK
<1>2. IdleRearm \in RearmStates
  BY DEF IdleRearm, RearmStates
<1>3. ASSUME NEW q \in ledger, RearmChecks(q) PROVE TypeOK'
  <2>1. [pc |-> "checked", of |-> q.id, before |-> {}] \in RearmStates
    BY DEF RearmStates, TypeOK, GateTypeOK, Receipts
  <2>2. rearm' \in RearmStates
    BY <1>2, <1>3, <2>1 DEF RearmChecks
  <2>3. RearmTypeOK' /\ HistoryTypeOK'
    BY <1>1, <1>3, <2>2, DisturbType
       DEF RearmChecks, RearmTypeOK, TypeOK, HistoryTypeOK
  <2> QED
    BY <1>3, <2>3 DEF RearmChecks, TypeOK, WorkTypeOK, GateTypeOK, gateVars,
                      AtMostOne, Continued
<1>4. CASE RearmPosts
  <2>1. PICK r \in Run, shown \in SUBSET Run :
          /\ FreshRun(r) /\ listed' = shown /\ run' = Created(r)
          /\ IdleGateRuns(Cardinality(Waiting))
          /\ rearm' = [pc |-> "posted", of |-> rearm.of, before |-> shown]
          /\ truth' = [truth EXCEPT ![r].event = EventKey("REARM", rearm.of, lastRearm)]
    BY <1>4 DEF RearmPosts
  <2>2. WorkTypeOK'
    BY <1>4, <2>1, DispatchType DEF RearmPosts
  <2>3. GateTypeOK'
    BY <1>4, <2>1, WaitingCount, IdleGateRunsType, LaterGateType
       DEF RearmPosts, TypeOK
  <2>4. rearm' \in RearmStates
    BY <1>1, <2>1 DEF RearmStates
  <2>5. truth' \in [Run -> Truths]
    <3> DEFINE key == EventKey("REARM", rearm.of, lastRearm)
    <3>1. key \in (ReceiptActors \cup {"REARM"}) \X Nat \X Nat
      BY <1>1 DEF EventKey, RearmStates
    <3>2. truth[r] \in Truths
      BY DEF TypeOK, HistoryTypeOK
    <3> HIDE DEF key
    <3>3. [truth[r] EXCEPT !.event = key] \in Truths
      BY <3>1, <3>2 DEF Truths
    <3>4. truth' = [truth EXCEPT ![r] = [truth[r] EXCEPT !.event = key]]
      BY <2>1 DEF key
    <3> QED BY <3>3, <3>4 DEF TypeOK, HistoryTypeOK
  <2> QED
    BY <1>4, <2>2, <2>3, <2>4, <2>5 DEF RearmPosts, TypeOK, RearmTypeOK, HistoryTypeOK
<1>5. CASE RearmObserves
  <2>1. PICK shown \in SUBSET Run, child \in Run :
          /\ listed' = shown
          /\ rearms' = rearms \cup {[id |-> lastRearm, of |-> rearm.of, child |-> child]}
    BY <1>5 DEF RearmObserves
  <2>2. [id |-> lastRearm, of |-> rearm.of, child |-> child] \in RearmReceipts
    BY <1>1 DEF RearmStates, RearmReceipts
  <2> QED
    BY <1>1, <1>2, <1>5, <2>1, <2>2
       DEF RearmObserves, TypeOK, WorkTypeOK, GateTypeOK, RearmTypeOK,
           HistoryTypeOK, gateVars, AtMostOne, Continued
<1>6. CASE RearmGivesUp
  BY <1>1, <1>2, <1>6
     DEF RearmGivesUp, TypeOK, WorkTypeOK, GateTypeOK, RearmTypeOK,
         HistoryTypeOK, gateVars, AtMostOne, Continued
<1> QED BY <1>3, <1>4, <1>5, <1>6

-----------------------------------------------------------------------------
(* The theorem *)

LEMMA TypeInit == Init => TypeOK
<1> SUFFICES ASSUME Init PROVE TypeOK
  OBVIOUS
<1>1. \A status \in {"running", "absent"} : NewRun(status) \in RunStates
  BY NewRunType DEF Statuses
<1>2. NoAgent \in AgentStates /\ NoAgent.state = "none"
  BY DEF NoAgent, AgentStates
<1>3. WorkTypeOK
  BY <1>1, <1>2 DEF Init, WorkTypeOK
<1>4. GateTypeOK
  BY IdleGateType DEF Init, GateTypeOK, IdleGate, AtMostOne
<1>5. RearmTypeOK
  BY DEF Init, RearmTypeOK, IdleRearm, RearmStates
<1>6. NoReceipt.key \in (ReceiptActors \cup {"REARM"}) \X Nat \X Nat
  BY NoReceiptType DEF Receipts
<1>7. HistoryTypeOK
  BY <1>6 DEF Init, HistoryTypeOK, Truths
<1> QED BY <1>3, <1>4, <1>5, <1>7 DEF TypeOK

LEMMA TypeStep == TypeOK /\ [Next]_vars => TypeOK'
<1> SUFFICES ASSUME TypeOK, [Next]_vars PROVE TypeOK'
  OBVIOUS
<1>1. ASSUME NEW r \in Run,
             \/ ArchitectIssues(r) \/ ArchitectEnds(r)
             \/ AgentCompletes(r) \/ AgentFails(r)
             \/ ManualDispatch(r) \/ RerunAgent(r) \/ ReplayCallback(r)
             \/ RequestRecovery(r, "prepush") \/ RequestRecovery(r, "postpush")
      PROVE  TypeOK'
  <2>1. "prepush" \in Kinds /\ "postpush" \in Kinds
    BY DEF Kinds
  <2> QED
    BY <1>1, <2>1, ArchitectIssuesType, ArchitectEndsType, AgentCompletesType,
       AgentFailsType,
       ManualDispatchType, RerunAgentType, ReplayCallbackType, RequestRecoveryType
<1>2. ASSUME NEW n \in notices, Deliver(n) \/ LoseNotice(n) PROVE TypeOK'
  BY <1>2, DeliverType, LoseNoticeType
<1>3. ASSUME NEW e \in NextGateRuns,
             \/ GateAgent(e) \/ GatePostSpend(e)
             \/ GatePreSpend(e, "architect") \/ GatePreSpend(e, "prepush")
      PROVE  TypeOK'
  BY <1>3, TakingType
<1>4. CASE GatePosts \/ GateObserves \/ GateGivesUp \/ GateCrashes
  BY <1>4, GatePostsType, GateEndingType
<1>5. CASE (\E q \in ledger : RearmChecks(q)) \/ RearmPosts \/ RearmObserves \/ RearmGivesUp
  BY <1>5, RearmType
<1>6. CASE RunDiagnostic
  BY <1>6, RunDiagnosticType
<1>7. CASE UNCHANGED vars
  BY <1>7 DEF vars, TypeOK, WorkTypeOK, GateTypeOK, RearmTypeOK, HistoryTypeOK,
              AtMostOne, Continued
<1> QED BY <1>1, <1>2, <1>3, <1>4, <1>5, <1>6, <1>7 DEF Next

(* Every reachable state of the control loop is well typed: at most one    *)
(* gate run waits, no receipt is newer than the newest gate run, an agent  *)
(* belongs to a run that delegated to it, and an authorized gate run       *)
(* (resume_after_agent_completion.py, main()) continues an existing run.   *)
THEOREM TypeCorrect == Spec => []TypeOK
BY TypeInit, TypeStep, PTL DEF Spec
=============================================================================
