----------------------- MODULE AutonomyControl_proofs -----------------------
(***************************************************************************)
(* Theorems about the control loop, for every policy, every scan length    *)
(* and any number of runs and disturbances.                                *)
(***************************************************************************)
EXTENDS AutonomyControl_typing

-----------------------------------------------------------------------------
(* Lineages never merge.                                                   *)
(*                                                                         *)
(* ChildClaimedOnce is not inductive: it says nothing of the gate run that *)
(* is about to claim a child.  That run reads the listing before it posts; *)
(* every child claimed until then is in what it read, for a claimed child  *)
(* has been listed and the listing never forgets.  No other gate run       *)
(* claims one meanwhile.                                                   *)

ChildrenListed == \A q \in ledger : IsDispatched(q) => q.child \in listed

ChildrenBefore ==
  gate.pc = "posted" => \A q \in ledger : IsDispatched(q) => q.child \in gate.before

ClaimInv == ChildClaimedOnce /\ ChildrenListed /\ ChildrenBefore

(* What a gate run uploads without dispatching claims nothing. *)
LEMMA UploadsUndispatched ==
  /\ \A at, c, prior : ~IsDispatched(BuildReceipt(at, c, prior))
  /\ \A at, c, first : ~IsDispatched(DuplicateReceipt(at, c, first))
  /\ \A at, r, reason : ~IsDispatched(PostSpendReceipt(at, r, reason))
BY DEF IsDispatched, BuildReceipt, DuplicateReceipt, PostSpendReceipt, Receipt

(* A gate run that takes a notice leaves the dispatched receipts alone,    *)
(* and does not post.                                                      *)
LEMMA TakingKeepsDispatched ==
  ASSUME NEW e \in NextGateRuns,
         \/ GateAgent(e) \/ GatePostSpend(e)
         \/ GatePreSpend(e, "architect") \/ GatePreSpend(e, "prepush")
  PROVE  /\ Dispatched' = Dispatched
         /\ gate'.pc # "posted"
         /\ listed \subseteq listed'
<1>1. gate.pc = "idle"
  BY DEF GateAgent, GatePostSpend, GatePreSpend, Takes
<1>2. ASSUME NEW q, ~IsDispatched(q), Uploads(q)
      PROVE  Dispatched' = Dispatched /\ gate' = gate
  BY <1>2 DEF Uploads, Dispatched
<1>3. ASSUME NEW q, NEW sound, Authorizes(q, sound)
      PROVE  Dispatched' = Dispatched /\ gate'.pc = "authorized"
  BY <1>3 DEF Authorizes, IdleGate, Dispatched
<1>4. ASSUME Declines
      PROVE  Dispatched' = Dispatched /\ gate' = gate
  BY <1>4 DEF Declines, Dispatched
<1>5. CASE GateAgent(e)
  <2>1. UNCHANGED listed
    BY <1>5 DEF GateAgent
  <2>2. \/ Declines
        \/ \E q : ~IsDispatched(q) /\ Uploads(q)
        \/ \E q, sound : Authorizes(q, sound)
    BY <1>5, UploadsUndispatched DEF GateAgent
  <2> QED BY <1>1, <1>2, <1>3, <1>4, <2>1, <2>2
<1>6. CASE GatePostSpend(e)
  <2>1. listed \subseteq listed'
    BY <1>6 DEF GatePostSpend, Reads
  <2>2. \/ Declines
        \/ \E q : ~IsDispatched(q) /\ Uploads(q)
        \/ \E q, sound : Authorizes(q, sound)
    BY <1>6, UploadsUndispatched DEF GatePostSpend
  <2> QED BY <1>1, <1>2, <1>3, <1>4, <2>1, <2>2
<1>7. CASE GatePreSpend(e, "architect") \/ GatePreSpend(e, "prepush")
  <2>1. UNCHANGED listed
    BY <1>7 DEF GatePreSpend
  <2>2. Declines \/ \E q, sound : Authorizes(q, sound)
    BY <1>7 DEF GatePreSpend
  <2> QED BY <1>1, <1>3, <1>4, <2>1, <2>2
<1> QED BY <1>5, <1>6, <1>7

LEMMA ClaimInvInit == Init => ClaimInv
BY DEF Init, IdleGate, ClaimInv, ChildClaimedOnce, ChildrenListed, ChildrenBefore

LEMMA WithChildFields ==
  ASSUME NEW q \in Receipts, NEW child
  PROVE  LET p == WithChild(q, child)
         IN  /\ p.child = child
             /\ p.id = q.id /\ p.newest = q.newest /\ p.actor = q.actor
             /\ p.key = q.key /\ p.pkg = q.pkg /\ p.parent = q.parent
             /\ p.of = q.of /\ p.session = q.session /\ p.cycle = q.cycle
             /\ p.spend = q.spend /\ p.sol = q.sol /\ p.codex = q.codex
             /\ p.history = q.history /\ p.pre = q.pre
BY DEF WithChild, Receipts

LEMMA ClaimInvStep == TypeOK /\ ClaimInv /\ [Next]_vars => ClaimInv'
<1> SUFFICES ASSUME TypeOK, ClaimInv, [Next]_vars PROVE ClaimInv'
  OBVIOUS
<1> USE DEF ClaimInv, ChildClaimedOnce, ChildrenListed, ChildrenBefore
(* Most steps claim nothing and post nothing. *)
<1>1. ASSUME Dispatched' = Dispatched, listed \subseteq listed',
             \/ gate'.pc # "posted"
             \/ gate' = gate
      PROVE  ClaimInv'
  BY <1>1 DEF Dispatched
<1>2. ASSUME UNCHANGED ledger, UNCHANGED listed, UNCHANGED gate
      PROVE  ClaimInv'
  BY <1>2
<1>3. ASSUME NEW r \in Run, ArchitectIssues(r) PROVE ClaimInv'
  BY <1>2, <1>3 DEF ArchitectIssues, gateVars
<1>4. ASSUME NEW r \in Run, ArchitectEnds(r) PROVE ClaimInv'
  BY <1>2, <1>4 DEF ArchitectEnds
<1>5. ASSUME NEW r \in Run, AgentCompletes(r) \/ AgentFails(r) PROVE ClaimInv'
  BY <1>2, <1>5 DEF AgentCompletes, AgentFails, gateVars
<1>6. ASSUME NEW r \in Run, ManualDispatch(r) PROVE ClaimInv'
  BY <1>2, <1>6 DEF ManualDispatch
<1>7. ASSUME NEW r \in Run, RerunAgent(r) \/ ReplayCallback(r) PROVE ClaimInv'
  BY <1>2, <1>7 DEF RerunAgent, ReplayCallback, gateVars, workVars
<1>8. ASSUME NEW r \in Run,
             RequestRecovery(r, "prepush") \/ RequestRecovery(r, "postpush")
      PROVE  ClaimInv'
  BY <1>2, <1>8 DEF RequestRecovery, gateVars, workVars
<1>9. ASSUME NEW n \in notices, Deliver(n) \/ LoseNotice(n) PROVE ClaimInv'
  BY <1>2, <1>9 DEF Deliver, LoseNotice, gateVars, workVars
<1>10. ASSUME NEW e \in NextGateRuns,
              \/ GateAgent(e) \/ GatePostSpend(e)
              \/ GatePreSpend(e, "architect") \/ GatePreSpend(e, "prepush")
       PROVE  ClaimInv'
  BY <1>1, <1>10, TakingKeepsDispatched
<1>11. CASE GatePosts
  <2>1. PICK shown \in SUBSET Run :
          Reads(shown) /\ listed' = shown /\ gate'.before = shown
    BY <1>11 DEF GatePosts
  <2>2. ledger' = ledger
    BY <1>11 DEF GatePosts
  <2>3. listed \subseteq shown
    BY <2>1 DEF Reads
  <2> QED BY <2>1, <2>2, <2>3 DEF IsDispatched
<1>12. CASE GateObserves
  <2>1. PICK shown \in SUBSET Run, child \in Run :
          /\ Reads(shown) /\ listed' = shown
          /\ NewRuns(shown, gate.before) = {child}
          /\ ledger' = ledger \cup {WithChild(gate.receipt, child)}
    BY <1>12 DEF GateObserves
  <2>2. gate.pc = "posted" /\ gate' = IdleGate
    BY <1>12 DEF GateObserves
  <2>3. child \in shown /\ child \notin gate.before /\ listed \subseteq shown
    BY <2>1 DEF NewRuns, Started, Reads
  <2>4. WithChild(gate.receipt, child).child = child
    BY WithChildFields DEF TypeOK, GateTypeOK, GateStates
  <2>5. ASSUME NEW q \in ledger, IsDispatched(q) PROVE q.child # child
    BY <2>2, <2>3, <2>5
  <2> QED BY <2>1, <2>2, <2>3, <2>4, <2>5 DEF IsDispatched, IdleGate
<1>13. CASE GateGivesUp
  BY <1>1, <1>13 DEF GateGivesUp, IdleGate, Reads, Dispatched
<1>14. CASE GateCrashes
  BY <1>1, <1>14 DEF GateCrashes, IdleGate, workVars, Dispatched
<1>15. ASSUME NEW q \in ledger, RearmChecks(q) PROVE ClaimInv'
  BY <1>1, <1>15 DEF RearmChecks, Reads, Dispatched, gateVars
<1>16. CASE RearmPosts
  BY <1>1, <1>16 DEF RearmPosts, Reads, Dispatched
<1>17. CASE RearmObserves \/ RearmGivesUp
  BY <1>1, <1>17 DEF RearmObserves, RearmGivesUp, Reads, Dispatched, gateVars
<1>18. CASE RunDiagnostic
  BY <1>2, <1>18 DEF RunDiagnostic, workVars
<1>19. CASE UNCHANGED vars
  BY <1>2, <1>19 DEF vars
<1> QED
  BY <1>3, <1>4, <1>5, <1>6, <1>7, <1>8, <1>9, <1>10, <1>11, <1>12, <1>13,
     <1>14, <1>15, <1>16, <1>17, <1>18, <1>19 DEF Next

(* No architect run is ever the child of two receipts, whichever other     *)
(* dispatcher's run dispatch_architect() took for its own.                 *)
THEOREM ChildClaimed == Spec => []ChildClaimedOnce
<1>1. ClaimInv => ChildClaimedOnce
  BY DEF ClaimInv
<1> QED BY <1>1, ClaimInvInit, ClaimInvStep, TypeCorrect, PTL DEF Spec

-----------------------------------------------------------------------------
(* The promise is kept.                                                    *)
(*                                                                         *)
(* A grant is decided in one gate run, from the receipts it read, and      *)
(* given in the same gate run, when the child is observed.  Between the    *)
(* two no receipt that dispatched a run is added, for the gate runs follow *)
(* one another: what was legal when it was decided still is.  A pre-spend  *)
(* retry checks no cap: it inherits counters of a receipt within the caps, *)
(* and that is why WithinCaps belongs to the invariant.                    *)

GateLegal == gate.pc # "idle" => Promise!Legal(gate.receipt)

LegalInv == WithinCaps /\ GateLegal

(* Steps that neither authorize nor give a grant.                          *)
Frozen ==
  /\ Dispatched' = Dispatched
  /\ \/ gate' = gate
     \/ gate'.pc = "idle"
     \/ gate.pc # "idle" /\ gate'.receipt = gate.receipt

LEMMA LegalFrozen ==
  ASSUME Frozen, LegalInv
  PROVE  LegalInv'
<1>1. WithinCaps'
  BY DEF Frozen, LegalInv, WithinCaps, Dispatched, WithinPolicy
<1>2. GateLegal'
  BY DEF Frozen, LegalInv, GateLegal, Promise!Legal, Promise!InPolicy, Promise!Resume,
         Promise!Opens, Promise!Extends, Promise!RetryPreSpend, Promise!RetrySeed,
         Promise!OnlyRetry, Promise!Claims
<1> QED BY <1>1, <1>2 DEF LegalInv

(* What the gate finds in its scan is what a grant can know of.            *)
LEMMA ClaimsAreLineageReceipts ==
  ASSUME NEW g, g.newest = Newest, NEW r
  PROVE  Promise!Claims(g, r) = LineageReceipts(Scan, r)
BY DEF Promise!Claims, LineageReceipts, Scan, Dispatched

LEMMA NoRecoveryInScan ==
  ASSUME TypeOK, Newest \in Nat, NEW g, g.newest = Newest,
         ExistingRecovery(Scan, g.actor, g.of) = {}
  PROVE  Promise!OnlyRetry(g)
<1>1. ASSUME NEW p \in Dispatched, p.of = g.of, p.actor = g.actor
      PROVE  p.id + MAX_RECEIPT_SCAN <= g.newest
  <2>1. p \notin Scan
    BY <1>1 DEF ExistingRecovery, Dispatched
  <2>2. p.id \in Nat /\ MAX_RECEIPT_SCAN \in Nat
    BY <1>1, PolicyAssumption DEF Dispatched, TypeOK, GateTypeOK, Receipts
  <2> QED BY <1>1, <2>1, <2>2 DEF Scan, Dispatched
<1> QED BY <1>1 DEF Promise!OnlyRetry

LEMMA BuildReceiptLegal ==
  ASSUME TypeOK, NEW at \in Ats, at.newest = Newest, NEW c \in Completions,
         AtMostOne(LineageReceipts(Scan, c.parent)),
         NEW prior \in PriorLineages(Scan, c.parent),
         BuildReceipt(at, c, prior).stop = "none"
  PROVE  Promise!Legal(BuildReceipt(at, c, prior))
<1> DEFINE g == BuildReceipt(at, c, prior)
           claims == LineageReceipts(Scan, c.parent)
<1>1. /\ g.newest = Newest /\ g.actor = c.actor /\ g.pkg = c.pkg
      /\ g.parent = c.parent /\ g.session = prior.session
      /\ g.cycle = prior.cycle + 1
      /\ g.spend = prior.spend + ArchitectCost(c.passes) + c.cost
      /\ g.sol = prior.sol + ArchitectSolCalls(c.passes)
      /\ g.codex = prior.codex + (IF c.actor = "CODEX" THEN 1 ELSE 0)
      /\ g.history = prior.history \cup {c.pkg}
      /\ g.stop = StopReason(prior, g.pkg, g.spend, g.sol, g.codex)
  BY DEF BuildReceipt, Receipt
<1> HIDE DEF g
<1>2. prior \in Lineages /\ c.parent \in Run
  BY PriorLineagesType DEF Completions
<1>3. ArchitectSolCalls(c.passes) \in 1 .. 3 /\ ArchitectCost(c.passes) \in Nat
  BY CostType DEF Completions
<1>4. g.stop = "none"
  BY DEF g
<1>5. /\ g.pkg \notin prior.history
      /\ g.cycle <= MaxAutoResumes
      /\ g.spend < MaxSpend
      /\ g.sol + MAX_SOL_CALLS_PER_ARCHITECT_RUN <= MaxSolCalls
      /\ g.codex < MaxCodexJobs
  <2>1. /\ prior.cycle \in Nat /\ g.spend \in Nat /\ g.sol \in Nat /\ g.codex \in Nat
    BY <1>1, <1>2, <1>3 DEF Lineages, Completions
  <2> QED BY <1>1, <1>4, <2>1, PolicyAssumption DEF StopReason
<1>6. Promise!InPolicy(g)
  BY <1>5 DEF Promise!InPolicy
<1>7. Promise!Claims(g, g.parent) = claims
  BY <1>1, ClaimsAreLineageReceipts
<1>8. ASSUME claims = {} PROVE Promise!Resume(g)
  <2>1. prior = FreshSession(c.parent)
    BY <1>8 DEF PriorLineages
  <2>2. Promise!Opens(g)
    BY <1>1, <1>3, <1>7, <1>8, <2>1, PolicyAssumption
       DEF Promise!Opens, FreshSession
  <2> QED BY <2>2 DEF Promise!Resume
<1>9. ASSUME claims # {} PROVE Promise!Resume(g)
  <2>1. PICK p \in claims : prior = LineageOf(p)
    BY <1>9 DEF PriorLineages
  <2>2. claims = {p}
    BY <2>1 DEF AtMostOne
  <2>3. p \in Dispatched
    BY <2>1 DEF Dispatched, LineageReceipts, Scan
  <2>4. /\ prior.session = p.session /\ prior.cycle = p.cycle
        /\ prior.spend = p.spend /\ prior.sol = p.sol
        /\ prior.codex = p.codex /\ prior.history = p.history
    BY <2>1 DEF LineageOf
  <2>5. g.sol \in (p.sol + 1) .. (p.sol + MAX_SOL_CALLS_PER_ARCHITECT_RUN)
    BY <1>1, <1>2, <1>3, <2>4, PolicyAssumption DEF Lineages
  <2>6. g.spend >= p.spend /\ g.codex \in {p.codex, p.codex + 1}
    BY <1>1, <1>2, <1>3, <2>4 DEF Lineages, Completions
  <2>7. Promise!Extends(g, p)
    BY <1>1, <1>5, <1>7, <2>2, <2>4, <2>5, <2>6 DEF Promise!Extends
  <2> QED BY <2>3, <2>7 DEF Promise!Resume
<1>10. Promise!Resume(g)
  BY <1>8, <1>9
<1>11. g.actor # "CONTROLLER" /\ g.actor # "CONTROLLER_POST_SPEND"
  BY <1>1, ControllersAreNotAgents DEF Completions
<1> QED BY <1>6, <1>10, <1>11 DEF Promise!Legal, g

LEMMA CopyLineageLegal ==
  ASSUME TypeOK, WithinCaps, Newest \in Nat, NEW at \in Ats, at.newest = Newest,
         NEW r \in Run, NEW q \in PreSpendClaim(r)
  PROVE  Promise!Legal(CopyLineage(at, r, q))
<1> DEFINE g == CopyLineage(at, r, q)
<1>1. /\ g.newest = Newest /\ g.actor = "CONTROLLER" /\ g.of = r
      /\ g.session = q.session /\ g.cycle = q.cycle /\ g.spend = q.spend
      /\ g.sol = q.sol /\ g.codex = q.codex /\ g.history = q.history
      /\ g.pre = q.pre + 1
  BY DEF CopyLineage, Receipt
<1>2. /\ q \in LineageReceipts(Scan, r) /\ AtMostOne(LineageReceipts(Scan, r))
      /\ ExistingRecovery(Scan, "CONTROLLER", r) = {}
      /\ q.pre < MAX_PRE_SPEND_RECOVERIES_PER_SESSION
  BY DEF PreSpendClaim
<1>3. q \in Dispatched /\ WithinPolicy(q)
  BY <1>2 DEF LineageReceipts, Scan, Dispatched, WithinCaps
<1> HIDE DEF g
<1>4. Promise!InPolicy(g)
  BY <1>1, <1>3 DEF Promise!InPolicy, WithinPolicy
<1>5. LineageReceipts(Scan, r) = {q}
  BY <1>2 DEF AtMostOne
<1>6. Promise!Claims(g, g.of) = {q}
  BY <1>1, <1>5, ClaimsAreLineageReceipts
<1>7. Promise!RetryPreSpend(g)
  BY <1>1, <1>2, <1>3, <1>6 DEF Promise!RetryPreSpend
<1>8. Promise!OnlyRetry(g)
  BY <1>1, <1>2, NoRecoveryInScan
<1> QED BY <1>1, <1>4, <1>7, <1>8 DEF Promise!Legal, g

LEMMA PostSpendReceiptLegal ==
  ASSUME TypeOK, Newest \in Nat, NEW at \in Ats, at.newest = Newest, NEW r \in Run,
         NEW active, NEW stop, stop = "none", stop = PostSpendStop(Scan, r, active)
  PROVE  Promise!Legal(PostSpendReceipt(at, r, stop))
<1> DEFINE g == PostSpendReceipt(at, r, stop)
<1>1. /\ g.newest = Newest /\ g.actor = "CONTROLLER_POST_SPEND" /\ g.of = r
      /\ g.session = r /\ g.cycle = 0 /\ g.spend = SolPassPrice /\ g.sol = 1
      /\ g.codex = 0 /\ g.history = {}
  BY DEF PostSpendReceipt, Receipt
<1>2. /\ ExistingRecovery(Scan, "CONTROLLER_POST_SPEND", r) = {}
      /\ SolPassPrice + UNKNOWN_SOL_PASS_RESERVE_USD * MAX_SOL_CALLS_PER_ARCHITECT_RUN
           <= MaxSpend
      /\ 1 + MAX_SOL_CALLS_PER_ARCHITECT_RUN <= MaxSolCalls
  BY PolicyAssumption DEF PostSpendStop
<1> HIDE DEF g
<1>3. Promise!InPolicy(g)
  BY <1>1, <1>2, PolicyAssumption DEF Promise!InPolicy
<1>4. Promise!RetrySeed(g)
  BY <1>1 DEF Promise!RetrySeed
<1>5. Promise!OnlyRetry(g)
  BY <1>1, <1>2, NoRecoveryInScan
<1> QED BY <1>1, <1>3, <1>4, <1>5 DEF Promise!Legal, g

(* Whatever a gate run is authorized to dispatch for is legal.             *)
LEMMA AuthorizedLegal ==
  ASSUME TypeOK, LegalInv, NEW e \in NextGateRuns,
         \/ GateAgent(e) \/ GatePostSpend(e)
         \/ GatePreSpend(e, "architect") \/ GatePreSpend(e, "prepush")
  PROVE  gate'.pc = "idle" \/ Promise!Legal(gate'.receipt)
<1> DEFINE n == e.notice
           r == e.notice.run
<1>1. PICK kind : Takes(e, kind)
  BY DEF GateAgent, GatePostSpend, GatePreSpend
<1>2. /\ n \in Notices /\ r \in Run /\ At(e) \in Ats /\ At(e).newest = Newest
      /\ Newest \in Nat
  BY <1>1, TakesType
<1>3. gate.pc = "idle"
  BY <1>1 DEF Takes
<1>4. ASSUME NEW q, NEW sound, Authorizes(q, sound) PROVE gate'.receipt = q
  BY <1>4 DEF Authorizes
<1>5. CASE GateAgent(e)
  <2> DEFINE c == CompletionOf(n)
  <2>1. \/ gate' = gate
        \/ /\ ValidCompletion(n) /\ AtMostOne(LineageReceipts(Scan, r))
           /\ \E prior \in PriorLineages(Scan, r) :
                /\ BuildReceipt(At(e), c, prior).stop = "none"
                /\ Authorizes(BuildReceipt(At(e), c, prior), Sound(r))
    BY <1>5 DEF GateAgent, Declines, Uploads
  <2>2. ValidCompletion(n) => c \in Completions /\ c.parent = r
    BY <1>2, CompletionType DEF CompletionOf
  <2> QED BY <1>2, <1>3, <1>4, <2>1, <2>2, BuildReceiptLegal
<1>6. CASE GatePostSpend(e)
  <2>1. \/ gate' = gate
        \/ \E shown \in SUBSET Run : \E sound :
             LET stop == PostSpendStop(Scan, r, ActiveArchitectOrCodex(shown))
             IN  stop = "none" /\ Authorizes(PostSpendReceipt(At(e), r, stop), sound)
    BY <1>6 DEF GatePostSpend, Declines, Uploads
  <2> QED BY <1>2, <1>3, <1>4, <2>1, PostSpendReceiptLegal
<1>7. CASE GatePreSpend(e, "architect") \/ GatePreSpend(e, "prepush")
  <2>1. \/ gate' = gate
        \/ \E q \in PreSpendClaim(r) : \E sound :
             Authorizes(CopyLineage(At(e), r, q), sound)
    BY <1>7 DEF GatePreSpend, Declines
  <2> QED BY <1>2, <1>3, <1>4, <2>1, CopyLineageLegal DEF LegalInv
<1> QED BY <1>5, <1>6, <1>7

LEMMA StepKinds ==
  ASSUME [Next]_vars
  PROVE  \/ Frozen
         \/ GateObserves
         \/ \E e \in NextGateRuns :
              \/ GateAgent(e) \/ GatePostSpend(e)
              \/ GatePreSpend(e, "architect") \/ GatePreSpend(e, "prepush")
<1>1. ASSUME UNCHANGED ledger, UNCHANGED gate PROVE Frozen
  BY <1>1 DEF Frozen, Dispatched
<1>2. ASSUME NEW r \in Run,
             \/ ArchitectIssues(r) \/ ArchitectEnds(r)
             \/ AgentCompletes(r) \/ AgentFails(r)
             \/ ManualDispatch(r) \/ RerunAgent(r) \/ ReplayCallback(r)
             \/ RequestRecovery(r, "prepush") \/ RequestRecovery(r, "postpush")
      PROVE  Frozen
  BY <1>1, <1>2 DEF ArchitectIssues, ArchitectEnds, AgentCompletes, AgentFails,
     ManualDispatch, RerunAgent, ReplayCallback, RequestRecovery, gateVars
<1>3. ASSUME NEW n \in notices, Deliver(n) \/ LoseNotice(n) PROVE Frozen
  BY <1>1, <1>3 DEF Deliver, LoseNotice, gateVars
<1>4. CASE GatePosts
  BY <1>4 DEF GatePosts, Frozen, Dispatched
<1>5. CASE GateGivesUp \/ GateCrashes
  BY <1>5 DEF GateGivesUp, GateCrashes, IdleGate, Frozen, Dispatched
<1>6. CASE \/ \E q \in ledger : RearmChecks(q)
           \/ RearmPosts \/ RearmObserves \/ RearmGivesUp \/ RunDiagnostic
           \/ UNCHANGED vars
  BY <1>1, <1>6 DEF RearmChecks, RearmPosts, RearmObserves, RearmGivesUp,
     RunDiagnostic, gateVars, vars
<1> QED BY <1>2, <1>3, <1>4, <1>5, <1>6 DEF Next

(* The receipt of an observed dispatch is one legal grant, of a new child. *)
LEMMA ObservedGrant ==
  ASSUME TypeOK, ClaimInv, LegalInv, GateObserves
  PROVE  Promise!Grant /\ LegalInv'
<1>1. PICK shown \in SUBSET Run, child \in Run :
        /\ NewRuns(shown, gate.before) = {child}
        /\ ledger' = ledger \cup {WithChild(gate.receipt, child)}
  BY DEF GateObserves
<1>2. gate.pc = "posted" /\ gate' = IdleGate
  BY DEF GateObserves
<1> DEFINE q == gate.receipt
           g == WithChild(gate.receipt, child)
<1>3. q \in Receipts
  BY DEF TypeOK, GateTypeOK, GateStates
<1>4. /\ g.child = child /\ g.id = q.id /\ g.newest = q.newest
      /\ g.actor = q.actor /\ g.pkg = q.pkg /\ g.parent = q.parent
      /\ g.of = q.of /\ g.session = q.session /\ g.cycle = q.cycle
      /\ g.spend = q.spend /\ g.sol = q.sol /\ g.codex = q.codex
      /\ g.history = q.history /\ g.pre = q.pre
  BY <1>3, WithChildFields
<1> HIDE DEF g
<1>5. IsDispatched(g) /\ Dispatched' = Dispatched \cup {g}
  <2>1. child # NoRun
    BY BoundsAssumption DEF Run, NoRun
  <2> QED BY <1>1, <1>4, <2>1 DEF g, IsDispatched, Dispatched
<1>6. \A p \in Dispatched : p.child # g.child
  <2>1. child \notin gate.before
    BY <1>1 DEF NewRuns
  <2> QED BY <1>2, <1>4, <2>1 DEF ClaimInv, ChildrenBefore, Dispatched
<1>7. Promise!Legal(q)
  BY <1>2 DEF LegalInv, GateLegal
<1>8. Promise!Legal(g)
  BY <1>4, <1>7 DEF Promise!Legal, Promise!InPolicy, Promise!Resume,
     Promise!Opens, Promise!Extends, Promise!RetryPreSpend, Promise!RetrySeed,
     Promise!OnlyRetry, Promise!Claims
<1>9. Promise!Grant
  BY <1>5, <1>6, <1>8 DEF Promise!Grant
<1>10. WithinPolicy(g)
  BY <1>8 DEF Promise!Legal, Promise!InPolicy, WithinPolicy
<1>11. WithinCaps'
  BY <1>1, <1>10 DEF LegalInv, WithinCaps, g, WithinPolicy
<1>12. GateLegal'
  BY <1>2 DEF GateLegal, IdleGate
<1> QED BY <1>9, <1>11, <1>12 DEF LegalInv

LEMMA LegalInvInit == Init => LegalInv
BY DEF Init, IdleGate, LegalInv, GateLegal, WithinCaps

LEMMA LegalInvStep == TypeOK /\ ClaimInv /\ LegalInv /\ [Next]_vars => LegalInv'
<1> SUFFICES ASSUME TypeOK, ClaimInv, LegalInv, [Next]_vars PROVE LegalInv'
  OBVIOUS
<1>1. CASE Frozen
  BY <1>1, LegalFrozen
<1>2. CASE GateObserves
  BY <1>2, ObservedGrant
<1>3. ASSUME NEW e \in NextGateRuns,
             \/ GateAgent(e) \/ GatePostSpend(e)
             \/ GatePreSpend(e, "architect") \/ GatePreSpend(e, "prepush")
      PROVE  LegalInv'
  <2>1. gate'.pc = "idle" \/ Promise!Legal(gate'.receipt)
    BY <1>3, AuthorizedLegal
  <2>2. Dispatched' = Dispatched
    BY <1>3, TakingKeepsDispatched
  <2>3. WithinCaps'
    BY <2>2 DEF LegalInv, WithinCaps, Dispatched, WithinPolicy
  <2>4. GateLegal'
    BY <2>1, <2>2 DEF GateLegal, Promise!Legal, Promise!InPolicy, Promise!Resume,
       Promise!Opens, Promise!Extends, Promise!RetryPreSpend, Promise!RetrySeed,
       Promise!OnlyRetry, Promise!Claims
  <2> QED BY <2>3, <2>4 DEF LegalInv
<1> QED BY <1>1, <1>2, <1>3, StepKinds

(* Every receipt that dispatched an architect run was within all four caps *)
(* and left room for the three Sol calls of the run, whichever of the      *)
(* three controllers wrote it and whatever was lost, displaced or misread. *)
THEOREM Caps == Spec => []WithinCaps
<1>1. LegalInv => WithinCaps
  BY DEF LegalInv
<1> QED
  BY <1>1, ClaimInvInit, ClaimInvStep, LegalInvInit, LegalInvStep, TypeCorrect, PTL
     DEF Spec

(* The control loop implements BoundedAutonomy: the receipts that          *)
(* dispatched a run are only ever added to, one at a time, each within the *)
(* policy, of a new child, and either a resume that extends the one        *)
(* lineage the gate could know of or the only retry of a failed run.       *)
THEOREM PromiseKept == Spec => KeepsPromise
<1>1. Init => Promise!Init
  BY DEF Init, Promise!Init, Dispatched
<1>2. TypeOK /\ ClaimInv /\ LegalInv /\ [Next]_vars => [Promise!Grant]_Dispatched
  <2> SUFFICES ASSUME TypeOK, ClaimInv, LegalInv, [Next]_vars
               PROVE  Promise!Grant \/ Dispatched' = Dispatched
    OBVIOUS
  <2> QED BY StepKinds, ObservedGrant, TakingKeepsDispatched DEF Frozen
<1> QED
  BY <1>1, <1>2, ClaimInvInit, ClaimInvStep, LegalInvInit, LegalInvStep,
     TypeCorrect, PTL DEF Spec, KeepsPromise, Promise!Spec

-----------------------------------------------------------------------------
(* One dispatch per event.                                                 *)
(*                                                                         *)
(* The three controllers look for an earlier receipt in different ways: by *)
(* event key, or by actor and recovered run.  That the key of a receipt    *)
(* tells the same as its actor and its run is part of the invariant.       *)

Named(q) ==
  /\ \E r, attempt : q.key = EventKey(q.actor, r, attempt)
  /\ q.actor \in Agents => q.of = NoRun
  /\ q.actor \notin Agents => q.of # NoRun /\ q.key = EventKey(q.actor, q.of, 1)

(* No dispatched receipt that q could have seen is about the same event.   *)
Unprecedented(q) ==
  \A p \in Dispatched : p.key = q.key => p.id + MAX_RECEIPT_SCAN <= q.newest

First(q) == Named(q) /\ Unprecedented(q)

DedupInv ==
  /\ OneDispatchPerEvent
  /\ \A q \in Dispatched : Named(q)
  /\ gate.pc # "idle" => First(gate.receipt)

LEMMA OutOfScan ==
  ASSUME TypeOK, Newest \in Nat, NEW p \in Dispatched, p \notin Scan
  PROVE  p.id + MAX_RECEIPT_SCAN <= Newest
<1>1. p.id \in Nat /\ MAX_RECEIPT_SCAN \in Nat
  BY PolicyAssumption DEF Dispatched, TypeOK, GateTypeOK, Receipts
<1> QED BY <1>1 DEF Scan, Dispatched

LEMMA BuildReceiptFirst ==
  ASSUME TypeOK, DedupInv, Newest \in Nat, NEW at \in Ats, at.newest = Newest,
         NEW c \in Completions, NEW prior,
         PriorEvents(Scan, EventKey(c.actor, c.parent, c.attempt)) = {}
  PROVE  First(BuildReceipt(at, c, prior))
<1> DEFINE g == BuildReceipt(at, c, prior)
<1>1. /\ g.key = EventKey(c.actor, c.parent, c.attempt) /\ g.actor = c.actor
      /\ g.of = NoRun /\ g.newest = Newest /\ g.actor \in Agents
  BY DEF BuildReceipt, Receipt, Completions
<1> HIDE DEF g
<1>2. Named(g)
  BY <1>1 DEF Named
<1>3. ASSUME NEW p \in Dispatched, p.key = g.key PROVE p \notin Scan
  BY <1>1, <1>3 DEF PriorEvents
<1>4. Unprecedented(g)
  BY <1>1, <1>3, OutOfScan DEF Unprecedented
<1> QED BY <1>2, <1>4 DEF First, g

(* The two recoveries, which look for their actor and run only.            *)
LEMMA RecoveryFirst ==
  ASSUME TypeOK, DedupInv, Newest \in Nat, NEW g, NEW r \in Run,
         g.newest = Newest, g.of = r, g.key = EventKey(g.actor, r, 1),
         g.actor \in {"CONTROLLER", "CONTROLLER_POST_SPEND"},
         ExistingRecovery(Scan, g.actor, r) = {}
  PROVE  First(g)
<1>1. g.actor \notin Agents /\ r # NoRun
  BY ControllersAreNotAgents, BoundsAssumption DEF Run, NoRun
<1>2. Named(g)
  BY <1>1 DEF Named
<1>3. ASSUME NEW p \in Dispatched, p.of = r, p.actor = g.actor PROVE p \notin Scan
  BY <1>3 DEF ExistingRecovery, Dispatched
<1>4. ASSUME NEW p \in Dispatched, p.key = g.key PROVE p.of = r /\ p.actor = g.actor
  <2>1. Named(p)
    BY DEF DedupInv
  <2>2. p.actor = g.actor
    BY <1>4, <2>1 DEF Named, EventKey
  <2> QED BY <1>1, <1>4, <2>1, <2>2 DEF Named, EventKey
<1>5. Unprecedented(g)
  BY <1>3, <1>4, OutOfScan DEF Unprecedented
<1> QED BY <1>2, <1>5 DEF First

LEMMA AuthorizedFirst ==
  ASSUME TypeOK, DedupInv, NEW e \in NextGateRuns,
         \/ GateAgent(e) \/ GatePostSpend(e)
         \/ GatePreSpend(e, "architect") \/ GatePreSpend(e, "prepush")
  PROVE  gate'.pc = "idle" \/ First(gate'.receipt)
<1> DEFINE n == e.notice
           r == e.notice.run
<1>1. PICK kind : Takes(e, kind)
  BY DEF GateAgent, GatePostSpend, GatePreSpend
<1>2. /\ n \in Notices /\ r \in Run /\ At(e) \in Ats /\ At(e).newest = Newest
      /\ Newest \in Nat
  BY <1>1, TakesType
<1>3. gate.pc = "idle"
  BY <1>1 DEF Takes
<1>4. ASSUME NEW q, NEW sound, Authorizes(q, sound) PROVE gate'.receipt = q
  BY <1>4 DEF Authorizes
<1>5. CASE GateAgent(e)
  <2> DEFINE c == CompletionOf(n)
  <2>1. \/ gate' = gate
        \/ /\ ValidCompletion(n)
           /\ PriorEvents(Scan, EventKey(c.actor, c.parent, c.attempt)) = {}
           /\ \E prior : Authorizes(BuildReceipt(At(e), c, prior), Sound(r))
    BY <1>5 DEF GateAgent, Declines, Uploads, CompletionOf
  <2>2. ValidCompletion(n) => c \in Completions
    BY <1>2, CompletionType
  <2> QED BY <1>2, <1>3, <1>4, <2>1, <2>2, BuildReceiptFirst
<1>6. CASE GatePostSpend(e)
  <2>1. \/ gate' = gate
        \/ \E shown \in SUBSET Run : \E sound :
             LET stop == PostSpendStop(Scan, r, ActiveArchitectOrCodex(shown))
             IN  stop = "none" /\ Authorizes(PostSpendReceipt(At(e), r, stop), sound)
    BY <1>6 DEF GatePostSpend, Declines, Uploads
  <2>2. ASSUME NEW active, NEW stop, stop = PostSpendStop(Scan, r, active), stop = "none"
        PROVE  ExistingRecovery(Scan, "CONTROLLER_POST_SPEND", r) = {}
    BY <2>2 DEF PostSpendStop
  <2>3. ASSUME NEW stop
        PROVE  LET g == PostSpendReceipt(At(e), r, stop)
               IN  /\ g.newest = Newest /\ g.of = r /\ g.actor = "CONTROLLER_POST_SPEND"
                   /\ g.key = EventKey(g.actor, r, 1)
    BY <1>2 DEF PostSpendReceipt, Receipt
  <2> QED BY <1>2, <1>3, <1>4, <2>1, <2>2, <2>3, RecoveryFirst
<1>7. CASE GatePreSpend(e, "architect") \/ GatePreSpend(e, "prepush")
  <2>1. \/ gate' = gate
        \/ \E q \in PreSpendClaim(r) : \E sound :
             Authorizes(CopyLineage(At(e), r, q), sound)
    BY <1>7 DEF GatePreSpend, Declines
  <2>2. ASSUME NEW q \in PreSpendClaim(r)
        PROVE  ExistingRecovery(Scan, "CONTROLLER", r) = {}
    BY DEF PreSpendClaim
  <2>3. ASSUME NEW q
        PROVE  LET g == CopyLineage(At(e), r, q)
               IN  /\ g.newest = Newest /\ g.of = r /\ g.actor = "CONTROLLER"
                   /\ g.key = EventKey(g.actor, r, 1)
    BY <1>2 DEF CopyLineage, Receipt
  <2> QED BY <1>2, <1>3, <1>4, <2>1, <2>2, <2>3, RecoveryFirst
<1> QED BY <1>5, <1>6, <1>7

LEMMA DedupFrozen ==
  ASSUME Frozen, DedupInv
  PROVE  DedupInv'
<1>1. OneDispatchPerEvent'
  BY DEF Frozen, Dispatched, DedupInv, OneDispatchPerEvent, FarApart
<1>2. \A q \in Dispatched' : Named(q)
  BY DEF Frozen, DedupInv
<1>3. gate'.pc # "idle" => First(gate.receipt) /\ gate'.receipt = gate.receipt
  BY DEF Frozen, DedupInv
<1>4. gate'.pc # "idle" => First(gate.receipt)'
  BY <1>3 DEF Frozen, First, Named, Unprecedented
<1> QED BY <1>1, <1>2, <1>4 DEF DedupInv

LEMMA DedupObserved ==
  ASSUME TypeOK, DedupInv, GateObserves
  PROVE  DedupInv'
<1>1. PICK child \in Run : ledger' = ledger \cup {WithChild(gate.receipt, child)}
  BY DEF GateObserves
<1>2. gate.pc = "posted" /\ gate' = IdleGate
  BY DEF GateObserves
<1> DEFINE q == gate.receipt
           g == WithChild(gate.receipt, child)
<1>3. q \in Receipts
  BY <1>2 DEF TypeOK, GateTypeOK, GateStates
<1>4. /\ g.child = child /\ g.id = q.id /\ g.newest = q.newest
      /\ g.actor = q.actor /\ g.key = q.key /\ g.of = q.of
  BY <1>3, WithChildFields
<1>5. First(q)
  BY <1>2 DEF DedupInv
<1> HIDE DEF g, q
<1>6. First(g)
  BY <1>4, <1>5 DEF First, Named, Unprecedented
<1>7. Dispatched' \subseteq Dispatched \cup {g}
  BY <1>1 DEF g, Dispatched
<1>8. \A p \in Dispatched : p.key = g.key => FarApart(p, g) /\ FarApart(g, p)
  BY <1>6 DEF First, Unprecedented, FarApart
<1>9. OneDispatchPerEvent'
  <2> SUFFICES ASSUME NEW x \in Dispatched', NEW y \in Dispatched', x # y, x.key = y.key
               PROVE  FarApart(x, y)
    BY DEF OneDispatchPerEvent, Dispatched
  <2>1. CASE x \in Dispatched /\ y \in Dispatched
    BY <2>1 DEF DedupInv, OneDispatchPerEvent, Dispatched
  <2>2. CASE x = g /\ y \in Dispatched
    BY <1>8, <2>2
  <2>3. CASE y = g /\ x \in Dispatched
    BY <1>8, <2>3
  <2> QED BY <1>7, <2>1, <2>2, <2>3
<1>10. \A p \in Dispatched' : Named(p)
  BY <1>6, <1>7 DEF DedupInv, First
<1>11. gate'.pc = "idle"
  BY <1>2 DEF IdleGate
<1> QED BY <1>9, <1>10, <1>11 DEF DedupInv

LEMMA DedupInvInit == Init => DedupInv
BY DEF Init, IdleGate, DedupInv, OneDispatchPerEvent, Dispatched

LEMMA DedupInvStep == TypeOK /\ DedupInv /\ [Next]_vars => DedupInv'
<1> SUFFICES ASSUME TypeOK, DedupInv, [Next]_vars PROVE DedupInv'
  OBVIOUS
<1>1. CASE Frozen
  BY <1>1, DedupFrozen
<1>2. CASE GateObserves
  BY <1>2, DedupObserved
<1>3. ASSUME NEW e \in NextGateRuns,
             \/ GateAgent(e) \/ GatePostSpend(e)
             \/ GatePreSpend(e, "architect") \/ GatePreSpend(e, "prepush")
      PROVE  DedupInv'
  <2>1. gate'.pc = "idle" \/ First(gate'.receipt)
    BY <1>3, AuthorizedFirst
  <2>2. Dispatched' = Dispatched
    BY <1>3, TakingKeepsDispatched
  <2>3. OneDispatchPerEvent' /\ \A q \in Dispatched' : Named(q)
    BY <2>2 DEF Dispatched, DedupInv, OneDispatchPerEvent, FarApart
  <2>4. gate'.pc # "idle" => First(gate.receipt)'
    BY <2>1, <2>2 DEF First, Named, Unprecedented
  <2> QED BY <2>3, <2>4 DEF DedupInv
<1> QED BY <1>1, <1>2, <1>3, StepKinds

(* No completion event is claimed by two dispatching receipts unless the   *)
(* later gate run was too far from the earlier one to see it: replays and  *)
(* re-deliveries included.                                                 *)
THEOREM DispatchedOnce == Spec => []OneDispatchPerEvent
<1>1. DedupInv => OneDispatchPerEvent
  BY DEF DedupInv
<1> QED BY <1>1, DedupInvInit, DedupInvStep, TypeCorrect, PTL DEF Spec

-----------------------------------------------------------------------------
(* Rearms.  The controller looks for earlier rearms before it dispatches   *)
(* and writes its own receipt two steps later: what it did not see stays   *)
(* out of its window meanwhile, for no other rearm run starts.  A rearmed  *)
(* session is known by its rearm run, whose number is newer than all       *)
(* receipts until its own is written.                                      *)

Rearmed(r) == truth[r].event[1] = "REARM"

RearmNumbers ==
  /\ \A m \in rearms : m.id <= lastRearm /\ (rearm.pc # "idle" => m.id < lastRearm)
  /\ \A r \in Run :
       Rearmed(r) =>
         /\ truth[r].event[3] <= lastRearm
         /\ \A m \in rearms : m.id = truth[r].event[3] => m.of = truth[r].event[2]
         /\ rearm.pc # "idle" /\ truth[r].event[3] = lastRearm =>
              truth[r].event[2] = rearm.of

RearmNew ==
  rearm.pc # "idle" =>
    \A m \in rearms : m.of = rearm.of => m.id + MAX_REARM_SCAN <= lastRearm

RearmInv == RearmedOnlyUnseen /\ RearmNumbers /\ RearmNew

LEMMA RearmInvInit == Init => RearmInv
<1> SUFFICES ASSUME Init PROVE RearmInv
  OBVIOUS
<1>1. \A r \in Run : ~Rearmed(r)
  BY DEF Init, Rearmed, NoReceipt, Receipt, EventKey
<1> QED
  BY <1>1 DEF Init, IdleRearm, RearmInv, RearmedOnlyUnseen, RearmNumbers, RearmNew, Rearmed

(* What the gate dispatches is not a rearmed session.                      *)
LEMMA PostedNotRearmed ==
  ASSUME TypeOK, gate.pc # "idle"
  PROVE  Origin(gate.receipt, gate.sound).event[1] # "REARM"
<1>1. gate.receipt.key \in ReceiptActors \X Nat \X Nat
  BY DEF TypeOK, GateTypeOK, GateStates, Receipts
<1>2. "REARM" \notin ReceiptActors
  BY BoundsAssumption DEF ReceiptActors, Agents
<1>3. Origin(gate.receipt, gate.sound).event = gate.receipt.key
  BY DEF Origin
<1> QED BY <1>1, <1>2, <1>3

LEMMA RearmInvStep == TypeOK /\ RearmInv /\ [Next]_vars => RearmInv'
<1> SUFFICES ASSUME TypeOK, RearmInv, [Next]_vars PROVE RearmInv'
  OBVIOUS
<1> USE BoundsAssumption
<1>0. /\ lastRearm \in Nat
      /\ \A m \in rearms : m.id \in Nat /\ m.of \in Nat
      /\ rearm.of \in Nat
      /\ truth \in [Run -> Truths]
      /\ \A r \in Run : truth[r].event[2] \in Nat /\ truth[r].event[3] \in Nat
  BY DEF TypeOK, RearmTypeOK, RearmReceipts, RearmStates, HistoryTypeOK, Truths
<1>1. ASSUME UNCHANGED <<rearmVars, truth>> PROVE RearmInv'
  BY <1>1 DEF RearmInv, RearmedOnlyUnseen, RearmNumbers, RearmNew, rearmVars, Rearmed
<1>2. CASE GatePosts
  <2>1. PICK r \in Run : truth' = [truth EXCEPT ![r] = Origin(gate.receipt, gate.sound)]
    BY <1>2 DEF GatePosts
  <2>2. truth'[r].event[1] # "REARM" /\ \A s \in Run \ {r} : truth'[s] = truth[s]
    <3> DEFINE o == Origin(gate.receipt, gate.sound)
    <3>1. o.event[1] # "REARM"
      BY <1>2, PostedNotRearmed DEF GatePosts
    <3> HIDE DEF o
    <3>2. truth' = [truth EXCEPT ![r] = o]
      BY <2>1 DEF o
    <3> QED BY <1>0, <3>1, <3>2
  <2>3. UNCHANGED rearmVars
    BY <1>2 DEF GatePosts
  <2>4. RearmedOnlyUnseen'
    BY <2>2, <2>3 DEF RearmInv, RearmedOnlyUnseen, rearmVars
  <2>5. RearmNumbers' /\ RearmNew'
    BY <2>2, <2>3 DEF RearmInv, RearmNumbers, RearmNew, rearmVars, Rearmed
  <2> QED BY <2>4, <2>5 DEF RearmInv
<1>3. ASSUME NEW q \in ledger, RearmChecks(q) PROVE RearmInv'
  <2>1. rearms' = rearms /\ lastRearm' = lastRearm + 1 /\ truth' = truth
    BY <1>3 DEF RearmChecks
  <2>2. \/ rearm' = IdleRearm
        \/ /\ rearm' = [pc |-> "checked", of |-> q.id, before |-> {}]
           /\ PreviousRearms(q.id) = {}
    BY <1>3 DEF RearmChecks
  <2>3. RearmedOnlyUnseen' /\ RearmNumbers'
    BY <2>1, <1>0 DEF RearmInv, RearmedOnlyUnseen, RearmNumbers, Rearmed
  <2>4. CASE rearm' = IdleRearm
    BY <2>3, <2>4 DEF RearmInv, RearmNew, IdleRearm
  <2>5. CASE /\ rearm' = [pc |-> "checked", of |-> q.id, before |-> {}]
             /\ PreviousRearms(q.id) = {}
    <3>1. \A m \in rearms : m.of = q.id => ~(m.id + MAX_REARM_SCAN > lastRearm + 1)
      BY <2>5 DEF PreviousRearms
    <3>2. RearmNew'
      BY <3>1, <2>5, <2>1, <1>0 DEF RearmNew
    <3> QED BY <3>2, <2>3 DEF RearmInv
  <2> QED BY <2>2, <2>4, <2>5
<1>4. CASE RearmPosts
  <2>1. PICK r \in Run :
          truth' = [truth EXCEPT ![r].event = EventKey("REARM", rearm.of, lastRearm)]
    BY <1>4 DEF RearmPosts
  <2>2. /\ rearm.pc = "checked" /\ rearm'.pc = "posted" /\ rearm'.of = rearm.of
        /\ rearms' = rearms /\ lastRearm' = lastRearm
    BY <1>4 DEF RearmPosts
  <2>3. /\ truth'[r].event[2] = rearm.of /\ truth'[r].event[3] = lastRearm
        /\ \A s \in Run \ {r} : truth'[s] = truth[s]
    <3> DEFINE key == EventKey("REARM", rearm.of, lastRearm)
    <3>1. key[2] = rearm.of /\ key[3] = lastRearm
      BY DEF EventKey
    <3> HIDE DEF key
    <3>2. truth' = [truth EXCEPT ![r] = [truth[r] EXCEPT !.event = key]] /\ truth[r] \in Truths
      BY <1>0, <2>1 DEF key
    <3>3. truth'[r].event = key
      BY <1>0, <3>2 DEF Truths
    <3> QED BY <1>0, <3>1, <3>2, <3>3
  <2>4. RearmNumbers'
    BY <1>0, <2>2, <2>3 DEF RearmInv, RearmNumbers, Rearmed
  <2>5. RearmNew'
    BY <2>2 DEF RearmInv, RearmNew
  <2>6. RearmedOnlyUnseen'
    <3> SUFFICES ASSUME NEW s \in Run, NEW t \in Run, Rearmed(s)', Rearmed(t)',
                        truth'[s].event[2] = truth'[t].event[2],
                        truth'[s].event[3] < truth'[t].event[3],
                        NEW m \in rearms, m.id = truth'[s].event[3]
                 PROVE  m.id + MAX_REARM_SCAN <= truth'[t].event[3]
      BY <2>2 DEF RearmedOnlyUnseen, Rearmed
    <3>1. CASE s = r
      <4>1. truth'[t].event[3] <= lastRearm
        BY <2>2, <2>4 DEF RearmNumbers
      <4> QED BY <1>0, <2>3, <3>1, <4>1
    <3>2. CASE s # r /\ t = r
      <4>1. Rearmed(s) /\ truth'[s] = truth[s]
        BY <2>3, <3>2 DEF Rearmed
      <4>2. m.of = rearm.of
        BY <2>3, <3>2, <4>1 DEF RearmInv, RearmNumbers
      <4> QED BY <2>2, <2>3, <3>2, <4>2 DEF RearmInv, RearmNew
    <3>3. CASE s # r /\ t # r
      BY <2>3, <3>3 DEF RearmInv, RearmedOnlyUnseen, Rearmed
    <3> QED BY <3>1, <3>2, <3>3
  <2> QED BY <2>4, <2>5, <2>6 DEF RearmInv
<1>5. CASE RearmObserves
  <2>1. PICK child \in Run :
          rearms' = rearms \cup {[id |-> lastRearm, of |-> rearm.of, child |-> child]}
    BY <1>5 DEF RearmObserves
  <2>2. /\ rearm.pc = "posted" /\ rearm'.pc = "idle" /\ lastRearm' = lastRearm
        /\ truth' = truth
    BY <1>5 DEF RearmObserves, IdleRearm
  <2>3. RearmNumbers'
    BY <2>1, <2>2, <1>0 DEF RearmInv, RearmNumbers, Rearmed
  <2>4. RearmedOnlyUnseen'
    <3> SUFFICES ASSUME NEW s \in Run, NEW t \in Run, Rearmed(s), Rearmed(t),
                        truth[s].event[2] = truth[t].event[2],
                        truth[s].event[3] < truth[t].event[3],
                        NEW m \in rearms', m.id = truth[s].event[3]
                 PROVE  m.id + MAX_REARM_SCAN <= truth[t].event[3]
      BY <2>2 DEF RearmedOnlyUnseen, Rearmed
    <3>1. CASE m \in rearms
      BY <3>1 DEF RearmInv, RearmedOnlyUnseen, Rearmed
    <3>2. CASE m.id = lastRearm
      BY <1>0, <3>2 DEF RearmInv, RearmNumbers
    <3> QED BY <2>1, <3>1, <3>2
  <2> QED BY <2>2, <2>3, <2>4 DEF RearmInv, RearmNew
<1>6. CASE RearmGivesUp
  BY <1>6 DEF RearmGivesUp, RearmInv, RearmedOnlyUnseen, RearmNumbers, RearmNew,
     Rearmed, IdleRearm
<1> QED
  BY <1>1, <1>2, <1>3, <1>4, <1>5, <1>6
     DEF Next, vars, rearmVars, ArchitectIssues, ArchitectEnds, AgentCompletes,
         AgentFails, ManualDispatch, RerunAgent, ReplayCallback, RequestRecovery,
         Deliver, LoseNotice, GateAgent, GatePostSpend, GatePreSpend, Takes,
         GateObserves, GateGivesUp, GateCrashes, RunDiagnostic

(* A stopped receipt that really was rearmed is rearmed again only if the  *)
(* first rearm run left no receipt, or one that is no longer among the     *)
(* forty newest ones (previous_rearms(), rearm_autonomy.py).               *)
THEOREM RearmedWhenUnseen == Spec => []RearmedOnlyUnseen
<1>1. RearmInv => RearmedOnlyUnseen
  BY DEF RearmInv
<1> QED BY <1>1, RearmInvInit, RearmInvStep, TypeCorrect, PTL DEF Spec

-----------------------------------------------------------------------------
(* What the receipts say against what happened.                            *)
(*                                                                         *)
(* The caps bound what the receipts count.  That they bound the Sol calls, *)
(* the resumes and the retries that really happened needs the relation     *)
(* between the two: a receipt covers the run it dispatched.  It holds for  *)
(* the receipt in the ledger, for the one a posted gate run still carries, *)
(* and, of the run about to be dispatched, for the one just authorized.    *)
(* A receipt is known by its gate run, hence RunIdsFresh: no two gate runs *)
(* have the same number.                                                   *)

(* What a receipt says bounds what is true of a run of its lineage.        *)
Covers(q, t) ==
  /\ t.base <= q.sol
  /\ t.cycles <= q.cycle
  /\ t.retries <= q.pre
  /\ t.seen \subseteq q.history

Distinct(t) == IsFiniteSet(t.seen) /\ Cardinality(t.seen) = t.cycles

RunIdsFresh ==
  /\ \A r \in Run : truth[r].binder <= lastId
  /\ \A e \in pending :
       /\ e.id > 0
       /\ \A q \in ledger : q.id < e.id
       /\ \A r \in Run : truth[r].binder < e.id
       /\ gate.pc # "idle" => gate.receipt.id < e.id
  /\ gate.pc # "idle" =>
       gate.receipt.id > 0 /\ \A q \in ledger : q.id # gate.receipt.id
  /\ gate.pc = "authorized" => \A r \in Run : truth[r].binder # gate.receipt.id

(* The run a gate run is about to dispatch.                                *)
NextIsCovered ==
  gate.pc = "authorized" =>
    /\ gate.receipt.actor \in Agents => run[gate.receipt.parent].status = "completed"
    /\ gate.receipt.pre <= MAX_PRE_SPEND_RECOVERIES_PER_SESSION
    /\ gate.sound /\ Covered(truth[Continued(gate.receipt)]) =>
         /\ Covers(gate.receipt, Origin(gate.receipt, TRUE))
         /\ Distinct(Origin(gate.receipt, TRUE))

TruthCovered ==
  \A r \in Run :
    LET t == truth[r]
    IN  /\ Covered(t) => Distinct(t)
        /\ t.binder = 0 =>
             /\ t.base = 0 /\ t.cycles = 0 /\ t.retries = 0 /\ t.seen = {}
             /\ Covered(t)
        /\ Covered(t) /\ t.binder # 0 =>
             /\ \A q \in ledger : q.id = t.binder => Covers(q, t)
             /\ gate.pc = "posted" /\ gate.receipt.id = t.binder =>
                  Covers(gate.receipt, t)

TruthInv ==
  /\ RunIdsFresh /\ NextIsCovered /\ TruthCovered
  /\ TrueSolWithinCap

(* The history is the same, but for the event of a rearmed session.        *)
SameHistory ==
  \A r \in Run :
    /\ truth'[r].binder = truth[r].binder /\ truth'[r].newest = truth[r].newest
    /\ truth'[r].base = truth[r].base /\ truth'[r].cycles = truth[r].cycles
    /\ truth'[r].retries = truth[r].retries /\ truth'[r].seen = truth[r].seen
    /\ truth'[r].missed = truth[r].missed
    /\ run[r].status # "absent" => truth'[r].event = truth[r].event

(* Steps that write no receipt, dispatch nothing for the gate and give     *)
(* only new numbers to gate runs.                                          *)
Quiet ==
  /\ UNCHANGED ledger /\ SameHistory
  /\ gate' = gate \/ gate'.pc = "idle"
  /\ lastId' \in Nat /\ lastId' >= lastId
  /\ \A e \in pending' : e \in pending \/ e.id > lastId

(* The package and the passes of a completed run are final.                *)
Settled == \A r \in Run : run[r].status = "completed" => run'[r] = run[r]

LEMMA IdleGateRunsQuiet ==
  ASSUME TypeOK, NEW n \in Nat, IdleGateRuns(n)
  PROVE  /\ lastId' \in Nat /\ lastId' >= lastId
         /\ \A e \in pending' : e \in pending \/ e.id > lastId
BY DEF IdleGateRuns, TypeOK, GateTypeOK

LEMMA RunsSettle ==
  ASSUME TypeOK, [Next]_vars
  PROVE  Settled
<1> USE DEF Settled
<1>1. CASE UNCHANGED run
  BY <1>1
<1>2. ASSUME NEW r \in Run, FreshRun(r), run' = Created(r) PROVE Settled
  BY <1>2 DEF FreshRun, Existing, Created, Waiting
<1>3. ASSUME NEW r \in Run, ArchitectIssues(r) PROVE Settled
  <2>1. run[r].status # "completed" /\ \E s : run' = [run EXCEPT ![r] = s]
    BY <1>3 DEF ArchitectIssues, IssueCodex, IssueReview
  <2> QED BY <2>1 DEF TypeOK, WorkTypeOK
<1>4. ASSUME NEW r \in Run, ArchitectEnds(r) PROVE Settled
  <2>1. run[r].status # "completed" /\ \E o : run' = Completed(r, o)
    BY <1>4 DEF ArchitectEnds, MayEnd
  <2> QED BY <2>1 DEF Completed, Waiting
<1>5. CASE GatePosts
  BY <1>2, <1>5 DEF GatePosts
<1>6. CASE RearmPosts
  BY <1>2, <1>6 DEF RearmPosts
<1>7. ASSUME NEW r \in Run, ManualDispatch(r) PROVE Settled
  BY <1>2, <1>7 DEF ManualDispatch
<1> QED
  BY <1>1, <1>3, <1>4, <1>5, <1>6, <1>7
     DEF Next, vars, workVars, AgentCompletes, AgentFails, RerunAgent, ReplayCallback,
         RequestRecovery, Deliver, LoseNotice, GateAgent, GatePostSpend, GatePreSpend,
         Takes, GateObserves, GateGivesUp, GateCrashes, RearmChecks, RearmObserves,
         RearmGivesUp, RunDiagnostic

LEMMA QuietSteps ==
  ASSUME TypeOK, [Next]_vars
  PROVE  \/ Quiet
         \/ GatePosts
         \/ GateObserves
         \/ \E e \in NextGateRuns :
              \/ GateAgent(e) \/ GatePostSpend(e)
              \/ GatePreSpend(e, "architect") \/ GatePreSpend(e, "prepush")
<1>0. lastId \in Nat
  BY DEF TypeOK, GateTypeOK
<1> USE DEF SameHistory
<1>1. ASSUME UNCHANGED <<ledger, truth, lastId, pending>>,
             gate' = gate \/ gate' = IdleGate
      PROVE  Quiet
  BY <1>0, <1>1 DEF Quiet, IdleGate
<1>2. ASSUME UNCHANGED <<ledger, gate>>, SameHistory, NEW n \in Nat, IdleGateRuns(n)
      PROVE  Quiet
  BY <1>2, IdleGateRunsQuiet DEF Quiet
<1>3. ASSUME NEW r \in Run,
             \/ ArchitectIssues(r) \/ AgentCompletes(r) \/ RerunAgent(r)
             \/ ReplayCallback(r)
             \/ RequestRecovery(r, "prepush") \/ RequestRecovery(r, "postpush")
      PROVE  Quiet
  BY <1>1, <1>3 DEF ArchitectIssues, AgentCompletes, RerunAgent, ReplayCallback,
     RequestRecovery, gateVars
<1>4. ASSUME NEW r \in Run, ArchitectEnds(r) PROVE Quiet
  <2>1. UNCHANGED <<ledger, truth, gate>>
    BY <1>4 DEF ArchitectEnds
  <2>2. IdleGateRuns(1) \/ UNCHANGED <<pending, lastId>>
    BY <1>4 DEF ArchitectEnds
  <2> QED BY <1>1, <1>2, <2>1, <2>2
<1>5. ASSUME NEW r \in Run, AgentFails(r) PROVE Quiet
  <2>1. UNCHANGED <<ledger, truth, gate>>
    BY <1>5 DEF AgentFails
  <2>2. IdleGateRuns(1) \/ IdleGateRuns(0)
    BY <1>5 DEF AgentFails
  <2> QED BY <1>2, <2>1, <2>2
<1>6. ASSUME NEW r \in Run, ManualDispatch(r) PROVE Quiet
  BY <1>2, <1>6, WaitingCount DEF ManualDispatch
<1>7. ASSUME NEW n \in notices, Deliver(n) PROVE Quiet
  BY <1>0, <1>7 DEF Deliver, Quiet
<1>8. ASSUME NEW n \in notices, LoseNotice(n) PROVE Quiet
  BY <1>1, <1>8 DEF LoseNotice, gateVars
<1>9. CASE GateGivesUp
  BY <1>1, <1>9 DEF GateGivesUp
<1>10. CASE GateCrashes
  BY <1>1, <1>10 DEF GateCrashes
<1>11. CASE \/ \E q \in ledger : RearmChecks(q)
            \/ RearmObserves \/ RearmGivesUp \/ UNCHANGED vars
  BY <1>1, <1>11 DEF RearmChecks, RearmObserves, RearmGivesUp, gateVars, vars
<1>12. CASE RearmPosts
  <2>1. PICK r \in Run :
          /\ truth' = [truth EXCEPT ![r].event = EventKey("REARM", rearm.of, lastRearm)]
          /\ IdleGateRuns(Cardinality(Waiting))
          /\ run[r].status = "absent"
    BY <1>12 DEF RearmPosts, FreshRun, Existing
  <2>2. truth \in [Run -> Truths]
    BY DEF TypeOK, HistoryTypeOK
  <2>3. SameHistory
    BY <2>1, <2>2 DEF Truths
  <2>4. UNCHANGED <<ledger, gate>>
    BY <1>12 DEF RearmPosts
  <2> QED BY <1>2, <2>1, <2>3, <2>4, WaitingCount
<1>13. CASE RunDiagnostic
  BY <1>2, <1>13 DEF RunDiagnostic
<1> QED BY <1>3, <1>4, <1>5, <1>6, <1>7, <1>8, <1>9, <1>10, <1>11, <1>12, <1>13 DEF Next

(* No pass is missing from what the receipts count (architect_cost()).     *)
LEMMA PassesCounted ==
  ASSUME NEW p \in Passes
  PROVE  TrueSolCalls(p) \in Nat /\ TrueSolCalls(p) <= ArchitectSolCalls(p)
BY PolicyAssumption
   DEF Passes, TrueSolCalls, ArchitectSolCalls, RecordedUsages, ReservesOverwrittenPass

(* The lineage found for a run covers it, when it is the run's own.        *)
LEMMA SoundClaim ==
  ASSUME TypeOK, TruthInv, NEW r \in Run, Sound(r), Covered(truth[r]),
         AtMostOne(LineageReceipts(Scan, r))
  PROVE  /\ Distinct(truth[r])
         /\ \A q \in LineageReceipts(Scan, r) : Covers(q, truth[r])
         /\ LineageReceipts(Scan, r) = {} => truth[r].binder = 0
<1>1. Distinct(truth[r])
  BY DEF TruthInv, TruthCovered
<1>2. ASSUME NEW q \in LineageReceipts(Scan, r) PROVE Covers(q, truth[r])
  <2>1. q \in ledger /\ q \in Receipts
    BY <1>2 DEF LineageReceipts, Scan, TypeOK, GateTypeOK
  <2>2. CASE truth[r].binder = 0
    BY <2>1, <2>2 DEF TruthInv, TruthCovered, Covers, Receipts
  <2>3. CASE truth[r].binder # 0
    <3>1. q.id = truth[r].binder
      BY <2>3 DEF Sound, AtMostOne
    <3> QED BY <1>1, <2>1, <2>3, <3>1 DEF TruthInv, TruthCovered
  <2> QED BY <2>2, <2>3
<1>3. LineageReceipts(Scan, r) = {} => truth[r].binder = 0
  BY DEF Sound
<1> QED BY <1>1, <1>2, <1>3

LEMMA ResumeCovered ==
  ASSUME TypeOK, TruthInv, NEW at \in Ats, NEW n \in Notices, ValidCompletion(n),
         AtMostOne(LineageReceipts(Scan, n.run)), Sound(n.run), Covered(truth[n.run]),
         NEW prior \in PriorLineages(Scan, n.run),
         BuildReceipt(at, CompletionOf(n), prior).stop = "none"
  PROVE  LET g == BuildReceipt(at, CompletionOf(n), prior)
         IN  Covers(g, Origin(g, TRUE)) /\ Distinct(Origin(g, TRUE))
<1> DEFINE r == n.run
           c == CompletionOf(n)
           g == BuildReceipt(at, c, prior)
           t == truth[r]
           o == Origin(g, TRUE)
<1>1. /\ r \in Run /\ prior \in Lineages /\ c \in Completions
      /\ c.parent = r /\ c.pkg = run[r].pkg /\ c.passes = run[r].passes
  BY CompletionType, PriorLineagesType DEF Notices, CompletionOf
<1>2. /\ g.actor = c.actor /\ g.pkg = c.pkg /\ g.parent = r
      /\ g.cycle = prior.cycle + 1
      /\ g.sol = prior.sol + ArchitectSolCalls(c.passes)
      /\ g.history = prior.history \cup {c.pkg} /\ g.pre = 0
      /\ \E total, sol, codex : g.stop = StopReason(prior, c.pkg, total, sol, codex)
  BY <1>1 DEF BuildReceipt, Receipt
<1>3. g.stop = "none"
  OBVIOUS
<1> HIDE DEF g, c
<1>4. g.actor \in Agents /\ Continued(g) = r
  BY <1>1, <1>2 DEF Completions, Continued
<1>5. t \in Truths /\ run[r] \in RunStates
  BY <1>1 DEF TypeOK, HistoryTypeOK, WorkTypeOK
<1>6. /\ o.base = t.base + TrueSolCalls(c.passes) /\ o.cycles = t.cycles + 1
      /\ o.retries = 0 /\ o.seen = t.seen \cup {c.pkg}
  BY <1>1, <1>4 DEF Origin
<1> HIDE DEF o
<1>7. /\ Distinct(t)
      /\ t.base <= prior.sol /\ t.cycles <= prior.cycle /\ t.seen \subseteq prior.history
  <2>1. CASE LineageReceipts(Scan, r) = {}
    <3>1. prior.sol = 0 /\ prior.cycle = 0 /\ prior.history = {}
      BY <2>1 DEF PriorLineages, FreshSession
    <3>2. Distinct(t) /\ t.binder = 0
      BY <1>1, <2>1, SoundClaim
    <3>3. t.base = 0 /\ t.cycles = 0 /\ t.seen = {}
      BY <1>1, <3>2 DEF TruthInv, TruthCovered
    <3> QED BY <3>1, <3>2, <3>3
  <2>2. CASE LineageReceipts(Scan, r) # {}
    <3>1. PICK q \in LineageReceipts(Scan, r) : prior = LineageOf(q)
      BY <2>2 DEF PriorLineages
    <3>2. Covers(q, t) /\ Distinct(t)
      BY <1>1, SoundClaim
    <3> QED BY <3>1, <3>2 DEF Covers, LineageOf
  <2> QED BY <2>1, <2>2
<1>8. c.pkg \notin t.seen
  <2>1. c.pkg \notin prior.history
    BY <1>2, <1>3 DEF StopReason
  <2> QED BY <2>1, <1>7
<1>9. /\ ArchitectSolCalls(c.passes) \in Nat /\ TrueSolCalls(c.passes) \in Nat
      /\ TrueSolCalls(c.passes) <= ArchitectSolCalls(c.passes)
  BY <1>1, CostType, PassesCounted DEF Completions
<1>10. Covers(g, o)
  BY <1>1, <1>2, <1>5, <1>6, <1>7, <1>9 DEF Covers, Lineages, Truths
<1>11. Distinct(o)
  <2>1. IsFiniteSet(o.seen) /\ Cardinality(o.seen) = Cardinality(t.seen) + 1
    <3>1. IsFiniteSet(t.seen)
      BY <1>7 DEF Distinct
    <3>2. /\ IsFiniteSet(t.seen \cup {c.pkg})
          /\ Cardinality(t.seen \cup {c.pkg}) = Cardinality(t.seen) + 1
      BY <3>1, <1>8, FS_AddElement
    <3> QED BY <3>2, <1>6
  <2> QED BY <2>1, <1>6, <1>7 DEF Distinct
<1> QED BY <1>10, <1>11 DEF g, o, c

LEMMA PreSpendCovered ==
  ASSUME TypeOK, TruthInv, NEW at \in Ats, NEW r \in Run, Sound(r), Covered(truth[r]),
         NEW q \in PreSpendClaim(r)
  PROVE  LET g == CopyLineage(at, r, q)
         IN  Covers(g, Origin(g, TRUE)) /\ Distinct(Origin(g, TRUE))
<1> DEFINE g == CopyLineage(at, r, q)
           t == truth[r]
           o == Origin(g, TRUE)
<1>1. /\ g.actor = "CONTROLLER" /\ g.of = r /\ g.cycle = q.cycle /\ g.sol = q.sol
      /\ g.history = q.history /\ g.pre = q.pre + 1
  BY DEF CopyLineage, Receipt
<1> HIDE DEF g
<1>2. q \in LineageReceipts(Scan, r) /\ AtMostOne(LineageReceipts(Scan, r))
  BY DEF PreSpendClaim
<1>3. Covers(q, t) /\ Distinct(t)
  BY <1>2, SoundClaim
<1>4. t \in Truths /\ q \in Receipts
  BY <1>2 DEF LineageReceipts, Scan, TypeOK, HistoryTypeOK, GateTypeOK
<1>5. g.actor \notin Agents /\ Continued(g) = r
  BY <1>1, ControllersAreNotAgents DEF Continued
<1>6. o.base = t.base /\ o.cycles = t.cycles /\ o.retries = t.retries + 1 /\ o.seen = t.seen
  BY <1>1, <1>4, <1>5 DEF Origin, Truths
<1> HIDE DEF o
<1>7. Covers(g, o)
  BY <1>1, <1>3, <1>4, <1>6 DEF Covers, Receipts, Truths
<1>8. Distinct(o)
  BY <1>3, <1>6 DEF Distinct
<1> QED BY <1>7, <1>8 DEF g, o

LEMMA PostSpendCovered ==
  ASSUME TypeOK, TruthInv, NEW at \in Ats, NEW r \in Run, NEW stop,
         truth[r].binder = 0
  PROVE  LET g == PostSpendReceipt(at, r, stop)
         IN  Covers(g, Origin(g, TRUE)) /\ Distinct(Origin(g, TRUE))
<1> DEFINE g == PostSpendReceipt(at, r, stop)
           t == truth[r]
           o == Origin(g, TRUE)
<1>1. /\ g.actor = "CONTROLLER_POST_SPEND" /\ g.of = r /\ g.cycle = 0 /\ g.sol = 1
      /\ g.history = {} /\ g.pre = 0
  BY DEF PostSpendReceipt, Receipt
<1> HIDE DEF g
<1>2. t.base = 0 /\ t.cycles = 0 /\ t.retries = 0 /\ t.seen = {} /\ Distinct(t)
  BY DEF TruthInv, TruthCovered
<1>3. g.actor \notin Agents /\ Continued(g) = r
  BY <1>1, ControllersAreNotAgents DEF Continued
<1>4. o.base = 1 /\ o.cycles = 0 /\ o.retries = 0 /\ o.seen = {}
  BY <1>1, <1>2, <1>3 DEF Origin
<1> HIDE DEF o
<1>5. Covers(g, o)
  BY <1>1, <1>4 DEF Covers
<1>6. Distinct(o)
  BY <1>2, <1>4 DEF Distinct
<1> QED BY <1>5, <1>6 DEF g, o

(* A gate run that takes a notice has a number that no receipt and no      *)
(* dispatched run bears.                                                   *)
LEMMA TakenNumber ==
  ASSUME TypeOK, TruthInv, NEW e \in NextGateRuns, NEW kind, Takes(e, kind)
  PROVE  /\ At(e).id \in Nat /\ At(e).id > 0
         /\ \A q \in ledger : q.id < At(e).id
         /\ \A r \in Run : truth[r].binder < At(e).id
<1>1. At(e) \in Ats /\ At(e).id = e.id
  BY TakesType DEF At
<1>2. /\ lastId \in Nat
      /\ \A q \in ledger : q.id \in Nat /\ q.id <= lastId
      /\ \A r \in Run : truth[r].binder \in Nat /\ truth[r].binder <= lastId
  BY DEF TypeOK, GateTypeOK, HistoryTypeOK, Truths, Receipts, TruthInv, RunIdsFresh
<1>3. CASE pending = {}
  <2>1. e.id = lastId + 1
    BY <1>3 DEF NextGateRuns
  <2> QED BY <1>1, <1>2, <2>1 DEF Ats
<1>4. CASE pending # {}
  <2>1. e \in pending
    BY <1>4 DEF NextGateRuns
  <2> QED BY <1>1, <2>1 DEF TruthInv, RunIdsFresh, Ats
<1> QED BY <1>3, <1>4

(* What it is authorized for covers the run it will dispatch.              *)
LEMMA AuthorizedCovered ==
  ASSUME TypeOK, TruthInv, NEW e \in NextGateRuns,
         \/ GateAgent(e) \/ GatePostSpend(e)
         \/ GatePreSpend(e, "architect") \/ GatePreSpend(e, "prepush")
  PROVE  /\ gate'.pc # "posted"
         /\ gate'.pc = "authorized" => gate'.receipt.id = At(e).id
         /\ gate'.pc = "authorized" => ledger' = ledger
         /\ \A q \in ledger' : q \in ledger \/ q.id = At(e).id
         /\ NextIsCovered'
<1> DEFINE n == e.notice
           r == e.notice.run
<1>1. PICK kind : Takes(e, kind)
  BY DEF GateAgent, GatePostSpend, GatePreSpend
<1>2. n \in Notices /\ r \in Run /\ At(e) \in Ats
  BY <1>1, TakesType
<1>3. gate.pc = "idle" /\ UNCHANGED <<run, truth>>
  BY <1>1 DEF Takes
<1>4. ASSUME Declines
      PROVE  /\ gate' = gate /\ ledger' = ledger
  BY <1>4 DEF Declines
<1>5. ASSUME NEW g, Uploads(g)
      PROVE  gate' = gate /\ ledger' = ledger \cup {g}
  BY <1>5 DEF Uploads
<1>6. ASSUME NEW g, NEW sound, Authorizes(g, sound)
      PROVE  /\ gate'.pc = "authorized" /\ gate'.receipt = g /\ gate'.sound = sound
             /\ ledger' = ledger
  BY <1>6 DEF Authorizes
<1> DEFINE Good(g, sound) ==
             /\ g.actor \in Agents => run[g.parent].status = "completed"
             /\ g.pre <= MAX_PRE_SPEND_RECOVERIES_PER_SESSION
             /\ sound /\ Covered(truth[Continued(g)]) =>
                  Covers(g, Origin(g, TRUE)) /\ Distinct(Origin(g, TRUE))
<1>7. ASSUME NEW g, NEW sound, Authorizes(g, sound), Good(g, sound)
      PROVE  NextIsCovered'
  <2>1. Origin(g, TRUE)' = Origin(g, TRUE)
    BY <1>3 DEF Origin, Continued
  <2>2. truth'[Continued(g)] = truth[Continued(g)]
    BY <1>3
  <2>3. gate'.receipt = g /\ gate'.sound = sound /\ run' = run
    BY <1>3, <1>6, <1>7
  <2> DEFINE o == Origin(g, TRUE)
  <2>4. /\ g.actor \in Agents => run[g.parent].status = "completed"
        /\ g.pre <= MAX_PRE_SPEND_RECOVERIES_PER_SESSION
        /\ sound /\ Covered(truth[Continued(g)]) => Covers(g, o) /\ Distinct(o)
    BY <1>7
  <2>5. o' = o
    BY <2>1
  <2> HIDE DEF o
  <2>6. /\ (Origin(gate.receipt, TRUE))' = o
        /\ Continued(gate.receipt)' = Continued(g)
    BY <2>3, <2>5 DEF o, Origin, Continued
  <2> QED BY <2>2, <2>3, <2>4, <2>6 DEF NextIsCovered, Covers, Distinct, Covered
<1> DEFINE Goal == /\ gate'.pc # "posted"
                   /\ gate'.pc = "authorized" => gate'.receipt.id = At(e).id
                   /\ gate'.pc = "authorized" => ledger' = ledger
                   /\ \A q \in ledger' : q \in ledger \/ q.id = At(e).id
                   /\ NextIsCovered'
<1>8. /\ Declines => Goal
      /\ \A g : Uploads(g) /\ g.id = At(e).id => Goal
      /\ \A g, sound : Authorizes(g, sound) /\ Good(g, sound) /\ g.id = At(e).id => Goal
  <2>1. gate'.pc = "idle" => NextIsCovered'
    BY DEF NextIsCovered
  <2>2. Declines => Goal
    BY <1>3, <1>4, <2>1
  <2>3. ASSUME NEW g, Uploads(g), g.id = At(e).id PROVE Goal
    BY <1>3, <1>5, <2>1, <2>3
  <2>4. ASSUME NEW g, NEW sound, Authorizes(g, sound), Good(g, sound), g.id = At(e).id
        PROVE  Goal
    <3>1. NextIsCovered'
      BY <1>7, <2>4
    <3> QED BY <1>6, <2>4, <3>1
  <2> QED BY <2>2, <2>3, <2>4
<1>9. CASE GateAgent(e)
  <2> DEFINE c == CompletionOf(n)
  <2>1. \/ Declines
        \/ \E first : Uploads(DuplicateReceipt(At(e), c, first))
        \/ \E prior : Uploads(BuildReceipt(At(e), c, prior))
        \/ /\ ValidCompletion(n) /\ AtMostOne(LineageReceipts(Scan, r))
           /\ \E prior \in PriorLineages(Scan, r) :
                /\ BuildReceipt(At(e), c, prior).stop = "none"
                /\ Authorizes(BuildReceipt(At(e), c, prior), Sound(r))
    BY <1>9 DEF GateAgent
  <2>2. ASSUME NEW first PROVE DuplicateReceipt(At(e), c, first).id = At(e).id
    BY DEF DuplicateReceipt, Receipt
  <2>3. ASSUME NEW prior
        PROVE  LET g == BuildReceipt(At(e), c, prior)
               IN  /\ g.id = At(e).id /\ g.parent = r /\ g.pre = 0
    BY DEF BuildReceipt, Receipt, CompletionOf
  <2>4. ASSUME ValidCompletion(n), AtMostOne(LineageReceipts(Scan, r)),
               NEW prior \in PriorLineages(Scan, r),
               BuildReceipt(At(e), c, prior).stop = "none"
        PROVE  Good(BuildReceipt(At(e), c, prior), Sound(r))
    <3> DEFINE g == BuildReceipt(At(e), c, prior)
    <3>1. run[g.parent].status = "completed"
      BY <2>3, <2>4 DEF ValidCompletion
    <3>2. g.pre <= MAX_PRE_SPEND_RECOVERIES_PER_SESSION
      BY <2>3, PolicyAssumption
    <3>3. Sound(r) /\ Covered(truth[r]) => Covers(g, Origin(g, TRUE)) /\ Distinct(Origin(g, TRUE))
      BY <1>2, <2>4, ResumeCovered
    <3>4. Continued(g) = r
      BY <1>2, <2>4, CompletionType
         DEF Continued, BuildReceipt, Receipt, CompletionOf, Completions
    <3> HIDE DEF g
    <3>5. Good(g, Sound(r))
      BY <3>1, <3>2, <3>3, <3>4
    <3> QED BY <3>5 DEF g
  <2> HIDE DEF Good, Goal
  <2>5. Goal
    BY <1>8, <2>1, <2>2, <2>3, <2>4
  <2> QED BY <2>5 DEF Goal
<1>10. CASE GatePostSpend(e)
  <2>1. \/ Declines
        \/ \E stop : Uploads(PostSpendReceipt(At(e), r, stop))
        \/ \E stop : Authorizes(PostSpendReceipt(At(e), r, stop), truth[r].binder = 0)
    BY <1>10 DEF GatePostSpend
  <2>2. ASSUME NEW stop
        PROVE  LET g == PostSpendReceipt(At(e), r, stop)
               IN  g.id = At(e).id /\ g.actor = "CONTROLLER_POST_SPEND" /\ g.pre = 0
    BY DEF PostSpendReceipt, Receipt
  <2>3. ASSUME NEW stop
        PROVE  Good(PostSpendReceipt(At(e), r, stop), truth[r].binder = 0)
    <3> DEFINE g == PostSpendReceipt(At(e), r, stop)
               sound == truth[r].binder = 0
    <3>1. g.actor \notin Agents /\ g.pre <= MAX_PRE_SPEND_RECOVERIES_PER_SESSION
      BY <2>2, ControllersAreNotAgents, PolicyAssumption
    <3>2. sound => Covers(g, Origin(g, TRUE)) /\ Distinct(Origin(g, TRUE))
      BY <1>2, PostSpendCovered
    <3> HIDE DEF g, sound
    <3>3. Good(g, sound)
      BY <3>1, <3>2
    <3> QED BY <3>3 DEF g, sound
  <2> HIDE DEF Good, Goal
  <2>4. Goal
    BY <1>8, <2>1, <2>2, <2>3
  <2> QED BY <2>4 DEF Goal
<1>11. CASE GatePreSpend(e, "architect") \/ GatePreSpend(e, "prepush")
  <2>1. \/ Declines
        \/ \E q \in PreSpendClaim(r) :
             Authorizes(CopyLineage(At(e), r, q), Sound(r))
    BY <1>11 DEF GatePreSpend
  <2>2. ASSUME NEW q \in PreSpendClaim(r)
        PROVE  LET g == CopyLineage(At(e), r, q)
               IN  /\ g.id = At(e).id /\ g.actor = "CONTROLLER"
                   /\ g.pre <= MAX_PRE_SPEND_RECOVERIES_PER_SESSION
    <3>1. q \in Receipts /\ q.pre < MAX_PRE_SPEND_RECOVERIES_PER_SESSION
      BY DEF PreSpendClaim, LineageReceipts, Scan, TypeOK, GateTypeOK
    <3> QED BY <3>1, PolicyAssumption DEF CopyLineage, Receipt, Receipts
  <2>3. ASSUME NEW q \in PreSpendClaim(r)
        PROVE  Good(CopyLineage(At(e), r, q), Sound(r))
    <3> DEFINE g == CopyLineage(At(e), r, q)
    <3>1. g.actor \notin Agents /\ g.pre <= MAX_PRE_SPEND_RECOVERIES_PER_SESSION
      BY <2>2, ControllersAreNotAgents
    <3>2. Sound(r) /\ Covered(truth[r]) => Covers(g, Origin(g, TRUE)) /\ Distinct(Origin(g, TRUE))
      BY <1>2, PreSpendCovered
    <3>3. Continued(g) = r
      BY <3>1 DEF Continued, CopyLineage, Receipt
    <3> HIDE DEF g
    <3>4. Good(g, Sound(r))
      BY <3>1, <3>2, <3>3
    <3> QED BY <3>4 DEF g
  <2> HIDE DEF Good, Goal
  <2>4. Goal
    BY <1>8, <2>1, <2>2, <2>3
  <2> QED BY <2>4 DEF Goal
<1> QED BY <1>9, <1>10, <1>11

LEMMA TakingTruth ==
  ASSUME TypeOK, TruthInv, NEW e \in NextGateRuns,
         \/ GateAgent(e) \/ GatePostSpend(e)
         \/ GatePreSpend(e, "architect") \/ GatePreSpend(e, "prepush")
  PROVE  TruthInv'
<1>1. PICK kind : Takes(e, kind)
  BY DEF GateAgent, GatePostSpend, GatePreSpend
<1>2. /\ truth' = truth /\ pending' = {} /\ gate.pc = "idle"
      /\ lastId' \in Nat /\ lastId \in Nat /\ lastId <= lastId'
  BY <1>1, TakesType DEF Takes, TypeOK, GateTypeOK
<1>3. /\ At(e).id \in Nat /\ At(e).id > 0
      /\ \A q \in ledger : q.id < At(e).id
      /\ \A r \in Run : truth[r].binder < At(e).id
  BY <1>1, TakenNumber
<1>4. /\ gate'.pc # "posted"
      /\ gate'.pc = "authorized" => gate'.receipt.id = At(e).id
      /\ gate'.pc = "authorized" => ledger' = ledger
      /\ \A q \in ledger' : q \in ledger \/ q.id = At(e).id
      /\ NextIsCovered'
  BY AuthorizedCovered
<1>5. /\ \A r \in Run : truth[r].binder \in Nat /\ truth[r].binder <= lastId
      /\ \A q \in ledger : q.id \in Nat
      /\ gate'.pc \in {"idle", "authorized", "posted"}
  BY TakingType DEF TypeOK, HistoryTypeOK, Truths, GateTypeOK, GateStates, Receipts,
     TruthInv, RunIdsFresh
<1>6. RunIdsFresh'
  <2>1. \A r \in Run : truth'[r].binder <= lastId'
    BY <1>2, <1>5
  <2>2. gate'.pc # "idle" =>
          gate'.receipt.id > 0 /\ \A q \in ledger' : q.id # gate'.receipt.id
    BY <1>3, <1>4, <1>5
  <2>3. gate'.pc = "authorized" => \A r \in Run : truth'[r].binder # gate'.receipt.id
    BY <1>2, <1>3, <1>4, <1>5
  <2> QED BY <1>2, <2>1, <2>2, <2>3 DEF RunIdsFresh
<1>7. TruthCovered'
  <2>1. ASSUME NEW r \in Run, NEW q \in ledger', q.id = truth[r].binder
        PROVE  q \in ledger
    BY <1>3, <1>4, <1>5, <2>1
  <2> QED BY <1>2, <1>4, <2>1 DEF TruthInv, TruthCovered, Covers, Distinct
<1>8. TrueSolWithinCap'
  BY <1>2 DEF TruthInv, TrueSolWithinCap, Covered
<1> QED BY <1>4, <1>6, <1>7, <1>8 DEF TruthInv

LEMMA QuietTruth ==
  ASSUME TypeOK, TruthInv, Quiet, Settled, GateTypeOK'
  PROVE  TruthInv'
<1>1. /\ UNCHANGED ledger /\ SameHistory
      /\ gate' = gate \/ gate'.pc = "idle"
      /\ lastId' \in Nat /\ lastId' >= lastId /\ lastId \in Nat
      /\ \A e \in pending' : e \in pending \/ e.id > lastId
  BY DEF Quiet, TypeOK, GateTypeOK
<1>2. /\ \A r \in Run : truth[r].binder \in Nat /\ truth[r].binder <= lastId
      /\ \A q \in ledger : q.id \in Nat /\ q.id <= lastId
      /\ gate.pc # "idle" => gate.receipt.id \in Nat /\ gate.receipt.id <= lastId
      /\ \A e \in pending' : e.id \in Nat
  BY DEF TypeOK, HistoryTypeOK, Truths, GateTypeOK, GateStates, Receipts, GateRuns,
     TruthInv, RunIdsFresh
<1>3. RunIdsFresh'
  <2>1. ASSUME NEW e \in pending'
        PROVE  /\ e.id > 0
               /\ \A q \in ledger : q.id < e.id
               /\ \A r \in Run : truth[r].binder < e.id
               /\ gate.pc # "idle" => gate.receipt.id < e.id
    <3>1. CASE e \in pending
      BY <3>1 DEF TruthInv, RunIdsFresh
    <3>2. CASE e.id > lastId
      BY <1>1, <1>2, <3>2
    <3> QED BY <1>1, <3>1, <3>2
  <2>2. \A r \in Run : truth[r].binder <= lastId'
    BY <1>1, <1>2
  <2>3. \A r \in Run : truth'[r].binder = truth[r].binder
    BY <1>1 DEF SameHistory
  <2> QED BY <1>1, <2>1, <2>2, <2>3 DEF TruthInv, RunIdsFresh
<1>4. NextIsCovered'
  <2>1. CASE gate' = gate /\ gate.pc = "authorized"
    <3> DEFINE g == gate.receipt
    <3>1. g.actor \in Agents => g.parent \in Run /\ run[g.parent].status = "completed"
      BY <2>1 DEF TruthInv, NextIsCovered, TypeOK, GateTypeOK, Continued
    <3>2. g.actor \in Agents => run'[g.parent] = run[g.parent]
      BY <3>1 DEF Settled
    <3>3. Origin(g, TRUE)' = Origin(g, TRUE)
      <4>0. Continued(g) \in Run
        BY <2>1 DEF TypeOK, GateTypeOK
      <4>1. CASE g.actor \in Agents
        BY <1>1, <2>1, <3>2, <4>0, <4>1 DEF Origin, Continued, SameHistory
      <4>2. CASE g.actor \notin Agents
        BY <1>1, <2>1, <4>0, <4>2 DEF Origin, Continued, SameHistory
      <4> QED BY <4>1, <4>2
    <3>4. Covered(truth[Continued(g)])' <=> Covered(truth[Continued(g)])
      BY <1>1, <2>1 DEF SameHistory, Covered, Continued, TypeOK, GateTypeOK
    <3> QED BY <2>1, <3>1, <3>2, <3>3, <3>4 DEF TruthInv, NextIsCovered, Covers, Distinct
  <2>2. CASE gate'.pc # "authorized"
    BY <2>2 DEF NextIsCovered
  <2> QED BY <1>1, <2>1, <2>2
<1>5. TruthCovered'
  BY <1>1 DEF TruthInv, TruthCovered, Covers, Distinct, Covered, SameHistory
<1>6. TrueSolWithinCap'
  BY <1>1 DEF TruthInv, TrueSolWithinCap, Covered, SameHistory
<1> QED BY <1>3, <1>4, <1>5, <1>6 DEF TruthInv

LEMMA ObservingTruth ==
  ASSUME TypeOK, TruthInv, GateObserves
  PROVE  TruthInv'
<1>1. PICK child : ledger' = ledger \cup {WithChild(gate.receipt, child)}
  BY DEF GateObserves
<1>2. /\ gate.pc = "posted" /\ gate'.pc = "idle"
      /\ UNCHANGED <<truth, pending, lastId>>
  BY DEF GateObserves, IdleGate
<1>3. gate.receipt \in Receipts
  BY DEF TypeOK, GateTypeOK, GateStates
<1> DEFINE g == WithChild(gate.receipt, child)
<1>4. /\ g.id = gate.receipt.id /\ g.sol = gate.receipt.sol
      /\ g.cycle = gate.receipt.cycle /\ g.pre = gate.receipt.pre
      /\ g.history = gate.receipt.history
  BY <1>3, WithChildFields
<1> HIDE DEF g
<1>5. RunIdsFresh'
  BY <1>1, <1>2, <1>4 DEF g, TruthInv, RunIdsFresh
<1>6. TruthCovered'
  <2>1. ASSUME NEW r \in Run, Covered(truth[r]), truth[r].binder # 0,
               NEW q \in ledger', q.id = truth[r].binder
        PROVE  Covers(q, truth[r])
    <3>1. CASE q \in ledger
      BY <2>1, <3>1 DEF TruthInv, TruthCovered
    <3>2. CASE q = g
      <4>1. Covers(gate.receipt, truth[r])
        BY <1>2, <1>4, <2>1, <3>2 DEF TruthInv, TruthCovered
      <4> QED BY <1>4, <3>2, <4>1 DEF Covers
    <3> QED BY <1>1, <3>1, <3>2 DEF g
  <2> QED BY <1>2, <2>1 DEF TruthInv, TruthCovered, Covers, Distinct, Covered
<1>7. NextIsCovered' /\ TrueSolWithinCap'
  BY <1>2 DEF TruthInv, NextIsCovered, TrueSolWithinCap, Covered
<1> QED BY <1>5, <1>6, <1>7 DEF TruthInv

LEMMA PostingTruth ==
  ASSUME TypeOK, LegalInv, TruthInv, GatePosts
  PROVE  TruthInv'
<1>1. PICK r \in Run :
        /\ truth' = [truth EXCEPT ![r] = Origin(gate.receipt, gate.sound)]
        /\ IdleGateRuns(Cardinality(Waiting))
  BY DEF GatePosts
<1>2. /\ gate.pc = "authorized" /\ gate'.pc = "posted"
      /\ gate'.receipt = gate.receipt /\ ledger' = ledger
  BY DEF GatePosts
<1> DEFINE g == gate.receipt
           o == Origin(g, gate.sound)
<1>3. /\ g \in Receipts /\ gate.sound \in BOOLEAN /\ Continued(g) \in Run
      /\ g.id \in Nat /\ g.id > 0 /\ g.id <= lastId /\ \A q \in ledger : q.id # g.id
      /\ \A s \in Run : truth[s].binder # g.id
  BY <1>2 DEF TypeOK, GateTypeOK, GateStates, Receipts, TruthInv, RunIdsFresh
<1>4. /\ lastId \in Nat /\ lastId' \in Nat /\ lastId' >= lastId
      /\ \A e \in pending' : e \in pending
  <2>1. \A e \in pending' : e \in pending
    BY <1>1 DEF IdleGateRuns
  <2> QED BY <1>1, <2>1, WaitingCount, IdleGateRunsQuiet DEF TypeOK, GateTypeOK
<1>5. /\ truth' \in [Run -> Truths] /\ truth \in [Run -> Truths]
      /\ truth'[r] = o /\ \A s \in Run : s # r => truth'[s] = truth[s]
  <2>1. truth \in [Run -> Truths]
    BY DEF TypeOK, HistoryTypeOK
  <2>2. o \in Truths
    BY <1>2, OriginType
  <2> HIDE DEF o
  <2>3. truth' = [truth EXCEPT ![r] = o]
    BY <1>1 DEF o
  <2>4. /\ truth' \in [Run -> Truths] /\ truth'[r] = o
        /\ \A s \in Run : s # r => truth'[s] = truth[s]
    BY <2>1, <2>2, <2>3
  <2> QED BY <2>1, <2>4 DEF o
<1>6. /\ o.binder = g.id
      /\ Covered(o) => Covers(g, o) /\ Distinct(o)
  <2>1. o.binder = g.id
    BY DEF Origin
  <2>2. Covered(o) => gate.sound /\ Covered(truth[Continued(g)])
    BY <1>3, <1>5 DEF Origin, Covered, Truths
  <2>3. gate.sound /\ Covered(truth[Continued(g)]) =>
          Covers(g, Origin(g, TRUE)) /\ Distinct(Origin(g, TRUE))
    BY <1>2 DEF TruthInv, NextIsCovered
  <2>4. gate.sound => gate.sound = TRUE
    BY <1>3
  <2> QED BY <2>1, <2>2, <2>3, <2>4
<1> HIDE DEF o
<1>7. g.sol + MAX_SOL_CALLS_PER_ARCHITECT_RUN <= MaxSolCalls
  BY <1>2 DEF LegalInv, GateLegal, Promise!Legal, Promise!InPolicy
<1>8. RunIdsFresh'
  <2>1. ASSUME NEW s \in Run PROVE truth'[s].binder <= lastId'
    BY <1>3, <1>4, <1>5, <1>6 DEF Truths, TruthInv, RunIdsFresh
  <2>2. ASSUME NEW e \in pending'
        PROVE  /\ e.id > 0 /\ g.id < e.id
               /\ \A q \in ledger : q.id < e.id
               /\ \A s \in Run : truth'[s].binder < e.id
    <3>1. /\ e.id > 0 /\ g.id < e.id
          /\ \A q \in ledger : q.id < e.id
          /\ \A s \in Run : truth[s].binder < e.id
      BY <1>2, <1>4 DEF TruthInv, RunIdsFresh
    <3> QED BY <3>1, <1>5, <1>6
  <2> QED BY <1>2, <1>3, <2>1, <2>2 DEF RunIdsFresh
<1>9. TruthCovered'
  <2>1. ASSUME NEW s \in Run, s = r
        PROVE  LET t == truth'[s]
               IN  /\ Covered(t) => Distinct(t)
                   /\ t.binder # 0
                   /\ \A q \in ledger : q.id # t.binder
                   /\ Covered(t) => Covers(g, t)
    BY <1>3, <1>5, <1>6, <2>1
  <2>2. ASSUME NEW s \in Run, s # r
        PROVE  truth'[s] = truth[s] /\ truth[s].binder # g.id
    BY <1>3, <1>5, <2>2
  <2> QED BY <1>2, <2>1, <2>2 DEF TruthInv, TruthCovered, Covers, Distinct, Covered
<1>10. TrueSolWithinCap'
  <2>1. Covered(o) => o.base + MAX_SOL_CALLS_PER_ARCHITECT_RUN <= MaxSolCalls
    <3>1. o.base \in Nat /\ g.sol \in Nat
      BY <1>3, <1>5 DEF Truths, Receipts
    <3> QED BY <1>6, <1>7, <3>1, PolicyAssumption DEF Covers
  <2> QED BY <1>5, <2>1 DEF TruthInv, TrueSolWithinCap, Covered
<1>11. NextIsCovered'
  BY <1>2 DEF NextIsCovered
<1> QED BY <1>8, <1>9, <1>10, <1>11 DEF TruthInv

LEMMA TruthInvInit == Init => TruthInv
<1> SUFFICES ASSUME Init PROVE TruthInv
  OBVIOUS
<1>1. /\ gate.pc = "idle" /\ pending = {} /\ ledger = {} /\ lastId = 0
      /\ \A r \in Run : /\ truth[r].binder = 0 /\ truth[r].base = 0
                        /\ truth[r].cycles = 0 /\ truth[r].retries = 0
                        /\ truth[r].seen = {} /\ truth[r].missed = 0
  BY DEF Init, IdleGate
<1>2. \A r \in Run : Distinct(truth[r])
  BY <1>1, FS_EmptySet DEF Distinct
<1>3. RunIdsFresh
  BY <1>1 DEF RunIdsFresh
<1>4. NextIsCovered
  BY <1>1 DEF NextIsCovered
<1>5. TruthCovered
  BY <1>1, <1>2 DEF TruthCovered, Covered
<1>6. TrueSolWithinCap
  BY <1>1 DEF TrueSolWithinCap
<1> QED BY <1>3, <1>4, <1>5, <1>6 DEF TruthInv

LEMMA TruthInvStep == TypeOK /\ LegalInv /\ TruthInv /\ [Next]_vars => TruthInv'
<1> SUFFICES ASSUME TypeOK, LegalInv, TruthInv, [Next]_vars PROVE TruthInv'
  OBVIOUS
<1>1. Settled /\ GateTypeOK'
  BY RunsSettle, TypeStep DEF TypeOK
<1> QED BY <1>1, QuietSteps, QuietTruth, PostingTruth, ObservingTruth, TakingTruth

(* The Sol calls really made by an automatic lineage stay within the cap,  *)
(* those of the run just dispatched included, as long as no receipt of the *)
(* lineage was lost.                                                       *)
THEOREM SolCallsCapped == Spec => []TrueSolWithinCap
<1>1. TruthInv => TrueSolWithinCap
  BY DEF TruthInv
<1> QED
  BY <1>1, TruthInvInit, TruthInvStep, LegalInvInit, LegalInvStep, ClaimInvInit,
     ClaimInvStep, TypeCorrect, PTL DEF Spec

(* Every resume of a lineage brought a package it had not worked on.       *)
THEOREM PackagesDiffer == Spec => []NoRepeatedPackage
<1>1. TruthInv => NoRepeatedPackage
  BY DEF TruthInv, TruthCovered, Distinct, NoRepeatedPackage
<1> QED
  BY <1>1, TruthInvInit, TruthInvStep, LegalInvInit, LegalInvStep, ClaimInvInit,
     ClaimInvStep, TypeCorrect, PTL DEF Spec

-----------------------------------------------------------------------------
(* The bound on what really happened.                                      *)
(*                                                                         *)
(* FiniteAutonomy is not inductive: a receipt may say less than happened,  *)
(* for every run that was taken for the first of a session has started its *)
(* counters anew.  What is missing from a receipt is at most one tranche   *)
(* for each such run.                                                      *)

Bounded(q, t) ==
  /\ t.cycles <= MaxAutoResumes * t.missed + q.cycle
  /\ t.retries <= MAX_PRE_SPEND_RECOVERIES_PER_SESSION * t.missed + q.pre

NextIsBounded ==
  gate.pc = "authorized" => Bounded(gate.receipt, Origin(gate.receipt, gate.sound))

TruthBounded ==
  \A r \in Run :
    LET t == truth[r]
    IN  t.binder # 0 =>
          /\ \A q \in ledger : q.id = t.binder => Bounded(q, t)
          /\ gate.pc = "posted" /\ gate.receipt.id = t.binder => Bounded(gate.receipt, t)

BoundInv == NextIsBounded /\ TruthBounded /\ FiniteAutonomy

LEMMA Tranches ==
  ASSUME NEW m \in Nat
  PROVE  /\ MaxAutoResumes * m \in Nat
         /\ MaxAutoResumes * (m + 1) = MaxAutoResumes * m + MaxAutoResumes
         /\ MAX_PRE_SPEND_RECOVERIES_PER_SESSION * m \in Nat
         /\ MAX_PRE_SPEND_RECOVERIES_PER_SESSION * (m + 1)
              = MAX_PRE_SPEND_RECOVERIES_PER_SESSION * m + MAX_PRE_SPEND_RECOVERIES_PER_SESSION
<1>1. ASSUME NEW a \in Nat PROVE a * m \in Nat /\ a * (m + 1) = a * m + a
  OBVIOUS
<1>2. MaxAutoResumes \in Nat /\ MAX_PRE_SPEND_RECOVERIES_PER_SESSION \in Nat
  BY PolicyAssumption
<1> QED BY <1>1, <1>2

(* What the found lineage of a run says of it, when it is the run's own,   *)
(* and what holds when it is not.                                          *)
LEMMA ClaimBounded ==
  ASSUME TypeOK, TruthInv, BoundInv, NEW r \in Run, AtMostOne(LineageReceipts(Scan, r))
  PROVE  /\ Sound(r) => \A q \in LineageReceipts(Scan, r) : Bounded(q, truth[r])
         /\ Sound(r) /\ LineageReceipts(Scan, r) = {} =>
              truth[r].cycles = 0 /\ truth[r].retries = 0
<1>1. truth[r] \in Truths
  BY DEF TypeOK, HistoryTypeOK
<1>2. truth[r].binder = 0 => truth[r].cycles = 0 /\ truth[r].retries = 0
  BY DEF TruthInv, TruthCovered
<1>3. ASSUME Sound(r), NEW q \in LineageReceipts(Scan, r) PROVE Bounded(q, truth[r])
  <2>1. q \in ledger /\ q \in Receipts
    BY <1>3 DEF LineageReceipts, Scan, TypeOK, GateTypeOK
  <2>2. CASE truth[r].binder = 0
    <3>1. truth[r].missed \in Nat /\ q.cycle \in Nat /\ q.pre \in Nat
      BY <1>1, <2>1 DEF Truths, Receipts
    <3> QED BY <1>2, <2>2, <3>1, Tranches DEF Bounded
  <2>3. CASE truth[r].binder # 0
    <3>1. q.id = truth[r].binder
      BY <1>3, <2>3 DEF Sound, AtMostOne
    <3> QED BY <2>1, <2>3, <3>1 DEF BoundInv, TruthBounded
  <2> QED BY <2>2, <2>3
<1>4. ASSUME Sound(r), LineageReceipts(Scan, r) = {} PROVE truth[r].binder = 0
  BY <1>4 DEF Sound
<1> QED BY <1>2, <1>3, <1>4

(* How the history of the next run follows from that of the continued one. *)
LEMMA OriginCounts ==
  ASSUME TypeOK, NEW g, NEW r \in Run, Continued(g) = r, NEW sound \in BOOLEAN
  PROVE  LET o == Origin(g, sound)
             t == truth[r]
         IN  /\ t \in Truths
             /\ g.actor \in Agents => o.cycles = t.cycles + 1 /\ o.retries = 0
             /\ g.actor \notin Agents =>
                  /\ o.cycles = t.cycles
                  /\ o.retries = t.retries + (IF g.actor = "CONTROLLER" THEN 1 ELSE 0)
             /\ sound => o.missed = t.missed
             /\ ~sound => o.missed = t.missed + 1
<1>1. truth[r] \in Truths
  BY DEF TypeOK, HistoryTypeOK
<1>2. truth[r].cycles \in Nat /\ truth[r].missed \in Nat
  BY <1>1 DEF Truths
<1> QED BY <1>1, <1>2 DEF Origin

LEMMA ResumeBounded ==
  ASSUME TypeOK, TruthInv, BoundInv, NEW at \in Ats, NEW n \in Notices, ValidCompletion(n),
         AtMostOne(LineageReceipts(Scan, n.run)),
         NEW prior \in PriorLineages(Scan, n.run)
  PROVE  LET g == BuildReceipt(at, CompletionOf(n), prior)
         IN  Bounded(g, Origin(g, Sound(n.run)))
<1> DEFINE r == n.run
           c == CompletionOf(n)
           g == BuildReceipt(at, c, prior)
           t == truth[r]
           sound == Sound(r)
           o == Origin(g, sound)
<1>1. r \in Run /\ prior \in Lineages /\ c \in Completions /\ c.parent = r
  BY CompletionType, PriorLineagesType DEF Notices, CompletionOf
<1>2. /\ g.actor = c.actor /\ g.parent = r
      /\ g.cycle = prior.cycle + 1 /\ g.pre = 0
  BY <1>1 DEF BuildReceipt, Receipt
<1>3. sound \in BOOLEAN
  BY DEF Sound
<1>4. ASSUME sound PROVE t.cycles <= MaxAutoResumes * t.missed + prior.cycle
  <2>1. t \in Truths /\ t.missed \in Nat
    BY <1>1 DEF TypeOK, HistoryTypeOK, Truths
  <2>2. CASE LineageReceipts(Scan, r) = {}
    <3>1. t.cycles = 0
      BY <1>1, <1>4, <2>2, ClaimBounded
    <3>2. prior.cycle \in Nat
      BY <1>1 DEF Lineages
    <3>3. MaxAutoResumes * t.missed \in Nat
      BY <2>1, Tranches
    <3> HIDE DEF t
    <3> QED BY <3>1, <3>2, <3>3
  <2>3. CASE LineageReceipts(Scan, r) # {}
    <3>1. PICK q \in LineageReceipts(Scan, r) : prior = LineageOf(q)
      BY <2>3 DEF PriorLineages
    <3>2. Bounded(q, t)
      BY <1>1, <1>4, ClaimBounded
    <3> QED BY <3>1, <3>2 DEF Bounded, LineageOf
  <2> QED BY <2>2, <2>3
<1> HIDE DEF g, c
<1>5. g.actor \in Agents /\ Continued(g) = r
  BY <1>1, <1>2 DEF Completions, Continued
<1> HIDE DEF sound
<1>6. /\ t \in Truths /\ o.cycles = t.cycles + 1 /\ o.retries = 0
      /\ sound => o.missed = t.missed
      /\ ~sound => o.missed = t.missed + 1
  BY <1>1, <1>3, <1>5, OriginCounts
<1>7. t.cycles <= MaxAutoResumes * (t.missed + 1)
  BY <1>1 DEF BoundInv, FiniteAutonomy
<1> HIDE DEF o, t
<1>8. t.cycles \in Nat /\ t.missed \in Nat /\ prior.cycle \in Nat
  BY <1>1, <1>6 DEF Truths, Lineages
<1>9. Bounded(g, o)
  <2>1. CASE sound
    BY <1>2, <1>4, <1>6, <1>8, <2>1, Tranches DEF Bounded
  <2>2. CASE ~sound
    <3>1. MaxAutoResumes * o.missed \in Nat /\ t.cycles <= MaxAutoResumes * o.missed
      BY <1>6, <1>7, <1>8, <2>2, Tranches
    <3>2. MAX_PRE_SPEND_RECOVERIES_PER_SESSION * o.missed \in Nat
      BY <1>6, <1>8, <2>2, Tranches
    <3> QED BY <1>2, <1>6, <1>8, <3>1, <3>2 DEF Bounded
  <2> QED BY <2>1, <2>2
<1> QED BY <1>9 DEF g, o, c, sound

LEMMA PreSpendBounded ==
  ASSUME TypeOK, TruthInv, BoundInv, NEW at \in Ats, NEW r \in Run,
         NEW q \in PreSpendClaim(r)
  PROVE  LET g == CopyLineage(at, r, q)
         IN  Bounded(g, Origin(g, Sound(r)))
<1> DEFINE g == CopyLineage(at, r, q)
           t == truth[r]
           sound == Sound(r)
           o == Origin(g, sound)
<1>1. /\ g.actor = "CONTROLLER" /\ g.of = r /\ g.cycle = q.cycle /\ g.pre = q.pre + 1
  BY DEF CopyLineage, Receipt
<1>2. /\ q \in LineageReceipts(Scan, r) /\ AtMostOne(LineageReceipts(Scan, r))
      /\ q \in Receipts
  BY DEF PreSpendClaim, LineageReceipts, Scan, TypeOK, GateTypeOK
<1>3. sound \in BOOLEAN /\ (sound => Bounded(q, t))
  BY <1>2, ClaimBounded DEF Sound
<1> HIDE DEF g, sound
<1>4. g.actor \notin Agents /\ Continued(g) = r
  BY <1>1, ControllersAreNotAgents DEF Continued
<1>5. /\ t \in Truths /\ o.cycles = t.cycles /\ o.retries = t.retries + 1
      /\ sound => o.missed = t.missed
      /\ ~sound => o.missed = t.missed + 1
  BY <1>1, <1>3, <1>4, OriginCounts
<1>6. /\ t.cycles <= MaxAutoResumes * (t.missed + 1)
      /\ t.retries <= MAX_PRE_SPEND_RECOVERIES_PER_SESSION * (t.missed + 1)
  BY DEF BoundInv, FiniteAutonomy
<1> HIDE DEF o, t
<1>7. /\ t.cycles \in Nat /\ t.retries \in Nat /\ t.missed \in Nat
      /\ q.cycle \in Nat /\ q.pre \in Nat
  BY <1>2, <1>5 DEF Truths, Receipts
<1>8. Bounded(g, o)
  <2>1. CASE sound
    BY <1>1, <1>3, <1>5, <1>7, <2>1, Tranches DEF Bounded
  <2>2. CASE ~sound
    <3>1. /\ MaxAutoResumes * o.missed \in Nat /\ t.cycles <= MaxAutoResumes * o.missed
          /\ MAX_PRE_SPEND_RECOVERIES_PER_SESSION * o.missed \in Nat
          /\ t.retries <= MAX_PRE_SPEND_RECOVERIES_PER_SESSION * o.missed
      BY <1>5, <1>6, <1>7, <2>2, Tranches
    <3> QED BY <1>1, <1>5, <1>7, <3>1 DEF Bounded
  <2> QED BY <2>1, <2>2
<1> QED BY <1>8 DEF g, o, sound

LEMMA PostSpendBounded ==
  ASSUME TypeOK, TruthInv, BoundInv, NEW at \in Ats, NEW r \in Run, NEW stop
  PROVE  LET g == PostSpendReceipt(at, r, stop)
         IN  Bounded(g, Origin(g, truth[r].binder = 0))
<1> DEFINE g == PostSpendReceipt(at, r, stop)
           t == truth[r]
           sound == t.binder = 0
           o == Origin(g, sound)
<1>1. /\ g.actor = "CONTROLLER_POST_SPEND" /\ g.of = r /\ g.cycle = 0 /\ g.pre = 0
  BY DEF PostSpendReceipt, Receipt
<1>2. sound \in BOOLEAN /\ (sound => t.cycles = 0 /\ t.retries = 0)
  BY DEF TruthInv, TruthCovered
<1> HIDE DEF g, sound
<1>3. g.actor \notin Agents /\ Continued(g) = r
  BY <1>1, ControllersAreNotAgents DEF Continued
<1>4. t.retries \in Nat
  BY DEF TypeOK, HistoryTypeOK, Truths
<1>5. /\ t \in Truths /\ o.cycles = t.cycles /\ o.retries = t.retries
      /\ sound => o.missed = t.missed
      /\ ~sound => o.missed = t.missed + 1
  BY <1>1, <1>2, <1>3, <1>4, OriginCounts
<1>6. /\ t.cycles <= MaxAutoResumes * (t.missed + 1)
      /\ t.retries <= MAX_PRE_SPEND_RECOVERIES_PER_SESSION * (t.missed + 1)
  BY DEF BoundInv, FiniteAutonomy
<1> HIDE DEF o, t
<1>7. t.cycles \in Nat /\ t.missed \in Nat
  BY <1>5 DEF Truths
<1>8. Bounded(g, o)
  <2>1. CASE sound
    BY <1>1, <1>2, <1>5, <1>7, <2>1, Tranches DEF Bounded
  <2>2. CASE ~sound
    <3>1. /\ MaxAutoResumes * o.missed \in Nat /\ t.cycles <= MaxAutoResumes * o.missed
          /\ MAX_PRE_SPEND_RECOVERIES_PER_SESSION * o.missed \in Nat
          /\ t.retries <= MAX_PRE_SPEND_RECOVERIES_PER_SESSION * o.missed
      BY <1>5, <1>6, <1>7, <2>2, Tranches
    <3> QED BY <1>1, <1>4, <1>5, <1>7, <3>1 DEF Bounded
  <2> QED BY <2>1, <2>2
<1> QED BY <1>8 DEF g, o, sound, t

LEMMA AuthorizedBounded ==
  ASSUME TypeOK, TruthInv, BoundInv, NEW e \in NextGateRuns,
         \/ GateAgent(e) \/ GatePostSpend(e)
         \/ GatePreSpend(e, "architect") \/ GatePreSpend(e, "prepush")
  PROVE  NextIsBounded'
<1> DEFINE n == e.notice
           r == e.notice.run
           c == CompletionOf(n)
           Good(g, sound) == Bounded(g, Origin(g, sound))
<1>1. PICK kind : Takes(e, kind)
  BY DEF GateAgent, GatePostSpend, GatePreSpend
<1>2. n \in Notices /\ r \in Run /\ At(e) \in Ats
  BY <1>1, TakesType
<1>3. gate.pc = "idle" /\ run' = run /\ truth' = truth
  BY <1>1 DEF Takes
<1>4. \/ gate' = gate
      \/ \E g, sound : Good(g, sound) /\ Authorizes(g, sound)
  <2>1. CASE GateAgent(e)
    <3>1. \/ gate' = gate
          \/ /\ ValidCompletion(n) /\ AtMostOne(LineageReceipts(Scan, r))
             /\ \E prior \in PriorLineages(Scan, r) :
                  Authorizes(BuildReceipt(At(e), c, prior), Sound(r))
      BY <2>1 DEF GateAgent, Declines, Uploads
    <3>2. ASSUME ValidCompletion(n), AtMostOne(LineageReceipts(Scan, r)),
                 NEW prior \in PriorLineages(Scan, r)
          PROVE  Good(BuildReceipt(At(e), c, prior), Sound(r))
      BY <1>2, <3>2, ResumeBounded
    <3> HIDE DEF Good
    <3> QED BY <3>1, <3>2
  <2>2. CASE GatePostSpend(e)
    <3>1. \/ gate' = gate
          \/ \E stop : Authorizes(PostSpendReceipt(At(e), r, stop), truth[r].binder = 0)
      BY <2>2 DEF GatePostSpend, Declines, Uploads
    <3>2. ASSUME NEW stop
          PROVE  Good(PostSpendReceipt(At(e), r, stop), truth[r].binder = 0)
      BY <1>2, PostSpendBounded
    <3> HIDE DEF Good
    <3> QED BY <3>1, <3>2
  <2>3. CASE GatePreSpend(e, "architect") \/ GatePreSpend(e, "prepush")
    <3>1. \/ gate' = gate
          \/ \E q \in PreSpendClaim(r) : Authorizes(CopyLineage(At(e), r, q), Sound(r))
      BY <2>3 DEF GatePreSpend, Declines
    <3>2. ASSUME NEW q \in PreSpendClaim(r)
          PROVE  Good(CopyLineage(At(e), r, q), Sound(r))
      BY <1>2, PreSpendBounded
    <3> HIDE DEF Good
    <3> QED BY <3>1, <3>2
  <2> QED BY <2>1, <2>2, <2>3
<1>5. CASE gate' = gate
  BY <1>3, <1>5 DEF NextIsBounded
<1>6. ASSUME NEW g, NEW sound, Good(g, sound), Authorizes(g, sound) PROVE NextIsBounded'
  <2>1. gate'.receipt = g /\ gate'.sound = sound
    BY <1>6 DEF Authorizes
  <2>2. (Origin(gate.receipt, gate.sound))' = Origin(g, sound)
    BY <1>3, <2>1 DEF Origin, Continued
  <2>3. Bounded(g, Origin(g, sound))
    BY <1>6
  <2> DEFINE o == Origin(g, sound)
  <2>4. (Origin(gate.receipt, gate.sound))' = o /\ Bounded(g, o)
    BY <2>2, <2>3
  <2> HIDE DEF o
  <2> QED BY <2>1, <2>4 DEF NextIsBounded, Bounded
<1> QED BY <1>4, <1>5, <1>6

LEMMA TakingBounded ==
  ASSUME TypeOK, TruthInv, BoundInv, NEW e \in NextGateRuns,
         \/ GateAgent(e) \/ GatePostSpend(e)
         \/ GatePreSpend(e, "architect") \/ GatePreSpend(e, "prepush")
  PROVE  BoundInv'
<1>1. PICK kind : Takes(e, kind)
  BY DEF GateAgent, GatePostSpend, GatePreSpend
<1>2. truth' = truth
  BY <1>1 DEF Takes
<1>3. /\ At(e).id \in Nat /\ \A r \in Run : truth[r].binder < At(e).id
      /\ \A r \in Run : truth[r].binder \in Nat
  BY <1>1, TakenNumber DEF TypeOK, HistoryTypeOK, Truths
<1>4. gate'.pc # "posted" /\ \A q \in ledger' : q \in ledger \/ q.id = At(e).id
  BY AuthorizedCovered
<1>5. ASSUME NEW r \in Run, NEW q \in ledger', q.id = truth[r].binder PROVE q \in ledger
  BY <1>3, <1>4, <1>5
<1>6. TruthBounded'
  BY <1>2, <1>4, <1>5 DEF BoundInv, TruthBounded, Bounded
<1>7. FiniteAutonomy'
  BY <1>2 DEF BoundInv, FiniteAutonomy
<1> QED BY <1>6, <1>7, AuthorizedBounded DEF BoundInv

LEMMA QuietBounded ==
  ASSUME TypeOK, BoundInv, TruthInv, Quiet, Settled
  PROVE  BoundInv'
<1>1. /\ ledger' = ledger /\ SameHistory
      /\ gate' = gate \/ gate'.pc = "idle"
  BY DEF Quiet
<1>2. NextIsBounded'
  <2>1. CASE gate' = gate /\ gate.pc = "authorized"
    <3> DEFINE g == gate.receipt
    <3>1. Continued(g) \in Run
      BY <2>1 DEF TypeOK, GateTypeOK
    <3>2. g.actor \in Agents => run'[g.parent] = run[g.parent]
      BY <2>1, <3>1 DEF Settled, TruthInv, NextIsCovered, Continued
    <3> DEFINE o == Origin(g, gate.sound)
    <3>3. o'.cycles = o.cycles /\ o'.retries = o.retries /\ o'.missed = o.missed
      BY <1>1, <2>1, <3>1 DEF Origin, Continued, SameHistory
    <3>4. Bounded(g, o)
      BY <2>1 DEF BoundInv, NextIsBounded
    <3>5. g' = g
      BY <2>1
    <3> HIDE DEF o, g
    <3>6. Bounded(g, o)'
      BY <3>3, <3>4, <3>5 DEF Bounded
    <3> QED BY <3>6 DEF NextIsBounded, o, g
  <2>2. CASE gate'.pc # "authorized"
    BY <2>2 DEF NextIsBounded
  <2> QED BY <1>1, <2>1, <2>2
<1>3. TruthBounded'
  BY <1>1 DEF BoundInv, TruthBounded, Bounded, SameHistory
<1>4. FiniteAutonomy'
  BY <1>1 DEF BoundInv, FiniteAutonomy, SameHistory
<1> QED BY <1>2, <1>3, <1>4 DEF BoundInv

LEMMA ObservingBounded ==
  ASSUME TypeOK, BoundInv, GateObserves
  PROVE  BoundInv'
<1>1. PICK child : ledger' = ledger \cup {WithChild(gate.receipt, child)}
  BY DEF GateObserves
<1>2. gate.pc = "posted" /\ gate'.pc = "idle" /\ truth' = truth
  BY DEF GateObserves, IdleGate
<1>3. gate.receipt \in Receipts
  BY DEF TypeOK, GateTypeOK, GateStates
<1> DEFINE g == WithChild(gate.receipt, child)
<1>4. g.id = gate.receipt.id /\ g.cycle = gate.receipt.cycle /\ g.pre = gate.receipt.pre
  BY <1>3, WithChildFields
<1> HIDE DEF g
<1>5. ASSUME NEW r \in Run, truth[r].binder # 0, NEW q \in ledger', q.id = truth[r].binder
      PROVE  Bounded(q, truth[r])
  <2>1. CASE q \in ledger
    BY <1>5, <2>1 DEF BoundInv, TruthBounded
  <2>2. CASE q = g
    <3>1. Bounded(gate.receipt, truth[r])
      BY <1>2, <1>4, <1>5, <2>2 DEF BoundInv, TruthBounded
    <3> QED BY <1>4, <2>2, <3>1 DEF Bounded
  <2> QED BY <1>1, <2>1, <2>2 DEF g
<1>6. TruthBounded'
  BY <1>2, <1>5 DEF TruthBounded, Bounded
<1> QED BY <1>2, <1>6 DEF BoundInv, NextIsBounded, FiniteAutonomy

LEMMA PostingBounded ==
  ASSUME TypeOK, LegalInv, TruthInv, BoundInv, GatePosts
  PROVE  BoundInv'
<1> DEFINE g == gate.receipt
           o == Origin(g, gate.sound)
<1>1. PICK r \in Run : truth' = [truth EXCEPT ![r] = o]
  BY DEF GatePosts
<1>2. /\ gate.pc = "authorized" /\ gate'.pc = "posted"
      /\ gate'.receipt = g /\ ledger' = ledger
  BY DEF GatePosts
<1>3. /\ o \in Truths /\ o.binder = g.id
      /\ Bounded(g, o)
  BY <1>2, OriginType DEF Origin, BoundInv, NextIsBounded
<1>4. /\ g \in Receipts /\ \A q \in ledger : q.id # g.id
      /\ \A s \in Run : truth[s].binder # g.id
  BY <1>2 DEF TypeOK, GateTypeOK, GateStates, TruthInv, RunIdsFresh
<1> HIDE DEF o
<1>5. truth'[r] = o /\ \A s \in Run : s # r => truth'[s] = truth[s]
  BY <1>1 DEF TypeOK, HistoryTypeOK
<1>6. g.cycle <= MaxAutoResumes /\ g.pre <= MAX_PRE_SPEND_RECOVERIES_PER_SESSION
  BY <1>2 DEF LegalInv, GateLegal, Promise!Legal, Promise!InPolicy, TruthInv, NextIsCovered
<1>7. FiniteAutonomy'
  <2>1. /\ o.cycles <= MaxAutoResumes * (o.missed + 1)
        /\ o.retries <= MAX_PRE_SPEND_RECOVERIES_PER_SESSION * (o.missed + 1)
    <3>1. /\ o.cycles \in Nat /\ o.retries \in Nat /\ o.missed \in Nat
          /\ g.cycle \in Nat /\ g.pre \in Nat
          /\ MaxAutoResumes \in Nat /\ MAX_PRE_SPEND_RECOVERIES_PER_SESSION \in Nat
      BY <1>3, <1>4, PolicyAssumption DEF Truths, Receipts
    <3> HIDE DEF g
    <3> QED BY <1>3, <1>6, <3>1, Tranches DEF Bounded
  <2> QED BY <1>5, <2>1 DEF BoundInv, FiniteAutonomy
<1>8. TruthBounded'
  <2>1. ASSUME NEW s \in Run, s = r
        PROVE  /\ \A q \in ledger : q.id # truth'[s].binder
               /\ Bounded(g, truth'[s])
    BY <1>3, <1>4, <1>5, <2>1
  <2>2. ASSUME NEW s \in Run, s # r, truth'[s].binder # 0
        PROVE  /\ \A q \in ledger : q.id = truth'[s].binder => Bounded(q, truth'[s])
               /\ g.id # truth'[s].binder
    BY <1>4, <1>5, <2>2 DEF BoundInv, TruthBounded
  <2> HIDE DEF g
  <2> QED BY <1>2, <2>1, <2>2 DEF TruthBounded, Bounded
<1>9. NextIsBounded'
  BY <1>2 DEF NextIsBounded
<1> QED BY <1>7, <1>8, <1>9 DEF BoundInv

LEMMA BoundInvInit == Init => BoundInv
<1> SUFFICES ASSUME Init PROVE BoundInv
  OBVIOUS
<1>1. /\ gate.pc = "idle"
      /\ \A r \in Run : /\ truth[r].binder = 0 /\ truth[r].cycles = 0
                        /\ truth[r].retries = 0 /\ truth[r].missed = 0
  BY DEF Init, IdleGate
<1> QED BY <1>1, PolicyAssumption DEF BoundInv, NextIsBounded, TruthBounded, FiniteAutonomy

LEMMA BoundInvStep ==
  TypeOK /\ LegalInv /\ TruthInv /\ BoundInv /\ [Next]_vars => BoundInv'
<1> SUFFICES ASSUME TypeOK, LegalInv, TruthInv, BoundInv, [Next]_vars PROVE BoundInv'
  OBVIOUS
<1> QED BY RunsSettle, QuietSteps, QuietBounded, PostingBounded, ObservingBounded, TakingBounded

(* The resumes and the consecutive pre-spend retries that really happened  *)
(* since a person last acted are bounded by one tranche of the policy for  *)
(* each time a run of the lineage was taken for the first of a session,    *)
(* and one more: no other step of the loop starts a new tranche, although  *)
(* build_receipt() forgets the retries.                                    *)
THEOREM AutonomyEnds == Spec => []FiniteAutonomy
<1>1. BoundInv => FiniteAutonomy
  BY DEF BoundInv
<1> QED
  BY <1>1, BoundInvInit, BoundInvStep, TruthInvInit, TruthInvStep, LegalInvInit,
     LegalInvStep, ClaimInvInit, ClaimInvStep, TypeCorrect, PTL DEF Spec

-----------------------------------------------------------------------------
(* The architect runs                                                      *)

(* A run that is going on has no outcome, and has delegated when it is     *)
(* "issued".                                                               *)
RunShape ==
  \A r \in Run :
    /\ run[r].status # "completed" => run[r].outcome = "none"
    /\ run[r].status \in {"absent", "waiting", "running"} => ~HasDelegated(r)
    /\ run[r].status = "issued" => HasDelegated(r)

LEMMA RunChanges ==
  ASSUME [Next]_vars
  PROVE  \/ UNCHANGED run
         \/ \E q \in Run : FreshRun(q) /\ run' = Created(q)
         \/ \E q \in Run : ArchitectIssues(q) \/ ArchitectEnds(q)
<1>1. GatePosts => \E q \in Run : FreshRun(q) /\ run' = Created(q)
  BY DEF GatePosts
<1>2. RearmPosts => \E q \in Run : FreshRun(q) /\ run' = Created(q)
  BY DEF RearmPosts
<1>3. \A q \in Run : ManualDispatch(q) => FreshRun(q) /\ run' = Created(q)
  BY DEF ManualDispatch
<1> QED
  BY <1>1, <1>2, <1>3
     DEF Next, vars, workVars, AgentCompletes, AgentFails, RerunAgent, ReplayCallback,
         RequestRecovery, Deliver, LoseNotice, GateAgent, GatePostSpend, GatePreSpend,
         Takes, GateObserves, GateGivesUp, GateCrashes, RearmChecks, RearmObserves,
         RearmGivesUp, RunDiagnostic

(* What becomes of one run.                                                *)
RunKept(r) ==
  /\ run'[r].pkg = run[r].pkg /\ run'[r].passes = run[r].passes
  /\ run'[r].outcome = run[r].outcome
  /\ \/ run'[r].status = run[r].status
     \/ run[r].status = "waiting" /\ run'[r].status = "running"

RunCreated(r) == run[r].status = "absent" /\ run'[r] \in {NewRun("waiting"), NewRun("running")}

RunIssued(r) ==
  /\ run[r].status = "running" /\ run'[r].status = "issued" /\ run'[r].outcome = "none"
  /\ run'[r].pkg # NoPackage /\ run'[r].passes \in Passes

RunEnded(r) ==
  \E o \in {"package", "ended", "pre_spend", "sol_incomplete"} :
    /\ run[r].status \in {IF o = "package" THEN "issued" ELSE "running", "waiting"}
    /\ run[r].status = "waiting" => o = "ended"
    /\ run'[r] = Finished(r, o)

LEMMA RunFates ==
  ASSUME TypeOK, [Next]_vars, NEW r \in Run
  PROVE  RunKept(r) \/ RunCreated(r) \/ RunIssued(r) \/ RunEnded(r)
<1>0. run \in [Run -> RunStates] /\ run[r] \in RunStates
  BY DEF TypeOK, WorkTypeOK
<1>1. CASE UNCHANGED run
  BY <1>1 DEF RunKept
<1>2. ASSUME NEW q \in Run, FreshRun(q), run' = Created(q)
      PROVE  RunCreated(r) \/ RunEnded(r) \/ run'[r] = run[r]
  <2>1. CASE r = q
    <3>1. run[r].status = "absent"
      BY <1>2, <2>1 DEF FreshRun, Existing
    <3>2. run'[r] = NewRun(IF Busy THEN "waiting" ELSE "running")
      BY <1>2, <2>1 DEF Created
    <3> QED BY <3>1, <3>2 DEF RunCreated
  <2>2. CASE r # q /\ r \in Waiting
    <3>1. run'[r] = Finished(r, "ended") /\ run[r].status = "waiting"
      BY <1>2, <2>2 DEF Created, Waiting
    <3> QED BY <3>1 DEF RunEnded
  <2>3. CASE r # q /\ r \notin Waiting
    BY <1>2, <2>3 DEF Created
  <2> QED BY <2>1, <2>2, <2>3
<1>3. ASSUME NEW q \in Run, ArchitectIssues(q)
      PROVE  RunIssued(r) \/ run'[r] = run[r]
  <2>1. PICK actor, pkg, passes :
          /\ run' = [run EXCEPT ![q] = Issued(actor, pkg, passes)]
          /\ passes \in PassChoices /\ pkg # NoPackage
    <3>1. CASE IssueCodex(q)
      <4>1. PICK pkg \in {"CODEX"} \X CodexWork, passes \in PassChoices :
              run' = [run EXCEPT ![q] = Issued("CODEX", pkg, passes)]
        BY <3>1 DEF IssueCodex
      <4>2. pkg # NoPackage
        BY DEF NoPackage
      <4> QED BY <4>1, <4>2
    <3>2. CASE IssueReview(q)
      <4>1. PICK reviewer \in Reviewers, passes \in PassChoices :
              run' = [run EXCEPT ![q] = Issued(reviewer, <<"REVIEW", q>>, passes)]
        BY <3>2 DEF IssueReview
      <4>2. <<"REVIEW", q>> # NoPackage
        BY DEF NoPackage
      <4> QED BY <4>1, <4>2
    <3> QED BY <1>3, <3>1, <3>2 DEF ArchitectIssues
  <2>2. run[q].status = "running"
    BY <1>3 DEF ArchitectIssues
  <2>3. CASE r = q
    <3>1. run'[r] = Issued(actor, pkg, passes)
      BY <1>0, <2>1, <2>3
    <3> QED BY <2>1, <2>2, <2>3, <3>1, BoundsAssumption DEF RunIssued, Issued
  <2>4. CASE r # q
    BY <1>0, <2>1, <2>4
  <2> QED BY <2>3, <2>4
<1>4. ASSUME NEW q \in Run, ArchitectEnds(q)
      PROVE  \/ RunEnded(r) \/ run'[r] = run[r]
             \/ run[r].status = "waiting" /\ run'[r] = [run[r] EXCEPT !.status = "running"]
  <2>1. PICK o \in {"package", "ended", "pre_spend", "sol_incomplete"} :
          MayEnd(q, o) /\ run' = Completed(q, o)
    BY <1>4 DEF ArchitectEnds
  <2>2. CASE r = q
    <3>1. run'[r] = Finished(r, o) /\ run[r].status = IF o = "package" THEN "issued" ELSE "running"
      BY <2>1, <2>2 DEF Completed, MayEnd
    <3>2. run[r].status # "waiting"
      BY <3>1
    <3> QED BY <3>1, <3>2 DEF RunEnded
  <2>3. CASE r # q
    BY <2>1, <2>3 DEF Completed, Waiting
  <2> QED BY <2>2, <2>3
<1>5. ASSUME run[r].status = "waiting", run'[r] = [run[r] EXCEPT !.status = "running"]
      PROVE  RunKept(r)
  BY <1>0, <1>5 DEF RunKept, RunStates
<1>6. run'[r] = run[r] => RunKept(r)
  BY DEF RunKept
<1> QED
  BY <1>1, <1>2, <1>3, <1>4, <1>5, <1>6, RunChanges

LEMMA RunShapeStep == TypeOK /\ RunShape /\ [Next]_vars => RunShape'
<1> SUFFICES ASSUME TypeOK, RunShape, [Next]_vars, NEW r \in Run
             PROVE  /\ run'[r].status # "completed" => run'[r].outcome = "none"
                    /\ run'[r].status \in {"absent", "waiting", "running"} => run'[r].pkg = NoPackage
                    /\ run'[r].status = "issued" => run'[r].pkg # NoPackage
  BY DEF RunShape, HasDelegated
<1>1. CASE RunKept(r)
  BY <1>1 DEF RunKept, RunShape, HasDelegated
<1>2. CASE RunCreated(r)
  BY <1>2 DEF RunCreated, NewRun
<1>3. CASE RunIssued(r)
  BY <1>3 DEF RunIssued
<1>4. CASE RunEnded(r)
  BY <1>4 DEF RunEnded, Finished
<1> QED
  BY <1>1, <1>2, <1>3, <1>4, RunFates

LEMMA RunObeys ==
  ASSUME TypeOK, RunShape, [Next]_vars, NEW r \in Run
  PROVE  Architect(r)!Next \/ UNCHANGED Architect(r)!runVars
<1> USE PolicyAssumption
<1>1. CASE RunKept(r)
  BY <1>1 DEF RunKept, HasDelegated, Architect!runVars
<1>2. CASE RunCreated(r)
  <2>1. run[r].pkg = NoPackage /\ run[r].outcome = "none"
    BY <1>2 DEF RunCreated, RunShape, HasDelegated
  <2>2. run'[r].pkg = NoPackage /\ run'[r].outcome = "none" /\ run'[r].status # "completed"
    BY <1>2 DEF RunCreated, NewRun
  <2> QED BY <1>2, <2>1, <2>2 DEF RunCreated, HasDelegated, Architect!runVars
<1>3. CASE RunIssued(r)
  <2>1. run[r].pkg = NoPackage /\ run[r].outcome = "none" /\ run[r].status = "running"
    BY <1>3 DEF RunIssued, RunShape, HasDelegated
  <2>2. TrueSolCalls(run'[r].passes) \in Nat
    BY <1>3, PassesCounted DEF RunIssued
  <2>3. /\ run'[r].status = "issued" /\ run'[r].outcome = "none" /\ run'[r].pkg # NoPackage
        /\ run'[r].passes \in Passes
    BY <1>3 DEF RunIssued
  <2>4. HasDelegated(r)' /\ ~HasDelegated(r)
    BY <2>1, <2>3 DEF HasDelegated
  <2>5. 0 <= TrueSolCalls(run'[r].passes)
    BY <2>2
  <2>6. /\ run'[r].passes \in Architect(r)!Passes
        /\ Architect(r)!TrueSolCalls(run'[r].passes) = TrueSolCalls(run'[r].passes)
        /\ Architect(r)!ArchitectSolCalls(run'[r].passes) = ArchitectSolCalls(run'[r].passes)
    BY <2>3 DEF Passes, TrueSolCalls, ArchitectSolCalls, RecordedUsages, ReservesOverwrittenPass,
       Architect!Passes, Architect!TrueSolCalls, Architect!ArchitectSolCalls,
       Architect!RecordedUsages, Architect!ReservesOverwrittenPass
  <2>7. Architect(r)!Delegates
    BY <2>1, <2>3, <2>4, <2>5, <2>6 DEF Architect!Delegates, Architect!Free
  <2> QED BY <2>7 DEF Architect!Next
<1>4. CASE RunEnded(r)
  <2>1. PICK o \in {"package", "ended", "pre_spend", "sol_incomplete"} :
          /\ run[r].status \in {IF o = "package" THEN "issued" ELSE "running", "waiting"}
          /\ run[r].status = "waiting" => o = "ended"
          /\ run'[r] = Finished(r, o)
    BY <1>4 DEF RunEnded
  <2>2. /\ run'[r].pkg = run[r].pkg /\ run'[r].passes = run[r].passes
        /\ run'[r].outcome = o /\ run'[r].status = "completed"
        /\ run[r].status # "completed" /\ run[r].outcome = "none"
    BY <2>1 DEF Finished, RunShape
  <2>3. CASE o = "package"
    <3>1. run[r].pkg # NoPackage
      BY <2>1, <2>3 DEF RunShape, HasDelegated
    <3> QED BY <2>2, <2>3, <3>1 DEF HasDelegated, Architect!Next, Architect!EndsDelegated
  <2>4. CASE o # "package"
    <3>1. run[r].pkg = NoPackage
      BY <2>1, <2>4 DEF RunShape, HasDelegated
    <3>2. o \in {"pre_spend", "sol_incomplete", "ended"}
      BY <2>1, <2>4
    <3> QED BY <2>2, <3>1, <3>2
         DEF HasDelegated, Architect!Next, Architect!EndsFree, Architect!Free
  <2> QED BY <2>3, <2>4
<1> QED BY <1>1, <1>2, <1>3, <1>4, RunFates

(* Every run of the control loop is a run as ArchitectRun describes it,    *)
(* whatever the gate, the recoveries and people do with it.                *)
THEOREM RunsObeyInterface == Spec => RunsAreArchitectRuns
<1>1. Init => RunShape /\ \A r \in Run : Architect(r)!Init
  BY DEF Init, NewRun, RunShape, HasDelegated, Architect!Init
<1>2. TypeOK /\ RunShape /\ [Next]_vars
        => [\A r \in Run : [Architect(r)!Next]_(Architect(r)!runVars)]_vars
  BY RunObeys
<1> QED
  BY <1>1, <1>2, RunShapeStep, TypeCorrect, PTL DEF Spec, RunsAreArchitectRuns

-----------------------------------------------------------------------------
(* Repeats.  RepeatedOnlyUnseen speaks of the runs that were dispatched:   *)
(* what ties them to the receipts is that the receipt of a run's gate run, *)
(* where there is one, names its event, and that gate runs dispatch in the *)
(* order of their numbers.                                                 *)

AbsentUnbound == \A r \in Run : run[r].status = "absent" => truth[r].binder = 0

Remembered ==
  \A r \in Run :
    truth[r].binder # 0 =>
      /\ \A q \in ledger :
           q.id = truth[r].binder => q.key = truth[r].event /\ q \in Dispatched
      /\ gate.pc # "idle" => truth[r].binder <= gate.receipt.id
      /\ gate.pc = "posted" /\ gate.receipt.id = truth[r].binder =>
           gate.receipt.key = truth[r].event

RepeatInv == AbsentUnbound /\ Remembered /\ RepeatedOnlyUnseen

LEMMA RepeatInvInit == Init => RepeatInv
BY DEF Init, RepeatInv, AbsentUnbound, Remembered, RepeatedOnlyUnseen

(* No run comes out of existence, and the one just dispatched exists.      *)
LEMMA RunsStay ==
  ASSUME TypeOK, [Next]_vars
  PROVE  /\ \A r \in Run : run'[r].status = "absent" => run[r].status = "absent"
         /\ \A r \in Run : run' = Created(r) => run'[r].status # "absent"
<1>1. ASSUME NEW r \in Run, run'[r].status = "absent" PROVE run[r].status = "absent"
  <2>1. CASE RunKept(r)
    BY <1>1, <2>1 DEF RunKept
  <2>2. CASE RunCreated(r)
    BY <2>2 DEF RunCreated
  <2>3. CASE RunIssued(r)
    BY <1>1, <2>3 DEF RunIssued
  <2>4. CASE RunEnded(r)
    BY <1>1, <2>4 DEF RunEnded, Finished
  <2> QED BY <2>1, <2>2, <2>3, <2>4, RunFates
<1>2. ASSUME NEW r \in Run, run' = Created(r) PROVE run'[r].status # "absent"
  BY <1>2 DEF Created, NewRun
<1> QED BY <1>1, <1>2

LEMMA QuietRepeat ==
  ASSUME TypeOK, RepeatInv, Quiet, [Next]_vars
  PROVE  RepeatInv'
<1>1. /\ ledger' = ledger /\ SameHistory
      /\ gate' = gate \/ gate'.pc = "idle"
  BY DEF Quiet
<1>2. \A r \in Run :
        /\ truth'[r].binder = truth[r].binder /\ truth'[r].newest = truth[r].newest
        /\ truth[r].binder # 0 => truth'[r].event = truth[r].event
  BY <1>1 DEF SameHistory, RepeatInv, AbsentUnbound
<1>3. AbsentUnbound'
  BY <1>2, RunsStay DEF RepeatInv, AbsentUnbound
<1>4. Remembered'
  BY <1>1, <1>2 DEF RepeatInv, Remembered, Dispatched
<1>5. RepeatedOnlyUnseen'
  <2> SUFFICES ASSUME NEW r \in Run, NEW t \in Run,
                      truth'[r].binder # 0, truth'[r].binder < truth'[t].binder,
                      truth'[r].event = truth'[t].event,
                      NEW q \in ledger, q.id = truth'[r].binder
               PROVE  q.id + MAX_RECEIPT_SCAN <= truth'[t].newest
    BY <1>1 DEF RepeatedOnlyUnseen
  <2>1. truth[r].binder \in Nat /\ truth[t].binder \in Nat
    BY DEF TypeOK, HistoryTypeOK, Truths
  <2>2. truth[t].binder # 0
    BY <1>2, <2>1
  <2> QED BY <1>2, <2>2 DEF RepeatInv, RepeatedOnlyUnseen
<1> QED BY <1>3, <1>4, <1>5 DEF RepeatInv

LEMMA TakingRepeat ==
  ASSUME TypeOK, TruthInv, RepeatInv, [Next]_vars, NEW e \in NextGateRuns,
         \/ GateAgent(e) \/ GatePostSpend(e)
         \/ GatePreSpend(e, "architect") \/ GatePreSpend(e, "prepush")
  PROVE  RepeatInv'
<1>1. PICK kind : Takes(e, kind)
  BY DEF GateAgent, GatePostSpend, GatePreSpend
<1>2. truth' = truth
  BY <1>1 DEF Takes
<1>3. /\ At(e).id \in Nat /\ \A r \in Run : truth[r].binder < At(e).id
      /\ \A r \in Run : truth[r].binder \in Nat
  BY <1>1, TakenNumber DEF TypeOK, HistoryTypeOK, Truths
<1>4. /\ gate'.pc # "posted" /\ \A q \in ledger' : q \in ledger \/ q.id = At(e).id
      /\ gate'.pc = "authorized" => gate'.receipt.id = At(e).id
      /\ gate'.pc \in {"idle", "authorized", "posted"}
  BY AuthorizedCovered, TakingType DEF TypeOK, GateTypeOK, GateStates
<1>5. ASSUME NEW r \in Run, NEW q \in ledger', q.id = truth[r].binder PROVE q \in ledger
  BY <1>3, <1>4, <1>5
<1>6. Dispatched' = Dispatched
  BY TakingKeepsDispatched
<1>7. AbsentUnbound'
  BY <1>2, RunsStay DEF RepeatInv, AbsentUnbound
<1>8. Remembered'
  <2> SUFFICES ASSUME NEW r \in Run, truth[r].binder # 0
               PROVE  /\ \A q \in ledger' : q.id = truth[r].binder =>
                           q.key = truth[r].event /\ q \in Dispatched
                      /\ gate'.pc # "idle" => truth[r].binder <= gate'.receipt.id
    BY <1>2, <1>4, <1>6 DEF Remembered
  <2>1. \A q \in ledger' : q.id = truth[r].binder => q.key = truth[r].event /\ q \in Dispatched
    BY <1>5 DEF RepeatInv, Remembered
  <2>2. gate'.pc # "idle" => truth[r].binder <= gate'.receipt.id
    BY <1>3, <1>4
  <2> QED BY <2>1, <2>2
<1>9. RepeatedOnlyUnseen'
  BY <1>2, <1>5 DEF RepeatInv, RepeatedOnlyUnseen
<1> QED BY <1>7, <1>8, <1>9 DEF RepeatInv

LEMMA ObservingRepeat ==
  ASSUME TypeOK, RepeatInv, GateObserves
  PROVE  RepeatInv'
<1>1. PICK child \in Run : ledger' = ledger \cup {WithChild(gate.receipt, child)}
  BY DEF GateObserves
<1>2. gate.pc = "posted" /\ gate'.pc = "idle" /\ truth' = truth /\ run' = run
  BY DEF GateObserves, IdleGate
<1>3. gate.receipt \in Receipts
  BY DEF TypeOK, GateTypeOK, GateStates
<1> DEFINE g == WithChild(gate.receipt, child)
<1>4. g.id = gate.receipt.id /\ g.key = gate.receipt.key /\ g.child # NoRun
  BY <1>3, WithChildFields, BoundsAssumption DEF Run, NoRun
<1> HIDE DEF g
<1>5. Dispatched' = Dispatched \cup {g}
  BY <1>1, <1>4 DEF Dispatched, IsDispatched, g
<1>6. Remembered'
  <2> SUFFICES ASSUME NEW r \in Run, truth[r].binder # 0,
                      NEW q \in ledger', q.id = truth[r].binder
               PROVE  q.key = truth[r].event /\ q \in Dispatched'
    BY <1>2 DEF Remembered
  <2>1. CASE q \in ledger
    BY <1>5, <2>1 DEF RepeatInv, Remembered
  <2>2. CASE q = g
    BY <1>2, <1>4, <1>5, <2>2 DEF RepeatInv, Remembered
  <2> QED BY <1>1, <2>1, <2>2 DEF g
<1>7. RepeatedOnlyUnseen'
  <2> SUFFICES ASSUME NEW r \in Run, NEW t \in Run,
                      truth[r].binder # 0, truth[r].binder < truth[t].binder,
                      truth[r].event = truth[t].event,
                      NEW q \in ledger', q.id = truth[r].binder
               PROVE  q.id + MAX_RECEIPT_SCAN <= truth[t].newest
    BY <1>2 DEF RepeatedOnlyUnseen
  <2>1. CASE q \in ledger
    BY <2>1 DEF RepeatInv, RepeatedOnlyUnseen
  <2>2. CASE q = g
    <3>1. /\ truth[r].binder \in Nat /\ truth[t].binder \in Nat
          /\ gate.receipt.id \in Nat
      BY <1>3 DEF TypeOK, HistoryTypeOK, Truths, Receipts
    <3>2. truth[t].binder <= gate.receipt.id
      BY <1>2, <3>1 DEF RepeatInv, Remembered
    <3> QED BY <1>4, <2>2, <3>1, <3>2
  <2> QED BY <1>1, <2>1, <2>2 DEF g
<1>8. AbsentUnbound'
  BY <1>2 DEF RepeatInv, AbsentUnbound
<1> QED BY <1>6, <1>7, <1>8 DEF RepeatInv

LEMMA PostingRepeat ==
  ASSUME TypeOK, DedupInv, TruthInv, RepeatInv, [Next]_vars, GatePosts
  PROVE  RepeatInv'
<1> DEFINE g == gate.receipt
           o == Origin(g, gate.sound)
<1>1. PICK r \in Run : truth' = [truth EXCEPT ![r] = o] /\ run' = Created(r)
  BY DEF GatePosts
<1>2. /\ gate.pc = "authorized" /\ gate'.pc = "posted"
      /\ gate'.receipt = g /\ ledger' = ledger
  BY DEF GatePosts
<1>3. /\ o \in Truths /\ o.binder = g.id /\ o.event = g.key /\ o.newest = g.newest
  BY <1>2, OriginType DEF Origin
<1>4. /\ g \in Receipts /\ \A q \in ledger : q.id # g.id
      /\ \A s \in Run : truth[s].binder # g.id
  BY <1>2 DEF TypeOK, GateTypeOK, GateStates, TruthInv, RunIdsFresh
<1> HIDE DEF o
<1>5. truth'[r] = o /\ \A s \in Run : s # r => truth'[s] = truth[s]
  BY <1>1 DEF TypeOK, HistoryTypeOK
<1>6. Unprecedented(g)
  BY <1>2 DEF DedupInv, First
<1> HIDE DEF g
<1>7. AbsentUnbound'
  BY <1>1, <1>5, RunsStay DEF RepeatInv, AbsentUnbound
<1>8. Remembered'
  <2>1. ASSUME NEW s \in Run, s = r
        PROVE  /\ \A q \in ledger : q.id # truth'[s].binder
               /\ truth'[s].binder <= g.id /\ g.key = truth'[s].event
    BY <1>3, <1>4, <1>5, <2>1 DEF Receipts
  <2>2. ASSUME NEW s \in Run, s # r, truth'[s].binder # 0
        PROVE  /\ \A q \in ledger : q.id = truth'[s].binder =>
                    q.key = truth'[s].event /\ q \in Dispatched
               /\ truth'[s].binder <= g.id
               /\ truth'[s].binder # g.id
    BY <1>2, <1>4, <1>5, <2>2 DEF RepeatInv, Remembered, g
  <2>3. Dispatched' = Dispatched
    BY <1>2 DEF Dispatched
  <2> QED BY <1>2, <2>1, <2>2, <2>3 DEF Remembered
<1>9. RepeatedOnlyUnseen'
  <2> SUFFICES ASSUME NEW s \in Run, NEW t \in Run,
                      truth'[s].binder # 0, truth'[s].binder < truth'[t].binder,
                      truth'[s].event = truth'[t].event,
                      NEW q \in ledger, q.id = truth'[s].binder
               PROVE  q.id + MAX_RECEIPT_SCAN <= truth'[t].newest
    BY <1>2 DEF RepeatedOnlyUnseen
  <2>1. s # r
    BY <1>3, <1>4, <1>5
  <2>2. CASE t = r
    <3>1. q.key = truth[s].event /\ q \in Dispatched
      BY <1>5, <2>1 DEF RepeatInv, Remembered
    <3>2. q.key = g.key
      BY <1>3, <1>5, <2>1, <2>2, <3>1
    <3> QED BY <1>3, <1>5, <1>6, <2>2, <3>1, <3>2 DEF Unprecedented
  <2>3. CASE t # r
    BY <1>5, <2>1, <2>3 DEF RepeatInv, RepeatedOnlyUnseen
  <2> QED BY <2>2, <2>3
<1> QED BY <1>7, <1>8, <1>9 DEF RepeatInv

LEMMA RepeatInvStep ==
  TypeOK /\ DedupInv /\ TruthInv /\ RepeatInv /\ [Next]_vars => RepeatInv'
<1> SUFFICES ASSUME TypeOK, DedupInv, TruthInv, RepeatInv, [Next]_vars PROVE RepeatInv'
  OBVIOUS
<1> QED BY QuietSteps, QuietRepeat, PostingRepeat, ObservingRepeat, TakingRepeat

(* A completion event is never used, nor a failed run recovered, a second  *)
(* time, unless the gate run that did it first left no receipt, or one too *)
(* far back to be seen: this counts the runs that really were dispatched,  *)
(* whoever asks for them and how often.                                    *)
THEOREM RepeatedWhenUnseen == Spec => []RepeatedOnlyUnseen
<1>1. RepeatInv => RepeatedOnlyUnseen
  BY DEF RepeatInv
<1> QED
  BY <1>1, RepeatInvInit, RepeatInvStep, DedupInvInit, DedupInvStep, TruthInvInit,
     TruthInvStep, LegalInvInit, LegalInvStep, ClaimInvInit, ClaimInvStep, TypeCorrect,
     PTL DEF Spec
=============================================================================
