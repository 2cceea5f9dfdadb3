------------------------ MODULE ArchitectCycle_proofs ------------------------
(***************************************************************************)
(* Proofs about one run of the architect workflow, for all heads, packages,*)
(* efforts and inputs, and any number of disturbances.                     *)
(***************************************************************************)
EXTENDS ArchitectCycle, FiniteSetTheorems, TLAPS

Decided == {"routing", "green"} \cup Routed

(* How many calls there are, and what the usage files say of them.         *)
CallsAre(n, first, last) ==
  Len(calls) = n /\ usageInitial = first /\ usageFinal = last

Ledger ==
  \/ pc \in {"no_spend", "red"} /\ Len(calls) <= 3
  \/ /\ pass = "initial" /\ ~before /\ CallsAre(0, 0, 0)
     /\ pc \in {"start", "complete", "sol"} \cup Collecting
  \/ pass = "initial" /\ ~before /\ CallsAre(1, 1, 0) /\ pc = "escalate"
  \/ pass = "initial" /\ ~before /\ CallsAre(1, 1, 1) /\ pc \in {"preliminary"} \cup Decided
  \/ pass = "escalated" /\ ~before /\ CallsAre(1, 1, 0) /\ pc = "sol"
  \/ pass = "escalated" /\ ~before /\ CallsAre(2, 1, 2) /\ pc \in {"preliminary"} \cup Decided
  \/ /\ pass = "continuation" /\ before /\ pc \in {"sol"} \cup Collecting
     /\ CallsAre(1, 1, 1) \/ CallsAre(2, 1, 2)
  \/ /\ pass = "continuation" /\ before /\ pc \in Decided
     /\ CallsAre(2, 1, 2) \/ CallsAre(3, 1, 3)

(* What the calls were made on, and what the decision in hand rests on.    *)
Evidence ==
  /\ pass # "continuation" /\ pc \in {"sol", "escalate", "preliminary"} => Complete
  /\ \A i \in DOMAIN calls :
       \/ calls[i].whole
       \/ before /\ pass = "continuation" /\ i = Len(calls) /\ pc \in Decided \cup {"red"}
  /\ pc \in {"escalate", "preliminary"} \cup Decided => calls[Len(calls)].core = core
  /\ pc = "escalate" => calls[1].gate = (decision.status = "HUMAN_DECISION_REQUIRED")
  /\ (Len(calls) > 0 /\ calls[1].gate) => pc \in {"escalate", "red"} \/ effort = MAX

(* What is being delegated.                                                *)
Delegation ==
  /\ pc \in {"escalate", "preliminary"} \cup Decided => decision \in Decisions
  /\ pc \in {"dispatch", "post", "observe"} => decision.status = "ENGINEERING_TASK"
  /\ pc \in {"freeze", "quality", "publish", "published"} => decision.status = "REVIEW_TASK"
  /\ pc \in {"quality", "publish", "published"} =>
       package \in Request /\ package.kind = decision.item
  /\ pc \in {"freeze", "dispatch", "post", "observe", "routing"} \cup (Steps \ Routed)
       => package = Nothing
  /\ package # Nothing /\ pc \in {"publish", "published", "green"} =>
       /\ package.freeze = core.pull
       /\ package.kind = "coder" => package.freeze.head \in core.verdicts

(* Every freeze that was written down is coherent.                         *)
Freezes ==
  /\ \A r \in Reviewers : requests[r] # Nothing => Coherent(requests[r].freeze)
  /\ \A r \in Reviewers : seen.requests[r] # Nothing => Coherent(seen.requests[r].freeze)
  /\ package # Nothing => Coherent(package.freeze)

(* Once something was delegated, no call is made, and the artifact charges *)
(* for those that were.                                                    *)
Charged ==
  \/ ~before /\ (CallsAre(1, 1, 1) \/ CallsAre(2, 1, 2))
  \/ before /\ (CallsAre(2, 1, 2) \/ CallsAre(3, 1, 3))

Delegated ==
  /\ work # Nothing => Charged /\ pc \in {"observe", "published", "green", "red"}
  /\ pc = "observe" => work # Nothing
  /\ pc = "published" => work = package

(* Where a run failed tells what it had paid for.                          *)
Failures ==
  pc = "red" =>
    /\ failed = <<"initial", "complete">> => Len(calls) = 0 /\ work = Nothing
    /\ failed = <<"initial", "sol">> => Len(calls) = 1 /\ work = Nothing

IInv ==
  /\ TypeOK /\ main <= disturbances
  /\ Ledger /\ Evidence /\ Delegation /\ Freezes
  /\ Delegated /\ Failures

LEMMA InitInv == Init => IInv
<1> SUFFICES ASSUME Init PROVE IInv
    OBVIOUS
<1> USE CycleAssumption
<1>1. TypeOK
    <2>1. FirstFreeze \in Freeze
        BY DEF FirstFreeze, Freeze, Versions
    <2>2. requests \in Requests
        BY <2>1 DEF Init, Requests, Request, Kinds, Reviewers
    <2>3. seen \in [requests : Requests, running : SUBSET Reviewers]
        BY DEF Init, Requests
    <2>4. core \in Core /\ pull \in [open : BOOLEAN, freeze : Freeze]
        BY <2>1 DEF Init, Core
    <2>5. calls \in Seq([whole : BOOLEAN, core : Core, gate : BOOLEAN]) /\ Len(calls) <= 3
        BY DEF Init
    <2>6. ci \subseteq Heads /\ verdicts \subseteq Heads
        BY DEF Init
    <2>7. inputs \in Inputs /\ pc \in Steps \cup Ended /\ pass \in Passes /\ effort \in Tiers
        BY DEF Init, Steps, Passes
    <2>8. /\ main \in Versions /\ checkout \in Versions /\ disturbances \in Versions
          /\ usageInitial \in 0 .. 3 /\ usageFinal \in 0 .. 3
        BY DEF Init, Versions
    <2>9. /\ running \subseteq Reviewers /\ workers \in [Packages -> {"none", "active", "done"}]
          /\ active \subseteq Packages /\ faults \subseteq Faults
        BY DEF Init
    <2>10. /\ decision = Nothing /\ package = Nothing /\ before = FALSE
           /\ work = Nothing /\ failed = Nothing
        BY DEF Init
    <2> QED
        BY <2>2, <2>3, <2>4, <2>5, <2>6, <2>7, <2>8, <2>9, <2>10 DEF TypeOK, Versions
<1>2. Coherent(FirstFreeze)
    BY DEF Coherent, FirstFreeze
<1>3. Freezes
    BY <1>2 DEF Init, Freezes, Reviewers
<1>4. Ledger
    BY DEF Init, Ledger, CallsAre
<1>5. Evidence /\ Delegation
    BY DEF Init, Evidence, Delegation, Decided, Routed
<1>6. Delegated /\ Failures
    BY DEF Init, Delegated, Failures
<1> QED
    BY <1>1, <1>3, <1>4, <1>5, <1>6 DEF IInv, Init

-----------------------------------------------------------------------------
(* Types.                                                                  *)
LEMMA Cost ==
  ASSUME TypeOK, NEW n \in Nat, Disturbed(n)
  PROVE  disturbances' \in 0 .. MaxDisturbances /\ disturbances + n = disturbances'
  BY CycleAssumption DEF TypeOK, Disturbed

LEMMA SmallSets ==
  /\ \A bad \in SUBSET {"branch", "pulls", "reviews", "canon"} : Cardinality(bad) \in Nat
  /\ \A bad \in SUBSET Reviewers : Cardinality(bad) \in Nat
<1>1. IsFiniteSet({"branch", "pulls", "reviews", "canon"})
    <2>1. IsFiniteSet({"branch"} \cup {"pulls"})
        BY FS_Singleton, FS_AddElement
    <2>2. IsFiniteSet(({"branch"} \cup {"pulls"}) \cup {"reviews"})
        BY <2>1, FS_AddElement
    <2>3. IsFiniteSet((({"branch"} \cup {"pulls"}) \cup {"reviews"}) \cup {"canon"})
        BY <2>2, FS_AddElement
    <2>4. (({"branch"} \cup {"pulls"}) \cup {"reviews"}) \cup {"canon"}
            = {"branch", "pulls", "reviews", "canon"}
        OBVIOUS
    <2> QED
        BY <2>3, <2>4
<1>2. IsFiniteSet(Reviewers)
    <2>1. IsFiniteSet({"claude"} \cup {"deepseek"})
        BY FS_Singleton, FS_AddElement
    <2>2. {"claude"} \cup {"deepseek"} = Reviewers
        BY DEF Reviewers
    <2> QED
        BY <2>1, <2>2
<1> QED
    BY <1>1, <1>2, FS_Subset, FS_CardinalityType

(* The parts of the type invariant that only the run changes.              *)
RunTyped ==
  /\ inputs \in Inputs /\ pc \in Steps \cup Ended /\ pass \in Passes
  /\ checkout \in Versions
  /\ core \in Core /\ active \subseteq Packages /\ faults \subseteq Faults
  /\ seen \in [requests : Requests, running : SUBSET Reviewers]
  /\ effort \in Tiers /\ decision \in Decisions \cup {Nothing}
  /\ usageInitial \in 0 .. 3 /\ usageFinal \in 0 .. 3
  /\ before \in BOOLEAN
  /\ package \in Request \cup {Nothing}
  /\ work \in Packages \cup Request \cup {Nothing}
  /\ failed \in (Passes \X Steps) \cup {Nothing}
  /\ calls \in Seq([whole : BOOLEAN, core : Core, gate : BOOLEAN]) /\ Len(calls) <= 3

(* Those that the world changes, too.                                      *)
WorldTyped ==
  /\ main \in Versions
  /\ pull \in [open : BOOLEAN, freeze : Freeze]
  /\ ci \subseteq Heads /\ verdicts \subseteq Heads
  /\ requests \in Requests /\ running \subseteq Reviewers
  /\ workers \in [Packages -> {"none", "active", "done"}]
  /\ disturbances \in 0 .. MaxDisturbances

LEMMA TypeParts == TypeOK <=> RunTyped /\ WorldTyped
  BY DEF TypeOK, RunTyped, WorldTyped

(* A collection reads typed parts.                                         *)
LEMMA CollectionTypes ==
  ASSUME TypeOK, CollectCore \/ CollectReviewers \/ CollectCodex
  PROVE  /\ core' \in Core /\ active' \subseteq Packages /\ faults' \subseteq Faults
         /\ seen' \in [requests : Requests, running : SUBSET Reviewers]
         /\ disturbances' \in 0 .. MaxDisturbances /\ disturbances <= disturbances'
<1>1. CASE CollectCore
    <2>1. PICK bad \in SUBSET {"branch", "pulls", "reviews", "canon"} :
            /\ Disturbed(Cardinality(bad))
            /\ faults' = bad \cup (IF "branch" \notin bad /\ main # checkout
                                    THEN {"main"} ELSE {})
            /\ core' = [pull |-> IF pull.open /\ "pulls" \notin bad
                                  THEN pull.freeze ELSE Nothing,
                         verdicts |-> IF pull.open /\ bad \cap {"pulls", "reviews"} = {}
                                      THEN verdicts ELSE {}]
        BY <1>1 DEF CollectCore, Goto
    <2>2. core' \in Core
        BY <2>1 DEF TypeOK, Core
    <2>3. faults' \subseteq Faults
        BY <2>1 DEF Faults
    <2>4. disturbances' \in 0 .. MaxDisturbances /\ disturbances <= disturbances'
        BY <2>1, SmallSets, Cost DEF TypeOK
    <2> QED
        BY <1>1, <2>2, <2>3, <2>4 DEF CollectCore, TypeOK, Goto
<1>2. CASE CollectReviewers
    <2>1. ASSUME NEW shown \in SUBSET Reviewers, NEW visible \in SUBSET Reviewers,
                 Shown(shown, visible)
          PROVE  seen' \in [requests : Requests, running : SUBSET Reviewers]
        BY <2>1 DEF Shown, TypeOK, Requests
    <2>2. seen' \in [requests : Requests, running : SUBSET Reviewers]
        BY <1>2, <2>1 DEF CollectReviewers, Goto
    <2>3. disturbances' \in 0 .. MaxDisturbances /\ disturbances <= disturbances'
        <3>1. CASE UNCHANGED disturbances
            BY <3>1 DEF TypeOK
        <3>2. ASSUME NEW visible \in SUBSET Reviewers,
                     Disturbed(Cardinality(Reviewers \ visible))
              PROVE  disturbances' \in 0 .. MaxDisturbances /\ disturbances <= disturbances'
            <4>1. Cardinality(Reviewers \ visible) \in Nat
                BY SmallSets
            <4> QED
                BY <3>2, <4>1, Cost DEF TypeOK
        <3> QED
            BY <1>2, <3>1, <3>2 DEF CollectReviewers, Goto
    <2>4. faults' \subseteq Faults
        BY <1>2 DEF CollectReviewers, TypeOK, Faults, Goto
    <2> QED
        BY <1>2, <2>2, <2>3, <2>4 DEF CollectReviewers, TypeOK, Goto
<1>3. CASE CollectCodex
    BY <1>3 DEF CollectCodex, TypeOK, Goto
<1> QED
    BY <1>1, <1>2, <1>3

LEMMA WorldKept ==
  ASSUME WorldTyped, UNCHANGED world, disturbances' \in 0 .. MaxDisturbances
  PROVE  WorldTyped'
  BY DEF WorldTyped, world

(* A call adds one to the sequence.                                        *)
LEMMA CallTypes ==
  ASSUME RunTyped, Ledger, pc = "sol", NEW status, Paid(status)
  PROVE  /\ calls' \in Seq([whole : BOOLEAN, core : Core, gate : BOOLEAN])
         /\ Len(calls') = Len(calls) + 1 /\ Len(calls') \in 1 .. 3
         /\ calls'[Len(calls')] = [whole |-> Complete, core |-> core, gate |-> status = "HUMAN_DECISION_REQUIRED"]
         /\ \A i \in DOMAIN calls : calls'[i] = calls[i]
<1> DEFINE c == [whole |-> Complete, core |-> core, gate |-> status = "HUMAN_DECISION_REQUIRED"]
<1>1. c \in [whole : BOOLEAN, core : Core, gate : BOOLEAN]
    BY DEF RunTyped, Complete
<1>2. calls \in Seq([whole : BOOLEAN, core : Core, gate : BOOLEAN]) /\ calls' = Append(calls, c)
    BY DEF RunTyped, Paid
<1>3. Len(calls) \in {0, 1, 2}
    BY DEF Ledger, CallsAre, Decided, Routed, Collecting
<1> HIDE DEF c
<1>4. /\ calls' \in Seq([whole : BOOLEAN, core : Core, gate : BOOLEAN]) /\ Len(calls') = Len(calls) + 1
      /\ calls'[Len(calls')] = c /\ \A i \in DOMAIN calls : calls'[i] = calls[i]
    BY <1>1, <1>2
<1>5. Len(calls') \in 1 .. 3
    <2>1. Len(calls') = Len(calls) + 1
        BY <1>4
    <2>2. \A n \in {0, 1, 2} : n + 1 \in 1 .. 3
        OBVIOUS
    <2> QED
        BY <1>3, <2>1, <2>2, Zenon
<1> QED
    BY <1>4, <1>5 DEF c

LEMMA CallAdds ==
  ASSUME RunTyped, Ledger, pc = "sol", \E status : Paid(status)
  PROVE  /\ calls' \in Seq([whole : BOOLEAN, core : Core, gate : BOOLEAN])
         /\ Len(calls') = Len(calls) + 1 /\ Len(calls') \in 0 .. 3 /\ Len(calls') <= 3
<1>1. PICK status : Paid(status)
    OBVIOUS
<1>2. /\ calls' \in Seq([whole : BOOLEAN, core : Core, gate : BOOLEAN])
      /\ Len(calls') = Len(calls) + 1 /\ Len(calls') \in 1 .. 3
    BY <1>1, CallTypes
<1>3. \A n \in 1 .. 3 : n \in 0 .. 3 /\ n <= 3
    OBVIOUS
<1> QED
    BY <1>2, <1>3, Zenon

LEMMA SolPays ==
  ASSUME (\E d \in Decisions : SolAnswers(d)) \/ SolFails
  PROVE  pc = "sol" /\ \E status : Paid(status)
  BY DEF SolAnswers, SolFails

(* A failure is noted at a step, and work is a package or a request.       *)
LEMMA FailureTypes ==
  ASSUME RunTyped, Cycle \/ Fails
  PROVE  failed' \in (Passes \X Steps) \cup {Nothing}
<1>1. pc \in Steps
    BY DEF Cycle, Fails, Start, CollectCore, CollectReviewers, CollectCodex, ValidateSnapshot,
       SolAnswers, SolFails, Escalate, Preliminary, Route, LookUpWorker, PostWorker, ObserveWorker,
       ResolveFreeze, BuildPackage, PublishRequest, RecordDispatch, Steps, Collecting, Routed
<1>2. failed' = failed \/ failed' = <<pass, pc>>
    BY DEF Cycle, Fails, Start, CollectCore, CollectReviewers, CollectCodex, ValidateSnapshot,
       SolAnswers, SolFails, Escalate, Preliminary, Route, LookUpWorker, PostWorker, ObserveWorker,
       ResolveFreeze, BuildPackage, PublishRequest, RecordDispatch, Delegates, Goto
<1> QED
    BY <1>1, <1>2 DEF RunTyped

(* Only two steps delegate.                                                *)
LEMMA WorkSteps ==
  ASSUME Delegation, Cycle \/ Fails
  PROVE  /\ PostWorker => work' \in Packages
         /\ PublishRequest => UNCHANGED work \/ (work' = package /\ package \in Request)
         /\ ~PostWorker /\ ~PublishRequest => UNCHANGED work
<1>1. ASSUME PostWorker PROVE work' \in Packages
    <2>1. decision \in Decisions /\ decision.status = "ENGINEERING_TASK" /\ work' = decision.item
        BY <1>1 DEF PostWorker, Delegation, Decided, Routed
    <2>2. decision.item \in Packages
        BY <2>1 DEF Decisions, Items
    <2> QED
        BY <2>1, <2>2
<1>2. ASSUME PublishRequest
      PROVE  UNCHANGED work \/ (work' = package /\ package \in Request)
    <2>1. package \in Request
        BY <1>2 DEF PublishRequest, Delegation
    <2>2. UNCHANGED work \/ work' = package
        BY <1>2 DEF PublishRequest
    <2> QED
        BY <2>1, <2>2
<1>3. ASSUME NEW d \in Decisions, SolAnswers(d)
      PROVE  UNCHANGED work
    BY <1>3 DEF SolAnswers
<1>4. ASSUME \/ Start \/ CollectCore \/ CollectReviewers \/ CollectCodex \/ ValidateSnapshot
             \/ SolFails \/ Escalate \/ Preliminary \/ Route \/ LookUpWorker
             \/ ObserveWorker \/ ResolveFreeze \/ BuildPackage \/ RecordDispatch \/ Fails
      PROVE  UNCHANGED work
    BY <1>4 DEF Start, CollectCore, CollectReviewers, CollectCodex, ValidateSnapshot, SolFails,
       Escalate, Preliminary, Route, LookUpWorker, ObserveWorker, ResolveFreeze, BuildPackage,
       RecordDispatch, Fails
<1>5. ASSUME ~PostWorker, ~PublishRequest PROVE UNCHANGED work
    BY <1>3, <1>4, <1>5 DEF Cycle
<1> QED
    BY <1>1, <1>2, <1>5

LEMMA CycleTypes ==
  ASSUME IInv, Cycle \/ Fails
  PROVE  TypeOK' /\ (main <= disturbances)'
<1> SUFFICES RunTyped' /\ WorldTyped' /\ (main <= disturbances)'
    BY DEF TypeOK, RunTyped, WorldTyped
<1> USE CycleAssumption
<1>0. TypeOK /\ RunTyped /\ WorldTyped /\ main <= disturbances /\ Ledger /\ Delegation
    BY TypeParts DEF IInv
<1>work. /\ work' \in Packages \cup Request \cup {Nothing}
      /\ failed' \in (Passes \X Steps) \cup {Nothing}
    BY <1>0, FailureTypes, WorkSteps DEF RunTyped
<1>1. CASE Start
    <2>1. UNCHANGED <<world, disturbances>> /\ pc' \in Steps \cup Ended /\ checkout' \in Versions
        BY <1>0, <1>1 DEF Start, WorldTyped, RunTyped, Steps, Ended, Collecting, Goto
    <2>2. WorldTyped' /\ (main <= disturbances)'
        BY <1>0, <2>1, WorldKept DEF WorldTyped, world
    <2>3. RunTyped'
        BY <1>0, <1>work, <1>1, <2>1 DEF Start, RunTyped, snapshot, usages, Goto
    <2> QED
        BY <2>2, <2>3
<1>2. CASE CollectCore \/ CollectReviewers \/ CollectCodex
    <2>1. pc' \in Steps \cup Ended
        BY <1>2 DEF CollectCore, CollectReviewers, CollectCodex, AfterCollection, Steps, Collecting, Goto
    <2>2. UNCHANGED <<world, setup, pass, effort, decision, usages, before, package, calls>>
        BY <1>2 DEF CollectCore, CollectReviewers, CollectCodex, Goto
    <2>3. /\ core' \in Core /\ active' \subseteq Packages /\ faults' \subseteq Faults
          /\ seen' \in [requests : Requests, running : SUBSET Reviewers]
          /\ disturbances' \in 0 .. MaxDisturbances /\ disturbances <= disturbances'
        BY <1>0, <1>2, CollectionTypes
    <2>4. WorldTyped' /\ (main <= disturbances)'
        BY <1>0, <2>2, <2>3, WorldKept DEF WorldTyped, world, Versions
    <2>5. RunTyped'
        BY <1>0, <1>work, <2>1, <2>2, <2>3 DEF RunTyped, setup, usages
    <2> QED
        BY <2>4, <2>5
<1>3. ASSUME NEW d \in Decisions, SolAnswers(d)
      PROVE  RunTyped' /\ WorldTyped' /\ (main <= disturbances)'
    <2>0. /\ calls' \in Seq([whole : BOOLEAN, core : Core, gate : BOOLEAN])
          /\ Len(calls') \in 0 .. 3 /\ Len(calls') <= 3
        BY <1>0, <1>3, SolPays, CallAdds
    <2>1. /\ UNCHANGED <<world, disturbances>> /\ pc = "sol" /\ WriteUsage
          /\ decision' = d /\ pc' = AfterCall[pass]
          /\ UNCHANGED <<setup, pass, snapshot, effort, before, package>>
        BY <1>3 DEF SolAnswers, Goto
    <2>2. pc' \in Steps \cup Ended
        BY <1>0, <2>1 DEF RunTyped, Passes, AfterCall, Steps
    <2>3. usageInitial' \in 0 .. 3 /\ usageFinal' \in 0 .. 3
        BY <1>0, <2>0, <2>1 DEF RunTyped, WriteUsage
    <2>4. WorldTyped' /\ (main <= disturbances)'
        BY <1>0, <2>1, WorldKept DEF WorldTyped, world
    <2>5. calls' \in Seq([whole : BOOLEAN, core : Core, gate : BOOLEAN]) /\ Len(calls') <= 3
        BY <2>0
    <2>6. RunTyped'
        BY <1>0, <1>work, <2>1, <2>2, <2>3, <2>5 DEF RunTyped, setup, snapshot
    <2> QED
        BY <2>4, <2>6
<1>4. CASE SolFails
    <2>0. /\ calls' \in Seq([whole : BOOLEAN, core : Core, gate : BOOLEAN])
          /\ Len(calls') \in 0 .. 3 /\ Len(calls') <= 3
        BY <1>0, <1>4, SolPays, CallAdds
    <2>1. /\ UNCHANGED <<world, setup, pass, snapshot, effort, decision, before, package>>
          /\ pc = "sol" /\ Disturbed(1) /\ (WriteUsage \/ UNCHANGED usages)
          /\ pc' = "red"
        BY <1>4 DEF SolFails, Goto
    <2>2. pc' \in Steps \cup Ended
        BY <2>1 DEF Ended
    <2>3. usageInitial' \in 0 .. 3 /\ usageFinal' \in 0 .. 3
        BY <1>0, <2>0, <2>1 DEF RunTyped, WriteUsage, usages
    <2>4. disturbances' \in 0 .. MaxDisturbances /\ disturbances' = disturbances + 1
        BY <1>0, <2>1, Cost
    <2>5. WorldTyped' /\ (main <= disturbances)'
        BY <1>0, <2>1, <2>4, WorldKept DEF WorldTyped, world, Versions
    <2>6. calls' \in Seq([whole : BOOLEAN, core : Core, gate : BOOLEAN]) /\ Len(calls') <= 3
        BY <2>0
    <2>7. RunTyped'
        BY <1>0, <1>work, <2>1, <2>2, <2>3, <2>6 DEF RunTyped, setup, snapshot
    <2> QED
        BY <2>5, <2>7
<1>5. CASE ValidateSnapshot \/ Escalate \/ Preliminary \/ Route
    <2>1. UNCHANGED <<world, setup, snapshot, decision, package, calls, disturbances>>
        BY <1>5 DEF ValidateSnapshot, Escalate, Preliminary, Route, usages, Goto
    <2>2. pc' \in Steps \cup Ended
        BY <1>5 DEF ValidateSnapshot, Escalate, Preliminary, Route, RouteOf, Steps, Ended,
           Collecting, Routed, Goto
    <2>3. effort' \in Tiers /\ pass' \in Passes /\ before' \in BOOLEAN
        BY <1>0, <1>5 DEF ValidateSnapshot, Escalate, Preliminary, Route, Target, RunTyped, Passes, Goto
    <2>4. usageInitial' \in 0 .. 3 /\ usageFinal' \in 0 .. 3
        BY <1>0, <1>5 DEF ValidateSnapshot, Escalate, Preliminary, Route, usages, RunTyped, Goto
    <2>5. WorldTyped' /\ (main <= disturbances)'
        BY <1>0, <2>1, WorldKept DEF WorldTyped, world
    <2>6. RunTyped'
        BY <1>0, <1>work, <2>1, <2>2, <2>3, <2>4 DEF RunTyped, setup, snapshot
    <2> QED
        BY <2>5, <2>6
<1>6. CASE LookUpWorker \/ PostWorker \/ ObserveWorker \/ ResolveFreeze \/ BuildPackage
             \/ PublishRequest \/ RecordDispatch
    <2>1. /\ UNCHANGED <<setup, pass, snapshot, effort, decision, usages, before, calls,
                         disturbances>>
          /\ UNCHANGED <<main, pull, ci, verdicts, running>>
        BY <1>6 DEF LookUpWorker, PostWorker, ObserveWorker, ResolveFreeze, BuildPackage,
           PublishRequest, RecordDispatch, Delegates, world, Goto
    <2>2. pc' \in Steps \cup Ended
        BY <1>6 DEF LookUpWorker, PostWorker, ObserveWorker, ResolveFreeze, BuildPackage,
           PublishRequest, RecordDispatch, Delegates, ObservedWorker, Steps, Ended, Routed, Goto
    <2>3. package' \in Request \cup {Nothing}
        <3>1. CASE ResolveFreeze
            <4>1. UNCHANGED package \/ package' = [kind |-> decision.item, freeze |-> pull.freeze]
                BY <3>1 DEF ResolveFreeze
            <4>2. decision.item \in Kinds
                BY <1>0, <3>1 DEF ResolveFreeze, Delegation, Decided, Routed, Decisions, Items
            <4> QED
                BY <1>0, <4>1, <4>2 DEF RunTyped, WorldTyped, Request
        <3> QED
            BY <1>0, <1>6, <3>1 DEF LookUpWorker, PostWorker, ObserveWorker, BuildPackage,
               PublishRequest, RecordDispatch, RunTyped
    <2>4. workers' \in [Packages -> {"none", "active", "done"}]
        BY <1>0, <1>6 DEF LookUpWorker, PostWorker, ObserveWorker, ResolveFreeze, BuildPackage,
           PublishRequest, RecordDispatch, WorldTyped, world
    <2>5. requests' \in Requests
        <3>1. CASE PublishRequest
            <4>1. package \in Request
                BY <1>0, <3>1 DEF PublishRequest, Delegation
            <4> QED
                BY <1>0, <3>1, <4>1 DEF PublishRequest, Requests, WorldTyped
        <3> QED
            BY <1>0, <1>6, <3>1 DEF LookUpWorker, PostWorker, ObserveWorker, ResolveFreeze,
               BuildPackage, RecordDispatch, WorldTyped, world
    <2>6. WorldTyped' /\ (main <= disturbances)'
        BY <1>0, <2>1, <2>4, <2>5 DEF WorldTyped
    <2>7. RunTyped'
        BY <1>0, <1>work, <2>1, <2>2, <2>3 DEF RunTyped, setup, snapshot, usages
    <2> QED
        BY <2>6, <2>7
<1>7. CASE Fails
    <2>1. /\ Disturbed(1) /\ pc' = "red"
          /\ UNCHANGED <<world, setup, pass, snapshot, effort, decision, usages,
                         before, package, calls>>
        BY <1>7 DEF Fails, Goto
    <2>2. disturbances' \in 0 .. MaxDisturbances /\ disturbances' = disturbances + 1
        BY <1>0, <2>1, Cost
    <2>3. WorldTyped' /\ (main <= disturbances)'
        BY <1>0, <2>1, <2>2, WorldKept DEF WorldTyped, world, Versions
    <2>4. RunTyped'
        BY <1>0, <1>work, <2>1 DEF RunTyped, setup, snapshot, usages, Ended
    <2> QED
        BY <2>3, <2>4
<1> QED
    BY <1>1, <1>2, <1>3, <1>4, <1>5, <1>6, <1>7 DEF Cycle

(* The world moves between typed states.                                   *)
LEMMA WorldTypes ==
  ASSUME IInv, Recompute \/ World
  PROVE  TypeOK' /\ (main <= disturbances)'
<1> SUFFICES RunTyped' /\ WorldTyped' /\ (main <= disturbances)'
    BY DEF TypeOK, RunTyped, WorldTyped
<1> USE CycleAssumption
<1>0. TypeOK /\ RunTyped /\ WorldTyped /\ main <= disturbances
    BY TypeParts DEF IInv
<1>1. UNCHANGED <<setup, pc, pass, snapshot, effort, decision, usages, before, package, work,
                  failed, calls>>
    BY DEF Recompute, World, Elsewhere
<1>2. RunTyped'
    BY <1>0, <1>1 DEF RunTyped, setup, snapshot, usages
<1>3. CASE Recompute
    <2> DEFINE now == [base |-> main, head |-> pull.freeze.head,
                       synthetic |-> [base |-> main, head |-> pull.freeze.head]]
    <2>1. now \in Freeze
        BY <1>0 DEF WorldTyped, Freeze
    <2>2. /\ pull' = [open |-> TRUE, freeze |-> now]
          /\ UNCHANGED <<main, ci, verdicts, requests, running, workers, disturbances>>
        BY <1>3 DEF Recompute
    <2> HIDE DEF now
    <2> QED
        BY <1>0, <1>2, <2>1, <2>2 DEF WorldTyped
<1>4. CASE World
    <2>1. disturbances' \in 0 .. MaxDisturbances /\ disturbances' = disturbances + 1
        BY <1>0, <1>4, Cost DEF World
    <2>2. main' \in Versions /\ main' <= disturbances'
        BY <1>0, <1>4, <2>1 DEF World, WorldTyped, Versions, MainMoves, PullCloses, HeadPushed,
           CIEnds, ExpertReviews, ReviewerRuns, RecoveryWrites, WorkerEnds
    <2>3. pull' \in [open : BOOLEAN, freeze : Freeze]
        <3>1. ASSUME NEW h \in Heads, HeadPushed(h)
              PROVE  pull' \in [open : BOOLEAN, freeze : Freeze]
            BY <1>0, <3>1 DEF HeadPushed, WorldTyped, Freeze
        <3>2. CASE PullCloses
            BY <1>0, <3>2 DEF PullCloses, WorldTyped
        <3> QED
            BY <1>0, <1>4, <3>1, <3>2 DEF World, WorldTyped, MainMoves, CIEnds, ExpertReviews,
               ReviewerRuns, RecoveryWrites, WorkerEnds
    <2>4. ci' \subseteq Heads /\ verdicts' \subseteq Heads
        BY <1>0, <1>4 DEF World, WorldTyped, MainMoves, PullCloses, HeadPushed,
           CIEnds, ExpertReviews, ReviewerRuns, RecoveryWrites, WorkerEnds
    <2>5. requests' \in Requests
        <3>1. ASSUME NEW kind \in Kinds, RecoveryWrites(kind)
              PROVE  requests' \in Requests
            <4>1. [kind |-> kind, freeze |-> pull.freeze] \in Request
                BY <1>0 DEF WorldTyped, Request
            <4> QED
                BY <1>0, <3>1, <4>1 DEF RecoveryWrites, WorldTyped, Requests
        <3> QED
            BY <1>0, <1>4, <3>1 DEF World, WorldTyped, MainMoves, PullCloses, HeadPushed,
               CIEnds, ExpertReviews, ReviewerRuns, WorkerEnds
    <2>6. running' \subseteq Reviewers
        BY <1>0, <1>4 DEF World, WorldTyped, MainMoves, PullCloses, HeadPushed,
           CIEnds, ExpertReviews, ReviewerRuns, RecoveryWrites, WorkerEnds
    <2>7. workers' \in [Packages -> {"none", "active", "done"}]
        BY <1>0, <1>4 DEF World, WorldTyped, MainMoves, PullCloses, HeadPushed,
           CIEnds, ExpertReviews, ReviewerRuns, RecoveryWrites, WorkerEnds
    <2> QED
        BY <1>2, <2>1, <2>2, <2>3, <2>4, <2>5, <2>6, <2>7 DEF WorldTyped
<1> QED
    BY <1>3, <1>4

-----------------------------------------------------------------------------
(* The ledger.                                                             *)
LEMMA LedgerStep ==
  ASSUME IInv, Cycle \/ Fails \/ Recompute \/ World
  PROVE  Ledger'
<1> USE DEF CallsAre
<1>0. Ledger /\ RunTyped
    BY TypeParts DEF IInv
<1>1. CASE Start
    BY <1>0, <1>1 DEF Start, Ledger, Collecting, Decided, Routed, usages, Goto
<1>2. CASE CollectCore \/ CollectReviewers \/ CollectCodex
    <2>1. /\ pc \in Collecting /\ pc' \in Collecting \cup {AfterCollection}
          /\ UNCHANGED <<pass, usages, before, calls>>
        BY <1>2 DEF CollectCore, CollectReviewers, CollectCodex, Collecting, Goto
    <2> QED
        BY <1>0, <2>1 DEF Ledger, Collecting, Decided, Routed, usages, AfterCollection
<1>3. CASE ValidateSnapshot
    BY <1>0, <1>3 DEF ValidateSnapshot, Ledger, Collecting, Decided, Routed, usages, Goto
<1>4. ASSUME NEW d \in Decisions, SolAnswers(d)
      PROVE  Ledger'
    <2>1. /\ pc = "sol" /\ WriteUsage /\ pc' = AfterCall[pass]
          /\ UNCHANGED <<pass, before>>
        BY <1>4 DEF SolAnswers, Goto
    <2>2. Len(calls') = Len(calls) + 1
        BY <1>0, <1>4, SolPays, CallAdds
    <2>3. CASE pass = "initial"
        <3>1. pc' = "escalate" /\ usageInitial' = Len(calls') /\ usageFinal' = usageFinal
            BY <2>1, <2>3 DEF AfterCall, WriteUsage
        <3>2. ~before /\ Len(calls) = 0 /\ usageFinal = 0
            BY <1>0, <2>1, <2>3 DEF Ledger, Collecting, Decided, Routed
        <3> QED
            BY <2>1, <2>2, <2>3, <3>1, <3>2 DEF Ledger
    <2>4. CASE pass = "escalated"
        <3>1. pc' = "preliminary" /\ usageInitial' = usageInitial /\ usageFinal' = Len(calls')
            BY <2>1, <2>4 DEF AfterCall, WriteUsage
        <3>2. ~before /\ Len(calls) = 1 /\ usageInitial = 1
            BY <1>0, <2>1, <2>4 DEF Ledger, Collecting, Decided, Routed
        <3> QED
            BY <2>1, <2>2, <2>4, <3>1, <3>2 DEF Ledger
    <2>5. CASE pass = "continuation"
        <3>1. pc' = "routing" /\ usageInitial' = usageInitial /\ usageFinal' = Len(calls')
            BY <2>1, <2>5 DEF AfterCall, WriteUsage
        <3>2. before /\ Len(calls) \in {1, 2} /\ usageInitial = 1
            BY <1>0, <2>1, <2>5 DEF Ledger, Collecting, Decided, Routed
        <3>3. pass' = "continuation" /\ before' /\ pc' \in Decided
            BY <2>1, <2>5, <3>1, <3>2 DEF Decided
        <3>4. CASE Len(calls) = 1
            BY <2>2, <3>1, <3>2, <3>3, <3>4 DEF Ledger
        <3>5. CASE Len(calls) = 2
            BY <2>2, <3>1, <3>2, <3>3, <3>5 DEF Ledger
        <3> QED
            BY <3>2, <3>4, <3>5
    <2> QED
        BY <1>0, <2>3, <2>4, <2>5 DEF RunTyped, Passes
<1>5. CASE SolFails \/ Fails
    <2>1. pc' = "red" /\ Len(calls') <= 3
        BY <1>0, <1>5, SolPays, CallAdds DEF SolFails, Fails, RunTyped, Goto
    <2> QED
        BY <2>1 DEF Ledger
<1>6. CASE Escalate
    <2>1. pc = "escalate" /\ pass = "initial" /\ ~before /\ CallsAre(1, 1, 0)
        BY <1>0, <1>6 DEF Escalate, Ledger, Collecting, Decided, Routed, Goto
    <2>2. UNCHANGED <<before, calls, usageInitial>>
        BY <1>6 DEF Escalate, Goto
    <2>3. \/ pass' = "escalated" /\ pc' = "sol" /\ usageFinal' = usageFinal
          \/ pass' = pass /\ pc' = "preliminary" /\ usageFinal' = usageInitial
        BY <1>6 DEF Escalate, Goto
    <2>4. CASE pass' = "escalated" /\ pc' = "sol" /\ usageFinal' = usageFinal
        BY <2>1, <2>2, <2>4 DEF Ledger
    <2>5. CASE pass' = pass /\ pc' = "preliminary" /\ usageFinal' = usageInitial
        <3>1. pass' = "initial" /\ ~before' /\ pc' \in {"preliminary"} \cup Decided
            BY <2>1, <2>2, <2>5
        <3>2. Len(calls') = 1 /\ usageInitial' = 1 /\ usageFinal' = 1
            BY <2>1, <2>2, <2>5
        <3> QED
            BY <3>1, <3>2 DEF Ledger
    <2> QED
        BY <2>3, <2>4, <2>5
<1>7. CASE Preliminary
    <2>1. /\ \/ pass = "initial" /\ CallsAre(1, 1, 1)
             \/ pass = "escalated" /\ CallsAre(2, 1, 2)
          /\ ~before
        BY <1>0, <1>7 DEF Preliminary, Ledger, Collecting, Decided, Routed, Goto
    <2>2. UNCHANGED <<calls, usageInitial, usageFinal>>
        BY <1>7 DEF Preliminary, usages, Goto
    <2>3. CASE before' = TRUE /\ pass' = "continuation" /\ pc' = "core"
        BY <2>1, <2>2, <2>3 DEF Ledger, Collecting
    <2>4. CASE UNCHANGED <<before, pass>> /\ pc' = "routing"
        <3>1. pc' \in {"preliminary"} \cup Decided
            BY <2>4 DEF Decided
        <3>2. CASE pass = "initial"
            BY <2>1, <2>2, <2>4, <3>1, <3>2 DEF Ledger
        <3>3. CASE pass = "escalated"
            BY <2>1, <2>2, <2>4, <3>1, <3>3 DEF Ledger
        <3> QED
            BY <2>1, <3>2, <3>3
    <2>5. CASE pc' = "red"
        <3>1. Len(calls') <= 3
            BY <1>0, <2>2 DEF RunTyped
        <3> QED
            BY <2>5, <3>1 DEF Ledger
    <2>6. \/ before' = TRUE /\ pass' = "continuation" /\ pc' = "core"
          \/ UNCHANGED <<before, pass>> /\ pc' = "routing"
          \/ pc' = "red"
        BY <1>7 DEF Preliminary, Goto
    <2> QED
        BY <2>3, <2>4, <2>5, <2>6
<1>8. CASE \/ Route \/ LookUpWorker \/ PostWorker \/ ObserveWorker
          \/ ResolveFreeze \/ BuildPackage \/ PublishRequest \/ RecordDispatch
    <2>1. /\ pc \in {"routing"} \cup Routed /\ pc' \in Decided \cup {"red"}
          /\ UNCHANGED <<pass, usages, before, calls>>
        BY <1>8 DEF Route, RouteOf, LookUpWorker, PostWorker, ObserveWorker, ResolveFreeze,
           BuildPackage, PublishRequest, RecordDispatch, Delegates, ObservedWorker, Decided, Routed,
           Goto
    <2>2. Len(calls') <= 3
        BY <1>0, <2>1 DEF RunTyped
    <2> QED
        BY <1>0, <2>1, <2>2 DEF Ledger, Collecting, Decided, Routed, usages
<1>9. CASE Recompute \/ World
    BY <1>0, <1>9 DEF Recompute, World, Elsewhere, Ledger, usages
<1> QED
    BY <1>1, <1>2, <1>3, <1>4, <1>5, <1>6, <1>7, <1>8, <1>9 DEF Cycle

-----------------------------------------------------------------------------
(* The evidence.                                                           *)
LEMMA EvidenceStep ==
  ASSUME IInv, Cycle \/ Fails \/ Recompute \/ World
  PROVE  Evidence'
<1>0. Evidence /\ Ledger /\ RunTyped
    BY TypeParts DEF IInv
<1> USE DEF Complete
<1>1. CASE \/ Start \/ CollectCore \/ CollectReviewers \/ CollectCodex \/ Fails
    <2>1. UNCHANGED <<calls, pass, before, effort>>
        BY <1>1 DEF Start, CollectCore, CollectReviewers, CollectCodex, Fails, Goto
    <2>2. \/ pc' \in {"no_spend", "red"} \cup Collecting \cup {"complete"}
          \/ pc' = "sol" /\ pass = "continuation"
        BY <1>1 DEF Start, CollectCore, CollectReviewers, CollectCodex, Fails, Collecting,
           AfterCollection, Goto
    <2>3. pc \in {"start"} \cup Collecting \/ pc' = "red"
        BY <1>1 DEF Start, CollectCore, CollectReviewers, CollectCodex, Fails, Collecting, Goto
    <2>4. pc' \notin {"escalate", "preliminary"} \cup Decided
        BY <2>2 DEF Decided, Routed, Collecting
    <2>5. ASSUME NEW i \in DOMAIN calls'
          PROVE  \/ calls'[i].whole
                 \/ before' /\ pass' = "continuation" /\ i = Len(calls') /\ pc' \in Decided \cup {"red"}
        BY <1>0, <2>1, <2>3, <2>5 DEF Evidence, Decided, Routed, Collecting
    <2>6. (Len(calls) > 0 /\ calls[1].gate) => pc' = "red" \/ effort = MAX
        BY <1>0, <2>3 DEF Evidence, Collecting
    <2> QED
        BY <2>1, <2>2, <2>4, <2>5, <2>6 DEF Evidence, Collecting
<1>2. CASE ValidateSnapshot
    <2>1. /\ UNCHANGED <<calls, pass, before, faults>> /\ pc = "complete"
          /\ (pc' = "sol" /\ Complete) \/ pc' = "red"
        BY <1>2 DEF ValidateSnapshot, snapshot, Goto
    <2>2. Len(calls) = 0
        BY <1>0, <2>1 DEF Ledger, CallsAre, Decided, Routed, Collecting
    <2> QED
        BY <1>0, <2>1, <2>2 DEF Evidence, Decided, Routed
<1>3. ASSUME NEW d \in Decisions, SolAnswers(d)
      PROVE  Evidence'
    <2> DEFINE gate == d.status = "HUMAN_DECISION_REQUIRED"
    <2>1. /\ pc = "sol" /\ Paid(d.status) /\ pc' = AfterCall[pass]
          /\ UNCHANGED <<pass, before, snapshot, effort>> /\ decision' = d
        BY <1>3 DEF SolAnswers, Goto
    <2>2. pass # "continuation" => Complete /\ pc' \in {"escalate", "preliminary"}
        BY <1>0, <2>1 DEF Evidence, AfterCall, RunTyped, Passes
    <2>3. pass = "continuation" => before /\ pc' = "routing"
        BY <1>0, <2>1 DEF Ledger, AfterCall, Decided, Routed, Collecting
    <2>4. /\ Len(calls') = Len(calls) + 1
          /\ calls'[Len(calls')] = [whole |-> Complete, core |-> core, gate |-> gate]
          /\ \A i \in DOMAIN calls : calls'[i] = calls[i]
        BY <1>0, <2>1, CallTypes
    <2>5. ASSUME NEW i \in DOMAIN calls'
          PROVE  \/ calls'[i].whole
                 \/ before' /\ pass' = "continuation" /\ i = Len(calls') /\ pc' \in Decided \cup {"red"}
        <3>1. i \in DOMAIN calls \/ i = Len(calls')
            BY <1>0, <2>1, <2>4 DEF Paid, RunTyped
        <3>2. i \in DOMAIN calls => calls[i].whole
            BY <1>0, <2>1 DEF Evidence, Decided, Routed
        <3>3. i = Len(calls') => calls'[i].whole = Complete
            BY <2>4
        <3> QED
            BY <2>1, <2>2, <2>3, <2>4, <3>1, <3>2, <3>3 DEF Decided
    <2>6. calls'[Len(calls')].core = core'
        BY <2>1, <2>4 DEF snapshot
    <2>7. CASE pass = "initial"
        <3>1. pc' = "escalate" /\ Len(calls) = 0
            BY <1>0, <2>1, <2>7 DEF AfterCall, Ledger, CallsAre, Decided, Routed, Collecting
        <3>2. calls'[1].gate = gate
            BY <2>4, <3>1
        <3> QED
            BY <2>1, <2>2, <2>3, <2>5, <2>6, <3>1, <3>2 DEF Evidence, snapshot, Decided, Routed
    <2>8. CASE pass # "initial"
        <3>1. Len(calls) \in {1, 2} /\ pc' # "escalate"
            BY <1>0, <2>1, <2>8 DEF AfterCall, Ledger, CallsAre, Decided, Routed, Collecting,
               RunTyped, Passes
        <3>2. 1 \in DOMAIN calls
            BY <1>0, <3>1 DEF RunTyped
        <3>3. calls'[1] = calls[1] /\ Len(calls) > 0
            BY <2>4, <3>1, <3>2
        <3>4. calls[1].gate => effort = MAX
            BY <1>0, <2>1, <3>3 DEF Evidence
        <3> QED
            BY <2>1, <2>2, <2>3, <2>5, <2>6, <3>1, <3>3, <3>4
               DEF Evidence, snapshot, Decided, Routed
    <2> QED
        BY <2>7, <2>8
<1>4. CASE SolFails
    <2>1. /\ pc = "sol" /\ Paid("NONE") /\ pc' = "red"
          /\ UNCHANGED <<pass, before, snapshot>>
        BY <1>4 DEF SolFails, Goto
    <2>2. pass = "continuation" => before
        BY <1>0, <2>1 DEF Ledger, Decided, Routed, Collecting
    <2>3. pass # "continuation" => Complete
        BY <1>0, <2>1 DEF Evidence
    <2>4. /\ calls'[Len(calls')] = [whole |-> Complete, core |-> core, gate |-> "NONE" = "HUMAN_DECISION_REQUIRED"]
          /\ \A i \in DOMAIN calls : calls'[i] = calls[i]
        BY <1>0, <2>1, CallTypes
    <2>5. ASSUME NEW i \in DOMAIN calls'
          PROVE  \/ calls'[i].whole
                 \/ before' /\ pass' = "continuation" /\ i = Len(calls') /\ pc' \in Decided \cup {"red"}
        <3>1. i \in DOMAIN calls \/ i = Len(calls')
            BY <1>0, <2>1 DEF Paid, RunTyped
        <3>2. i \in DOMAIN calls => calls[i].whole
            BY <1>0, <2>1 DEF Evidence, Decided, Routed
        <3>3. i = Len(calls') => calls'[i].whole = Complete
            BY <2>4
        <3> QED
            BY <2>1, <2>2, <2>3, <2>4, <3>1, <3>2, <3>3
    <2> QED
        BY <2>1, <2>5 DEF Evidence, Decided, Routed
<1>5. CASE Escalate
    <2>1. /\ pc = "escalate" /\ pass = "initial"
          /\ UNCHANGED <<calls, before, snapshot, decision>>
        BY <1>0, <1>5 DEF Escalate, Ledger, Decided, Routed, Collecting, Goto
    <2>2. /\ pass' \in {"initial", "escalated"} /\ pc' \in {"sol", "preliminary"}
          /\ pc' = "preliminary" => pass' = "initial"
        BY <2>1, <1>5 DEF Escalate, Goto
    <2>3. decision.status = "HUMAN_DECISION_REQUIRED" => effort' = MAX
        <3>1. effort \in Nat /\ MAX \in Nat /\ effort <= MAX
            BY <1>0, CycleAssumption DEF RunTyped
        <3>2. decision.status = "HUMAN_DECISION_REQUIRED" =>
                \/ MAX > effort /\ effort' = MAX
                \/ ~(MAX > effort) /\ effort' = effort
            BY <1>5 DEF Escalate, Target, Goto
        <3> QED
            BY <3>1, <3>2
    <2>4. /\ Complete /\ calls[Len(calls)].core = core
          /\ \A i \in DOMAIN calls : calls[i].whole
          /\ calls[1].gate = (decision.status = "HUMAN_DECISION_REQUIRED")
        BY <1>0, <2>1 DEF Evidence, Decided, Routed
    <2> QED
        BY <2>1, <2>2, <2>3, <2>4 DEF Evidence, snapshot, Decided, Routed
<1>6. CASE Preliminary
    <2>1. /\ pc = "preliminary" /\ pass # "continuation"
          /\ UNCHANGED <<calls, snapshot, decision, effort>>
        BY <1>0, <1>6 DEF Preliminary, Ledger, Decided, Routed, Collecting, Goto
    <2>2. \/ pass' = "continuation" /\ pc' = "core"
          \/ pass' = pass /\ pc' \in {"routing", "red"}
        BY <1>6 DEF Preliminary, Goto
    <2>3. /\ Complete /\ calls[Len(calls)].core = core
          /\ \A i \in DOMAIN calls : calls[i].whole
        BY <1>0, <2>1 DEF Evidence, Decided, Routed
    <2>4. (Len(calls) > 0 /\ calls[1].gate) => effort = MAX
        BY <1>0, <2>1 DEF Evidence
    <2> QED
        BY <2>1, <2>2, <2>3, <2>4 DEF Evidence, snapshot, Decided, Routed
<1>7. CASE \/ Route \/ LookUpWorker \/ PostWorker \/ ObserveWorker
          \/ ResolveFreeze \/ BuildPackage \/ PublishRequest \/ RecordDispatch
    <2>1. /\ pc \in {"routing"} \cup Routed /\ pc' \in Decided \cup {"red"}
          /\ UNCHANGED <<pass, before, calls, snapshot, effort, decision>>
        BY <1>7 DEF Route, RouteOf, LookUpWorker, PostWorker, ObserveWorker, ResolveFreeze,
           BuildPackage, PublishRequest, RecordDispatch, Delegates, ObservedWorker, Decided, Routed,
           Goto
    <2> QED
        BY <1>0, <2>1 DEF Evidence, snapshot, Decided, Routed
<1>8. CASE Recompute \/ World
    BY <1>0, <1>8 DEF Recompute, World, Elsewhere, Evidence, snapshot
<1> QED
    BY <1>1, <1>2, <1>3, <1>4, <1>5, <1>6, <1>7, <1>8 DEF Cycle

-----------------------------------------------------------------------------
(* The freezes.                                                            *)
LEMMA FreezesStep ==
  ASSUME IInv, Cycle \/ Fails \/ Recompute \/ World
  PROVE  Freezes'
<1>0. Freezes /\ Delegation /\ RunTyped /\ WorldTyped
    BY TypeParts DEF IInv
<1>1. ASSUME UNCHANGED <<requests, package, seen>>
      PROVE  Freezes'
    BY <1>0, <1>1 DEF Freezes
<1>2. CASE CollectReviewers
    <2>1. UNCHANGED <<requests, package>>
        BY <1>2 DEF CollectReviewers, world, Goto
    <2>2. PICK shown \in SUBSET Reviewers :
            seen'.requests = [r \in Reviewers |-> IF r \in shown THEN requests[r] ELSE Nothing]
        <3>1. ASSUME NEW shown \in SUBSET Reviewers, NEW visible \in SUBSET shown,
                     Shown(shown, visible)
              PROVE  seen'.requests = [r \in Reviewers |->
                                         IF r \in shown THEN requests[r] ELSE Nothing]
            BY <3>1 DEF Shown
        <3>2. \E shown \in SUBSET Reviewers : \E visible \in SUBSET shown : Shown(shown, visible)
            BY <1>2 DEF CollectReviewers, Goto
        <3> QED
            BY <3>1, <3>2
    <2> QED
        BY <1>0, <2>1, <2>2 DEF Freezes
<1>3. CASE ResolveFreeze
    <2>1. UNCHANGED <<requests, seen>>
        BY <1>3 DEF ResolveFreeze, Delegates, world, snapshot, Goto
    <2>2. \/ UNCHANGED package
          \/ package' = [kind |-> decision.item, freeze |-> pull.freeze] /\ Coherent(pull.freeze)
        BY <1>3 DEF ResolveFreeze
    <2>3. package' # Nothing => Coherent(package'.freeze)
        BY <1>0, <2>2 DEF Freezes
    <2> QED
        BY <1>0, <2>1, <2>3 DEF Freezes
<1>4. CASE PublishRequest
    <2>1. UNCHANGED <<package, seen>>
        BY <1>4 DEF PublishRequest, Delegates, snapshot, Goto
    <2>2. package \in Request /\ package # Nothing /\ requests \in [Reviewers -> Request \cup {Nothing}]
        BY <1>0, <1>4, CycleAssumption DEF PublishRequest, Delegation, WorldTyped, Requests
    <2>3. \/ UNCHANGED requests
          \/ requests' = [requests EXCEPT ![ReviewerOf(package.kind)] = package]
        BY <1>4 DEF PublishRequest
    <2> QED
        BY <1>0, <2>1, <2>2, <2>3 DEF Freezes
<1>5. ASSUME NEW kind \in Kinds, RecoveryWrites(kind), UNCHANGED <<package, snapshot>>
      PROVE  Freezes'
    <2> DEFINE written == [kind |-> kind, freeze |-> pull.freeze]
    <2>1. Coherent(written.freeze) /\ requests' = [requests EXCEPT ![ReviewerOf(kind)] = written]
        BY <1>5 DEF RecoveryWrites
    <2>2. requests \in [Reviewers -> Request \cup {Nothing}]
        BY <1>0 DEF WorldTyped, Requests
    <2> HIDE DEF written
    <2> QED
        BY <1>0, <1>5, <2>1, <2>2 DEF Freezes, snapshot
<1>6. CASE World
    <2>1. UNCHANGED <<package, snapshot>>
        BY <1>6 DEF World, Elsewhere
    <2>2. UNCHANGED requests \/ \E kind \in Kinds : RecoveryWrites(kind)
        BY <1>6 DEF World, MainMoves, PullCloses, HeadPushed, CIEnds, ExpertReviews,
           ReviewerRuns, WorkerEnds
    <2> QED
        BY <1>1, <1>5, <2>1, <2>2 DEF snapshot
<1>7. CASE \/ Start \/ CollectCore \/ CollectCodex \/ ValidateSnapshot
          \/ SolFails \/ Escalate \/ Preliminary \/ Route \/ LookUpWorker \/ PostWorker
          \/ ObserveWorker \/ BuildPackage \/ RecordDispatch \/ Fails \/ Recompute
    <2>1. UNCHANGED <<requests, package, seen>>
        BY <1>7 DEF Start, CollectCore, CollectCodex, ValidateSnapshot, SolFails,
           Escalate, Preliminary, Route, LookUpWorker, PostWorker, ObserveWorker,
           BuildPackage, RecordDispatch, Fails, Recompute, Elsewhere, Delegates, world, snapshot,
           Goto
    <2> QED
        BY <1>1, <2>1
<1>8. ASSUME NEW d \in Decisions, SolAnswers(d)
      PROVE  Freezes'
    <2>1. UNCHANGED <<requests, package, seen>>
        BY <1>8 DEF SolAnswers, world, snapshot, Goto
    <2> QED
        BY <1>1, <2>1
<1> QED
    BY <1>2, <1>3, <1>4, <1>6, <1>7, <1>8 DEF Cycle

-----------------------------------------------------------------------------
(* The delegation.                                                         *)

(* A candidate the package builder compared with the snapshot is the       *)
(* snapshot's, its base too: both freezes are coherent.                    *)
LEMMA SnapshotFreeze ==
  ASSUME RunTyped, Freezes, NEW f \in Freeze, Coherent(f), InSnapshot(f)
  PROVE  f = core.pull
<1>1. /\ core.pull # Nothing /\ core.pull.head = f.head /\ core.pull.synthetic = f.synthetic
      /\ seen.requests["deepseek"] # Nothing /\ seen.requests["deepseek"].freeze = core.pull
    BY DEF InSnapshot
<1>2. Coherent(core.pull)
    BY <1>1 DEF Freezes, Reviewers
<1>3. core.pull \in Freeze
    BY <1>1 DEF RunTyped, Core
<1>4. core.pull.base = f.base
    BY <1>1, <1>2 DEF Coherent
<1> QED
    BY <1>1, <1>3, <1>4 DEF Freeze

LEMMA DelegationStep ==
  ASSUME IInv, Cycle \/ Fails \/ Recompute \/ World
  PROVE  Delegation'
<1>0. Delegation /\ Freezes /\ RunTyped /\ WorldTyped
    BY TypeParts DEF IInv
<1>1. CASE \/ Start \/ CollectCore \/ CollectReviewers \/ CollectCodex \/ ValidateSnapshot
          \/ SolFails \/ Fails
    <2>1. UNCHANGED package
        BY <1>1 DEF Start, CollectCore, CollectReviewers, CollectCodex, ValidateSnapshot,
           SolFails, Fails, Goto
    <2>2. \/ pc' \in {"no_spend", "red"}
          \/ pc' \in {"core", "reviewers", "codex", "complete", "sol"} /\ package = Nothing
        BY <1>0, <1>1 DEF Start, CollectCore, CollectReviewers, CollectCodex, ValidateSnapshot,
           SolFails, Fails, Delegation, AfterCollection, Steps, Collecting, Routed, Goto
    <2> QED
        BY <2>1, <2>2 DEF Delegation, Decided, Routed, Steps, Collecting
<1>2. ASSUME NEW d \in Decisions, SolAnswers(d)
      PROVE  Delegation'
    <2>1. decision' \in Decisions /\ package' = Nothing
        BY <1>0, <1>2 DEF SolAnswers, Delegation, Steps, Routed, Goto
    <2>2. pc' \in {"escalate", "preliminary", "routing"}
        BY <1>0, <1>2 DEF SolAnswers, AfterCall, RunTyped, Passes, Goto
    <2> QED
        BY <2>1, <2>2 DEF Delegation
<1>3. CASE Escalate \/ Preliminary
    <2>1. decision' \in Decisions /\ package' = Nothing
        BY <1>0, <1>3 DEF Escalate, Preliminary, Delegation, Steps, Routed, Goto
    <2>2. pc' \in {"sol", "preliminary", "core", "routing", "red"}
        BY <1>3 DEF Escalate, Preliminary, Goto
    <2> QED
        BY <2>1, <2>2 DEF Delegation
<1>4. CASE Route
    <2>1. decision \in Decisions /\ package = Nothing /\ UNCHANGED <<decision, package>>
        BY <1>0, <1>4 DEF Route, Delegation, Decided, Goto
    <2>2. \/ pc' = "dispatch" /\ decision.status = "ENGINEERING_TASK"
          \/ pc' = "freeze" /\ decision.status = "REVIEW_TASK"
          \/ pc' \in {"green", "red"}
        BY <1>4 DEF Route, RouteOf, Goto
    <2> QED
        BY <2>1, <2>2 DEF Delegation
<1>5. CASE LookUpWorker \/ PostWorker \/ ObserveWorker
    <2>1. /\ decision \in Decisions /\ decision.status = "ENGINEERING_TASK"
          /\ package = Nothing /\ UNCHANGED <<decision, package>>
        BY <1>0, <1>5 DEF LookUpWorker, PostWorker, ObserveWorker, Delegates, Delegation, Decided, Routed, Goto
    <2>2. pc' \in {"post", "observe", "green", "red"}
        BY <1>5 DEF LookUpWorker, PostWorker, ObserveWorker, Delegates, ObservedWorker, Goto
    <2> QED
        BY <2>1, <2>2 DEF Delegation
<1>6. CASE ResolveFreeze
    <2>1. /\ decision \in Decisions /\ decision.status = "REVIEW_TASK" /\ package = Nothing
          /\ UNCHANGED decision
        BY <1>0, <1>6 DEF ResolveFreeze, Delegates, Delegation, Decided, Routed, Goto
    <2>2. decision.item \in Kinds
        BY <2>1 DEF Decisions, Items
    <2>3. \/ pc' = "quality" /\ package' = [kind |-> decision.item, freeze |-> pull.freeze]
          \/ pc' = "red"
        BY <1>6 DEF ResolveFreeze, Delegates, Goto
    <2>4. pc' = "quality" => package' \in Request /\ package'.kind = decision'.item
        BY <1>0, <2>1, <2>2, <2>3 DEF Request, WorldTyped
    <2> QED
        BY <2>1, <2>3, <2>4 DEF Delegation, Decided, Routed, Steps, Collecting
<1>7. CASE BuildPackage
    <2>1. /\ decision \in Decisions /\ decision.status = "REVIEW_TASK" /\ package \in Request
          /\ package.kind = decision.item /\ UNCHANGED <<decision, package, core>>
        BY <1>0, <1>7 DEF BuildPackage, Delegates, Delegation, Decided, Routed, snapshot, Goto
    <2>2. \/ pc' = "red"
          \/ /\ pc' \in {"green", "publish"}
             /\ InSnapshot(package.freeze) /\ ExpertFirst(package.kind, package.freeze)
        BY <1>7 DEF BuildPackage, Delegates, Goto
    <2>3. package # Nothing /\ package.freeze \in Freeze
        BY <2>1, CycleAssumption DEF Request
    <2>4. InSnapshot(package.freeze) => package.freeze = core.pull
        BY <1>0, <2>3, SnapshotFreeze DEF Freezes
    <2>5. pc' \in {"green", "publish"} =>
            /\ package.freeze = core.pull
            /\ package.kind = "coder" => package.freeze.head \in core.verdicts
        BY <2>2, <2>4 DEF ExpertFirst
    <2>6. pc' \in {"green", "publish", "red"}
        BY <2>2
    <2> QED
        BY <2>1, <2>5, <2>6 DEF Delegation, Decided, Routed, Steps, Collecting
<1>8. CASE PublishRequest
    <2>1. /\ decision \in Decisions /\ decision.status = "REVIEW_TASK"
          /\ package \in Request /\ package.kind = decision.item
          /\ UNCHANGED <<decision, package, core>> /\ pc = "publish"
          /\ pc' \in {"published", "red"}
        BY <1>0, <1>8 DEF PublishRequest, Delegates, Delegation, Decided, Routed, snapshot, Goto
    <2>2. package # Nothing =>
            /\ package.freeze = core.pull
            /\ package.kind = "coder" => package.freeze.head \in core.verdicts
        BY <1>0, <2>1 DEF Delegation
    <2> QED
        BY <2>1, <2>2 DEF Delegation, Decided, Routed, Steps, Collecting
<1>9. CASE RecordDispatch
    <2>1. /\ decision \in Decisions /\ UNCHANGED <<decision, package, core>> /\ pc = "published"
          /\ pc' = "green"
        BY <1>0, <1>9 DEF RecordDispatch, Delegates, Delegation, Decided, Routed, snapshot, Goto
    <2> QED
        BY <1>0, <2>1 DEF Delegation, Decided, Routed, Steps, Collecting
<1>10. CASE Recompute \/ World
    BY <1>0, <1>10 DEF Recompute, World, Elsewhere, Delegation, snapshot
<1> QED
    BY <1>1, <1>2, <1>3, <1>4, <1>5, <1>6, <1>7, <1>8, <1>9, <1>10 DEF Cycle

-----------------------------------------------------------------------------
(* What was delegated, and what a failed run had paid.                     *)

(* The calls at the two steps that delegate.                               *)
LEMMA ChargedWhenDecided ==
  ASSUME Ledger, pc \in Decided
  PROVE  Charged
<1>1. \/ pass = "initial" /\ ~before /\ CallsAre(1, 1, 1)
      \/ pass = "escalated" /\ ~before /\ CallsAre(2, 1, 2)
      \/ pass = "continuation" /\ before /\ (CallsAre(2, 1, 2) \/ CallsAre(3, 1, 3))
    BY DEF Ledger, Decided, Routed, Collecting
<1> QED
    BY <1>1 DEF Charged

LEMMA DelegatedStep ==
  ASSUME IInv, Cycle \/ Fails \/ Recompute \/ World
  PROVE  Delegated'
<1>0. Delegated /\ Delegation /\ Ledger /\ RunTyped
    BY TypeParts DEF IInv
<1>1. CASE PostWorker
    <2>1. /\ pc = "post" /\ pc' = "observe" /\ UNCHANGED <<usages, before, calls>>
          /\ work' \in Packages
        BY <1>0, <1>1, WorkSteps DEF Cycle, PostWorker, Delegates, Goto
    <2>2. Charged'
        BY <1>0, <2>1, ChargedWhenDecided DEF Decided, Routed, Charged, CallsAre, usages
    <2> QED
        BY <2>1, <2>2, CycleAssumption DEF Delegated
<1>2. CASE PublishRequest
    <2>1. /\ pc = "publish" /\ UNCHANGED <<usages, before, calls, package>>
          /\ \/ pc' = "red" /\ UNCHANGED work
             \/ pc' = "published" /\ work' = package
        BY <1>2 DEF PublishRequest, Delegates, Goto
    <2>2. Charged'
        BY <1>0, <2>1, ChargedWhenDecided DEF Decided, Routed, Charged, CallsAre, usages
    <2> QED
        BY <2>1, <2>2 DEF Delegated
<1>3. CASE \/ LookUpWorker \/ ObserveWorker \/ ResolveFreeze \/ BuildPackage \/ RecordDispatch
          \/ Route \/ Fails
    <2>1. /\ UNCHANGED <<usages, before, calls, work>>
          /\ pc' \notin {"observe", "published"}
          /\ pc \in {"observe", "published"} => pc' \in {"green", "red"}
        BY <1>3 DEF LookUpWorker, ObserveWorker, ResolveFreeze, BuildPackage, RecordDispatch, Route,
           RouteOf, Fails, Delegates, ObservedWorker, Goto
    <2>2. pc \in Steps
        BY <1>3 DEF LookUpWorker, ObserveWorker, ResolveFreeze, BuildPackage, RecordDispatch, Route,
           Fails, Steps, Routed
    <2>3. work # Nothing => Charged'
        BY <1>0, <2>1 DEF Delegated, Charged, CallsAre, usages
    <2>4. work # Nothing => pc' \in {"green", "red"}
        BY <1>0, <2>1, <2>2 DEF Delegated, Steps, Collecting, Routed
    <2> QED
        BY <2>1, <2>3, <2>4 DEF Delegated
<1>4. ASSUME \/ Start \/ CollectCore \/ CollectReviewers \/ CollectCodex \/ ValidateSnapshot
             \/ SolFails \/ Escalate \/ Preliminary \/ \E d \in Decisions : SolAnswers(d)
      PROVE  Delegated'
    <2>1. pc \in {"start", "complete", "sol", "escalate", "preliminary"} \cup Collecting
        BY <1>4 DEF Start, CollectCore, CollectReviewers, CollectCodex, ValidateSnapshot,
           SolFails, Escalate, Preliminary, SolAnswers, Collecting
    <2>2. UNCHANGED work
        BY <1>4 DEF Start, CollectCore, CollectReviewers, CollectCodex, ValidateSnapshot,
           SolFails, Escalate, Preliminary, SolAnswers
    <2>3. pc' \notin {"observe", "published"}
        BY <1>0, <1>4 DEF Start, CollectCore, CollectReviewers, CollectCodex, ValidateSnapshot,
           SolFails, Escalate, Preliminary, SolAnswers, Goto, AfterCollection, AfterCall, RunTyped,
           Passes
    <2>4. work = Nothing
        BY <1>0, <2>1 DEF Delegated, Collecting
    <2> QED
        BY <2>2, <2>3, <2>4 DEF Delegated
<1>5. CASE Recompute \/ World
    <2>1. UNCHANGED <<pc, before, usages, calls, work, package>>
        BY <1>5 DEF Recompute, World, Elsewhere
    <2> QED
        BY <1>0, <2>1 DEF Delegated, Charged, CallsAre, usages
<1> QED
    BY <1>1, <1>2, <1>3, <1>4, <1>5 DEF Cycle

LEMMA FailuresStep ==
  ASSUME IInv, Cycle \/ Fails \/ Recompute \/ World
  PROVE  Failures'
<1>0. Failures /\ Delegated /\ Ledger /\ RunTyped
    BY TypeParts DEF IInv
<1>1. CASE Recompute \/ World
    <2>1. UNCHANGED <<pc, failed, calls, work>>
        BY <1>1 DEF Recompute, World, Elsewhere
    <2> QED
        BY <1>0, <2>1 DEF Failures
<1>2. ASSUME Cycle \/ Fails, pc' = "red"
      PROVE  Failures'
    <2>1. failed' = <<pass, pc>>
        BY <1>2 DEF Cycle, Fails, Start, CollectCore, CollectReviewers, CollectCodex, ValidateSnapshot,
           SolAnswers, SolFails, Escalate, Preliminary, Route, LookUpWorker, PostWorker,
           ObserveWorker, ResolveFreeze, BuildPackage, PublishRequest, RecordDispatch, Delegates, Goto
    <2>2. CASE pass = "initial" /\ pc = "complete"
        <3>1. Len(calls) = 0 /\ work = Nothing
            BY <1>0, <2>2 DEF Ledger, CallsAre, Delegated, Decided, Routed, Collecting
        <3>2. UNCHANGED <<calls, work>>
            BY <1>2, <2>2 DEF Cycle, Fails, Start, CollectCore, CollectReviewers, CollectCodex,
               ValidateSnapshot, SolAnswers, SolFails, Escalate, Preliminary, Route, LookUpWorker,
               PostWorker, ObserveWorker, ResolveFreeze, BuildPackage, PublishRequest, RecordDispatch
        <3> QED
            BY <2>1, <2>2, <3>1, <3>2 DEF Failures
    <2>3. CASE pass = "initial" /\ pc = "sol"
        <3>1. Len(calls) = 0 /\ work = Nothing
            BY <1>0, <2>3 DEF Ledger, CallsAre, Delegated, Decided, Routed, Collecting
        <3>2. (\E status : Paid(status)) /\ UNCHANGED work
            BY <1>2, <2>3 DEF Cycle, Fails, Start, CollectCore, CollectReviewers, CollectCodex,
               ValidateSnapshot, SolAnswers, SolFails, Escalate, Preliminary, Route, LookUpWorker,
               PostWorker, ObserveWorker, ResolveFreeze, BuildPackage, PublishRequest, RecordDispatch
        <3>3. Len(calls') = Len(calls) + 1
            BY <1>0, <2>3, <3>2, CallTypes
        <3>4. Len(calls') = 1
            BY <3>1, <3>3
        <3> QED
            BY <2>1, <2>3, <3>1, <3>2, <3>4 DEF Failures
    <2>4. CASE <<pass, pc>> \notin {<<"initial", "complete">>, <<"initial", "sol">>}
        BY <2>1, <2>4 DEF Failures
    <2> QED
        BY <2>2, <2>3, <2>4
<1>3. CASE pc' # "red"
    BY <1>3 DEF Failures
<1> QED
    BY <1>1, <1>2, <1>3

-----------------------------------------------------------------------------
LEMMA NextInv == IInv /\ [Next]_vars => IInv'
<1> SUFFICES ASSUME IInv, [Next]_vars PROVE IInv'
    OBVIOUS
<1>1. CASE Cycle \/ Fails
    BY <1>1, CycleTypes, LedgerStep, EvidenceStep, DelegationStep, FreezesStep, DelegatedStep,
       FailuresStep DEF IInv
<1>2. CASE Recompute \/ World
    BY <1>2, WorldTypes, LedgerStep, EvidenceStep, DelegationStep, FreezesStep, DelegatedStep,
       FailuresStep DEF IInv
<1>3. CASE UNCHANGED vars
    BY <1>3 DEF vars, world, setup, snapshot, usages, IInv, TypeOK, Ledger, CallsAre, Evidence,
       Complete, Delegation, Freezes, Delegated, Charged, Failures
<1> QED
    BY <1>1, <1>2, <1>3 DEF Next

LEMMA Invariance == Spec => []IInv
<1>1. IInv /\ [Next]_vars => IInv'
    BY NextInv
<1> QED
    BY InitInv, <1>1, PTL DEF Spec

(* The variables of a run keep their types.                                *)
THEOREM CycleTypeOK == Spec => []TypeOK
<1>1. IInv => TypeOK
    BY DEF IInv
<1> QED
    BY Invariance, <1>1, PTL

(* How many usages two files hold.                                         *)
LEMMA TwoSizes ==
  Cardinality({1, 1} \ {0}) = 1 /\ Cardinality({1, 2} \ {0}) = 2
    /\ Cardinality({1, 3} \ {0}) = 2
<1>1. IsFiniteSet({1}) /\ Cardinality({1}) = 1
    BY FS_Singleton
<1>2. Cardinality({1} \cup {2}) = 2 /\ Cardinality({1} \cup {3}) = 2
    BY <1>1, FS_AddElement
<1>3. /\ {1, 1} \ {0} = {1} /\ {1, 2} \ {0} = {1} \cup {2}
      /\ {1, 3} \ {0} = {1} \cup {3}
    OBVIOUS
<1> QED
    BY <1>1, <1>2, <1>3

(* What architect_cost reads off the two usage files, the one that may be  *)
(* written over included, covers the calls of a run that delegated or is   *)
(* green, and stays within the three that the completion gate reserves.    *)
THEOREM CallsOfGreenRuns == Spec => []CallsCounted
<1>1. ASSUME IInv, work # Nothing \/ pc = "green"
      PROVE  Len(calls) <= ArchitectSolCalls /\ ArchitectSolCalls <= 3
    <2>1. Charged
        BY <1>1, ChargedWhenDecided DEF IInv, Delegated, Decided
    <2>2. CASE ~before /\ CallsAre(1, 1, 1)
        BY <2>2, TwoSizes DEF CallsAre, ArchitectSolCalls, Recorded
    <2>3. CASE ~before /\ CallsAre(2, 1, 2)
        BY <2>3, TwoSizes DEF CallsAre, ArchitectSolCalls, Recorded
    <2>4. CASE before /\ CallsAre(2, 1, 2)
        BY <2>4, TwoSizes DEF CallsAre, ArchitectSolCalls, Recorded
    <2>5. CASE before /\ CallsAre(3, 1, 3)
        BY <2>5, TwoSizes DEF CallsAre, ArchitectSolCalls, Recorded
    <2> QED
        BY <2>1, <2>2, <2>3, <2>4, <2>5 DEF Charged
<1>2. IInv => CallsCounted
    BY <1>1 DEF CallsCounted
<1> QED
    BY Invariance, <1>2, PTL

(* The candidate of a reviewer package is the one in the evidence of the   *)
(* last paid call, and the Coder's has the Expert's verdict there.         *)
THEOREM CandidateOfTheDecision == Spec => []PackageIsWhatSolSaw
<1>1. IInv => PackageIsWhatSolSaw
    <2> SUFFICES ASSUME IInv, package # Nothing, pc \in {"publish", "green"}
                 PROVE  /\ package.freeze = calls[Len(calls)].core.pull
                        /\ Coherent(package.freeze)
                        /\ package.kind = "coder" =>
                             package.freeze.head \in calls[Len(calls)].core.verdicts
        BY DEF PackageIsWhatSolSaw
    <2>1. calls[Len(calls)].core = core
        BY DEF IInv, Evidence, Decided, Routed
    <2> QED
        BY <2>1 DEF IInv, Delegation, Freezes
<1> QED
    BY Invariance, <1>1, PTL

(* A human gate that the first answer raised surfaces from a call at the   *)
(* highest effort only.                                                    *)
THEOREM HumanGates == Spec => []HumanGateReexamined
<1>1. ASSUME IInv, pc = "green", decision.status = "HUMAN_DECISION_REQUIRED", calls[1].gate
      PROVE  effort = MAX
    <2>1. Len(calls) \in {1, 2, 3}
        BY <1>1 DEF IInv, Ledger, CallsAre, Collecting
    <2> QED
        BY <1>1, <2>1 DEF IInv, Evidence
<1>2. IInv => HumanGateReexamined
    BY <1>1 DEF HumanGateReexamined
<1> QED
    BY Invariance, <1>2, PTL

(* Money is spent on incomplete evidence by the last call at most.         *)
THEOREM EvidenceOfCalls == Spec => []PaidOnCompleteEvidence
<1>1. IInv => PaidOnCompleteEvidence
    BY DEF IInv, Evidence, PaidOnCompleteEvidence
<1> QED
    BY Invariance, <1>1, PTL

(* A run in execute modes becomes green only at a boundary.                *)
THEOREM GreenRunsDelegated == Spec => GreenIsBoundary
<1> DEFINE Boundary ==
      CASE decision.status = "ENGINEERING_TASK" -> workers'[decision.item] = "active"
        [] decision.status = "REVIEW_TASK" ->
             package # Nothing /\ work = package
        [] decision.status = "WAITING_AGENT" -> WaitMatches
        [] OTHER -> decision.status # "RECONSTRUCTION_REQUIRED"
<1>1. ASSUME IInv, Next, pc # "green", pc' = "green",
             inputs.codex = "execute", inputs.review = "execute"
      PROVE  Boundary
    <2>1. Delegation /\ RunTyped /\ WorldTyped
        BY <1>1, TypeParts DEF IInv
    <2>2. CASE Route
        <3>1. \/ decision.status = "WAITING_AGENT" /\ WaitMatches
              \/ decision.status \in {"HUMAN_DECISION_REQUIRED", "PROGRAM_COMPLETE"}
            BY <1>1, <2>2 DEF Route, RouteOf, Valid, Goto
        <3>2. CASE decision.status = "WAITING_AGENT" /\ WaitMatches
            BY <3>2
        <3>3. CASE decision.status \in {"HUMAN_DECISION_REQUIRED", "PROGRAM_COMPLETE"}
            BY <3>3
        <3> QED
            BY <3>1, <3>2, <3>3
    <2>3. CASE LookUpWorker \/ ObserveWorker
        <3>1. decision.status = "ENGINEERING_TASK"
            BY <2>1, <2>3 DEF LookUpWorker, ObserveWorker, Delegation
        <3>2. workers'[decision.item] = "active"
            BY <1>1, <2>3 DEF LookUpWorker, ObserveWorker, Delegates, ObservedWorker, world, Goto
        <3> QED
            BY <3>1, <3>2
    <2>4. CASE RecordDispatch
        <3>1. decision.status = "REVIEW_TASK" /\ package \in Request /\ work = package
            BY <1>1, <2>1, <2>4 DEF RecordDispatch, Delegation, IInv, Delegated
        <3>2. package # Nothing
            BY <3>1, CycleAssumption
        <3> QED
            BY <3>1, <3>2
    <2>5. CASE BuildPackage
        BY <1>1, <2>5 DEF BuildPackage, Delegates, Goto
    <2>6. ASSUME NEW d \in Decisions, SolAnswers(d)
          PROVE  FALSE
        BY <1>1, <2>1, <2>6 DEF SolAnswers, AfterCall, RunTyped, Passes, Goto
    <2>7. CASE Start \/ CollectCore \/ CollectReviewers \/ CollectCodex \/ ValidateSnapshot
               \/ SolFails \/ Escalate \/ Preliminary \/ PostWorker \/ ResolveFreeze
               \/ PublishRequest \/ Fails \/ Recompute \/ World
        BY <1>1, <2>7 DEF Start, CollectCore, CollectReviewers, CollectCodex, AfterCollection,
           ValidateSnapshot, SolFails, Escalate, Preliminary, PostWorker, ResolveFreeze,
           PublishRequest, Fails, Recompute, World, Elsewhere, Delegates, Goto
    <2> QED
        BY <1>1, <2>2, <2>3, <2>4, <2>5, <2>6, <2>7 DEF Next, Cycle
<1> DEFINE Becomes ==
      (pc # "green" /\ pc' = "green" /\ inputs.codex = "execute"
         /\ inputs.review = "execute") => Boundary
<1>2. IInv /\ [Next]_vars => [Becomes]_vars
    BY <1>1
<1>3. Spec => [][Becomes]_vars
    <2> HIDE DEF Becomes
    <2> QED
        BY Invariance, <1>2, PTL DEF Spec
<1> QED
    BY <1>3 DEF GreenIsBoundary

-----------------------------------------------------------------------------
(* The run as the workflows around it take it.                             *)

(* What is charged was paid, for some choice of the later passes.          *)
LEMMA ChargeIsOfPasses ==
  ASSUME Charged
  PROVE  \E p \in AsRun!Passes : /\ Len(calls) = AsRun!TrueSolCalls(p)
                                 /\ ArchitectSolCalls = AsRun!ArchitectSolCalls(p)
<1> DEFINE P(e, r) == [escalated |-> e, reconstructed |-> r]
<1>1. /\ \A e, r \in BOOLEAN : P(e, r) \in AsRun!Passes
      /\ AsRun!TrueSolCalls(P(FALSE, FALSE)) = 1 /\ AsRun!ArchitectSolCalls(P(FALSE, FALSE)) = 1
      /\ AsRun!TrueSolCalls(P(TRUE, FALSE)) = 2 /\ AsRun!ArchitectSolCalls(P(TRUE, FALSE)) = 2
      /\ AsRun!TrueSolCalls(P(FALSE, TRUE)) = 2 /\ AsRun!ArchitectSolCalls(P(FALSE, TRUE)) = 3
      /\ AsRun!TrueSolCalls(P(TRUE, TRUE)) = 3 /\ AsRun!ArchitectSolCalls(P(TRUE, TRUE)) = 3
    BY DEF AsRun!Passes, AsRun!TrueSolCalls, AsRun!ArchitectSolCalls, AsRun!RecordedUsages,
       AsRun!ReservesOverwrittenPass
<1> HIDE DEF P
<1>2. CASE ~before /\ CallsAre(1, 1, 1)
    <2>1. Len(calls) = 1 /\ ArchitectSolCalls = 1
        BY <1>2, TwoSizes DEF CallsAre, ArchitectSolCalls, Recorded
    <2> QED
        BY <1>1, <2>1
<1>3. CASE ~before /\ CallsAre(2, 1, 2)
    <2>1. Len(calls) = 2 /\ ArchitectSolCalls = 2
        BY <1>3, TwoSizes DEF CallsAre, ArchitectSolCalls, Recorded
    <2> QED
        BY <1>1, <2>1
<1>4. CASE before /\ CallsAre(2, 1, 2)
    <2>1. Len(calls) = 2 /\ ArchitectSolCalls = 3
        BY <1>4, TwoSizes DEF CallsAre, ArchitectSolCalls, Recorded
    <2> QED
        BY <1>1, <2>1
<1>5. CASE before /\ CallsAre(3, 1, 3)
    <2>1. Len(calls) = 3 /\ ArchitectSolCalls = 3
        BY <1>5, TwoSizes DEF CallsAre, ArchitectSolCalls, Recorded
    <2> QED
        BY <1>1, <2>1
<1> QED
    BY <1>2, <1>3, <1>4, <1>5 DEF Charged

LEMMA RunStarts == Init => AsRun!Init
  BY DEF Init, AsRun!Init, OutcomeOf, Ended

(* A run that is going on has no outcome, and what it is charged depends   *)
(* on few variables.                                                       *)
LEMMA QuietStep ==
  ASSUME IInv,
         \/ pc = pc' /\ UNCHANGED <<failed, decision, package, usages, before>>
         \/ pc \notin Ended /\ pc' \notin Ended /\ (work = Nothing \/ UNCHANGED <<usages, before>>),
         UNCHANGED <<work, calls>>
  PROVE  UNCHANGED AsRun!runVars
<1>1. OutcomeOf' = OutcomeOf /\ (pc \in Ended)' = (pc \in Ended)
    BY DEF OutcomeOf, PreSpendEvidence, PostSpendEvidence, usages
<1>2. (IF work # Nothing THEN ArchitectSolCalls ELSE 0)'
        = IF work # Nothing THEN ArchitectSolCalls ELSE 0
    BY DEF ArchitectSolCalls, Recorded, usages
<1> QED
    BY <1>1, <1>2 DEF AsRun!runVars

LEMMA CallStep ==
  ASSUME IInv, NEW d \in Decisions, SolAnswers(d)
  PROVE  AsRun!Calls
<1>0. RunTyped /\ RunTyped' /\ Ledger /\ Delegated
    BY TypeParts, CycleTypes DEF IInv, Cycle, TypeOK, RunTyped
<1>1. pc = "sol" /\ pc' \in {"escalate", "preliminary", "routing"} /\ UNCHANGED work
    BY <1>0 DEF SolAnswers, Goto, AfterCall, RunTyped, Passes
<1>2. pc \notin Ended /\ pc' \notin Ended
    BY <1>1 DEF Ended
<1>3. work = Nothing
    BY <1>0, <1>1 DEF Delegated
<1>4. Len(calls') = Len(calls) + 1 /\ Len(calls') <= 3 /\ Len(calls) \in Nat
    BY <1>0, SolPays, CallAdds DEF RunTyped
<1>5. Len(calls) < 3
    BY <1>4
<1>6. OutcomeOf = "none" /\ OutcomeOf' = "none"
    BY <1>2 DEF OutcomeOf
<1> QED
    BY <1>1, <1>2, <1>3, <1>4, <1>5, <1>6 DEF AsRun!Calls, AsRun!Free

LEMMA DelegationRun ==
  ASSUME IInv, Cycle \/ Fails, UNCHANGED <<usages, before, calls>>, pc \in Decided,
         work' # Nothing, work = Nothing, pc \notin Ended, pc' \notin Ended
  PROVE  AsRun!Delegates
<1>1. Charged /\ Len(calls) \in Nat
    BY ChargedWhenDecided DEF IInv, TypeOK
<1>2. PICK p \in AsRun!Passes : /\ Len(calls) = AsRun!TrueSolCalls(p)
                                /\ ArchitectSolCalls = AsRun!ArchitectSolCalls(p)
    BY <1>1, ChargeIsOfPasses
<1>3. ArchitectSolCalls' = ArchitectSolCalls /\ Len(calls') = Len(calls)
    BY DEF ArchitectSolCalls, Recorded, usages
<1>4. (IF work # Nothing THEN ArchitectSolCalls ELSE 0)' = AsRun!ArchitectSolCalls(p)
    BY <1>2, <1>3
<1>5. OutcomeOf' = OutcomeOf
    BY DEF OutcomeOf
<1>6. Len(calls) <= AsRun!TrueSolCalls(p) /\ Len(calls') = AsRun!TrueSolCalls(p)
    BY <1>1, <1>2, <1>3
<1> QED
    BY <1>4, <1>5, <1>6 DEF AsRun!Delegates, AsRun!Free

(* A run that has delegated ends as one that is continued from.            *)
LEMMA DelegatedEnds ==
  ASSUME pc \notin Ended, pc' \in Ended, work # Nothing,
         UNCHANGED <<work, usages, before, calls>>
  PROVE  AsRun!EndsDelegated
<1>1. (IF work # Nothing THEN ArchitectSolCalls ELSE 0)'
        = IF work # Nothing THEN ArchitectSolCalls ELSE 0
    BY DEF ArchitectSolCalls, Recorded, usages
<1>2. OutcomeOf' = "package"
    BY DEF OutcomeOf
<1> QED
    BY <1>1, <1>2 DEF AsRun!EndsDelegated

(* One that has not is taken for what its failure shows.                   *)
LEMMA FreeEnds ==
  ASSUME IInv, Failures', pc \notin Ended, pc' \in Ended,
         work = Nothing, UNCHANGED work,
         Len(calls') \in Len(calls) .. 3
  PROVE  AsRun!EndsFree
<1>1. \/ OutcomeOf' = "pre_spend" /\ PreSpendEvidence'
      \/ OutcomeOf' = "sol_incomplete" /\ PostSpendEvidence'
      \/ OutcomeOf' = "ended"
    BY DEF OutcomeOf
<1>2. PreSpendEvidence' => Len(calls') = 0
    BY DEF PreSpendEvidence, Failures
<1>3. PostSpendEvidence' => Len(calls') = 1
    BY DEF PostSpendEvidence, Failures
<1> QED
    BY <1>1, <1>2, <1>3 DEF AsRun!EndsFree, AsRun!Free

LEMMA RunStep ==
  ASSUME IInv, Cycle \/ Fails
  PROVE  AsRun!Next \/ UNCHANGED AsRun!runVars
<1>0. RunTyped /\ RunTyped' /\ Ledger /\ Delegated /\ Delegation /\ Failures'
    BY TypeParts, CycleTypes, FailuresStep DEF IInv, TypeOK, RunTyped
<1>1. pc \in Steps /\ pc \notin Ended
    BY DEF Cycle, Fails, Start, CollectCore, CollectReviewers, CollectCodex, ValidateSnapshot,
       SolAnswers, SolFails, Escalate, Preliminary, Route, LookUpWorker, PostWorker, ObserveWorker,
       ResolveFreeze, BuildPackage, PublishRequest, RecordDispatch, Steps, Collecting, Routed, Ended
<1>2. ASSUME NEW d \in Decisions, SolAnswers(d)
      PROVE  AsRun!Next
    BY <1>2, CallStep DEF AsRun!Next
<1>3. ASSUME SolFails
      PROVE  AsRun!Next
    <2>1. pc = "sol" /\ pc' = "red" /\ UNCHANGED work
        BY <1>3 DEF SolFails, Goto
    <2>2. work = Nothing
        BY <1>0, <2>1 DEF Delegated
    <2>3. Len(calls') = Len(calls) + 1 /\ Len(calls') <= 3 /\ Len(calls) \in Nat
        BY <1>0, <1>3, SolPays, CallAdds DEF RunTyped
    <2>4. Len(calls') \in Len(calls) .. 3
        BY <2>3
    <2> QED
        BY <1>0, <1>1, <2>1, <2>2, <2>4, FreeEnds DEF AsRun!Next, Ended
<1>4. ASSUME ~SolFails, \A d \in Decisions : ~SolAnswers(d)
      PROVE  UNCHANGED calls
    BY <1>4 DEF Cycle, Fails, Start, CollectCore, CollectReviewers, CollectCodex, ValidateSnapshot,
       Escalate, Preliminary, Route, LookUpWorker, PostWorker, ObserveWorker,
       ResolveFreeze, BuildPackage, PublishRequest, RecordDispatch, Delegates
<1>5. ASSUME PostWorker \/ PublishRequest, work' # work
      PROVE  AsRun!Next
    <2>1. /\ pc \in Decided /\ pc' \notin Ended /\ UNCHANGED <<usages, before, calls>>
          /\ pc \in {"post", "publish"}
        BY <1>5 DEF PostWorker, PublishRequest, Delegates, Goto, Decided, Routed, Ended
    <2>2. work = Nothing
        BY <1>0, <2>1 DEF Delegated
    <2> QED
        BY <1>1, <1>5, <2>1, <2>2, DelegationRun DEF AsRun!Next
<1>6. ASSUME ~SolFails, \A d \in Decisions : ~SolAnswers(d), UNCHANGED work
      PROVE  AsRun!Next \/ UNCHANGED AsRun!runVars
    <2>0. UNCHANGED calls
        BY <1>4, <1>6
    <2>1. work # Nothing => UNCHANGED <<usages, before>>
        <3>1. work # Nothing => pc \in {"observe", "published"}
            BY <1>0, <1>1 DEF Delegated, Ended
        <3> QED
            BY <3>1, <1>6 DEF Cycle, Fails, Start, CollectCore, CollectReviewers, CollectCodex,
               ValidateSnapshot, Escalate, Preliminary, Route, LookUpWorker, PostWorker,
               ObserveWorker, ResolveFreeze, BuildPackage, PublishRequest, RecordDispatch, Delegates
    <2>2. CASE pc' \notin Ended
        BY <1>1, <1>6, <2>0, <2>1, <2>2, QuietStep
    <2>3. CASE pc' \in Ended /\ work # Nothing
        BY <1>1, <1>6, <2>0, <2>1, <2>3, DelegatedEnds DEF AsRun!Next
    <2>4. CASE pc' \in Ended /\ work = Nothing
        <3>1. Len(calls') \in Len(calls) .. 3
            BY <1>0, <2>0 DEF RunTyped
        <3> QED
            BY <1>0, <1>1, <1>6, <2>4, <3>1, FreeEnds DEF AsRun!Next
    <2> QED
        BY <2>2, <2>3, <2>4
<1>7. UNCHANGED work \/ PostWorker \/ PublishRequest
    BY <1>0, WorkSteps
<1>8. ASSUME PostWorker \/ PublishRequest
      PROVE  ~SolFails /\ \A d \in Decisions : ~SolAnswers(d)
    BY <1>8 DEF PostWorker, PublishRequest, SolFails, SolAnswers
<1> QED
    BY <1>2, <1>3, <1>5, <1>6, <1>7, <1>8

(* However a run of the workflow ends, and whatever happens meanwhile, it  *)
(* is what the completion gate and the two recoveries take it for.         *)
THEOREM CycleImplementsRun == Spec => CycleIsRun
<1>1. IInv /\ [Next]_vars => [AsRun!Next]_(AsRun!runVars)
    <2>1. ASSUME IInv, Cycle \/ Fails PROVE AsRun!Next \/ UNCHANGED AsRun!runVars
        BY <2>1, RunStep
    <2>2. ASSUME IInv, Recompute \/ World PROVE UNCHANGED AsRun!runVars
        <3>1. UNCHANGED <<pc, failed, decision, package, usages, before, work, calls>>
            BY <2>2 DEF Recompute, World, Elsewhere
        <3> QED
            BY <2>2, <3>1, QuietStep
    <2>3. ASSUME IInv, UNCHANGED vars PROVE UNCHANGED AsRun!runVars
        <3>1. UNCHANGED <<pc, failed, decision, package, usages, before, work, calls>>
            BY <2>3 DEF vars
        <3> QED
            BY <2>3, <3>1, QuietStep
    <2> QED
        BY <2>1, <2>2, <2>3 DEF Next
<1> QED
    BY Invariance, RunStarts, <1>1, PTL DEF Spec, CycleIsRun, AsRun!Spec

-----------------------------------------------------------------------------
(* Where a step of the run leads.                                          *)
LEMMA Moves ==
  ASSUME IInv, Cycle \/ Fails
  PROVE  \/ pass' = pass /\ pc \in Steps /\ pc' \in Ended
         \/ /\ pass' = pass
            /\ \/ pc = "start" /\ pc' = "core"
               \/ pc = "core" /\ pc' = "reviewers"
               \/ pc = "reviewers" /\ pc' = "codex"
               \/ pc = "codex" /\ pc' \in {"complete", "sol"}
               \/ pc = "complete" /\ pc' = "sol"
               \/ pc = "sol" /\ pc' \in {"escalate", "preliminary", "routing"}
               \/ pc = "escalate" /\ pc' = "preliminary"
               \/ pc = "preliminary" /\ pc' = "routing"
               \/ pc = "routing" /\ pc' \in {"dispatch", "freeze"}
               \/ pc = "dispatch" /\ pc' = "post"
               \/ pc = "post" /\ pc' = "observe"
               \/ pc = "freeze" /\ pc' = "quality"
               \/ pc = "quality" /\ pc' = "publish"
               \/ pc = "publish" /\ pc' = "published"
         \/ pc = "escalate" /\ pc' = "sol" /\ pass = "initial" /\ pass' = "escalated"
         \/ /\ pc = "preliminary" /\ pc' = "core"
            /\ pass \in {"initial", "escalated"} /\ pass' = "continuation"
<1>0. pass \in Passes /\ Ledger
    BY DEF IInv, TypeOK
<1>1. pc = "escalate" => pass = "initial"
    BY <1>0 DEF Ledger, Decided, Routed, Collecting
<1>2. pc = "preliminary" => pass \in {"initial", "escalated"}
    BY <1>0 DEF Ledger, Decided, Routed, Collecting
<1>3. pc \in Steps
    BY DEF Cycle, Fails, Start, CollectCore, CollectReviewers, CollectCodex, ValidateSnapshot,
       SolAnswers, SolFails, Escalate, Preliminary, Route, LookUpWorker, PostWorker, ObserveWorker,
       ResolveFreeze, BuildPackage, PublishRequest, RecordDispatch, Steps, Collecting, Routed
<1>4. CASE \/ Start \/ CollectCore \/ CollectReviewers \/ CollectCodex \/ ValidateSnapshot
          \/ (\E d \in Decisions : SolAnswers(d)) \/ SolFails
    BY <1>0, <1>3, <1>4 DEF Start, CollectCore, CollectReviewers, CollectCodex, ValidateSnapshot,
       SolAnswers, SolFails, Goto, AfterCollection, AfterCall, Passes, Ended
<1>5. CASE Escalate \/ Preliminary
    BY <1>1, <1>2, <1>3, <1>5 DEF Escalate, Preliminary, Goto, Ended
<1>6. CASE \/ Route \/ LookUpWorker \/ PostWorker \/ ObserveWorker \/ ResolveFreeze
          \/ BuildPackage \/ PublishRequest \/ RecordDispatch \/ Fails
    <2>1. pass' = pass
        BY <1>6 DEF Route, LookUpWorker, PostWorker, ObserveWorker, ResolveFreeze, BuildPackage,
           PublishRequest, RecordDispatch, Fails, Delegates
    <2>2. \/ pc' \in Ended
          \/ pc = "routing" /\ pc' \in {"dispatch", "freeze"}
          \/ pc = "dispatch" /\ pc' = "post"
          \/ pc = "post" /\ pc' = "observe"
          \/ pc = "freeze" /\ pc' = "quality"
          \/ pc = "quality" /\ pc' = "publish"
          \/ pc = "publish" /\ pc' = "published"
        BY <1>6 DEF Route, RouteOf, LookUpWorker, PostWorker, ObserveWorker, ObservedWorker,
           ResolveFreeze, BuildPackage, PublishRequest, RecordDispatch, Fails, Delegates, Goto, Ended
    <2> QED
        BY <1>3, <2>1, <2>2
<1> QED
    BY <1>4, <1>5, <1>6 DEF Cycle

(* Whatever Sol answers and whatever the others do, each step of the run   *)
(* brings it nearer to its end, and nothing sets it back.                  *)
THEOREM CycleGoesForward == Spec => CycleAdvances
<1>1. ASSUME IInv, Cycle \/ Fails PROVE StepsLeft' \in 0 .. (StepsLeft - 1)
    <2>1. pass \in Passes
        BY <1>1 DEF IInv, TypeOK
    <2>2. \/ Ahead[pc'] \in 0 .. (Ahead[pc] - 1) /\ PassesAhead[pass'] = PassesAhead[pass]
          \/ /\ Ahead[pc'] \in 0 .. (Ahead[pc] + 6)
             /\ PassesAhead[pass'] \in 0 .. (PassesAhead[pass] - 1)
        BY <1>1, Moves DEF Ahead, PassesAhead, Steps, Ended, Collecting, Routed
    <2>3. PassesAhead[pass] \in Nat /\ Ahead[pc] \in Nat
        BY <1>1, <2>1, Moves DEF Ahead, PassesAhead, Passes, Steps, Collecting, Routed
    <2> QED
        BY <2>2, <2>3 DEF StepsLeft
<1>2. ASSUME Recompute \/ World PROVE UNCHANGED ownVars
    BY <1>2 DEF Recompute, World, Elsewhere, ownVars
<1>3. UNCHANGED vars => UNCHANGED ownVars
    BY DEF vars, ownVars
<1>4. IInv /\ [Next]_vars => [StepsLeft' \in 0 .. (StepsLeft - 1)]_ownVars
    BY <1>1, <1>2, <1>3 DEF Next
<1> QED
    BY <1>4, Invariance, PTL DEF Spec, CycleAdvances
=============================================================================
