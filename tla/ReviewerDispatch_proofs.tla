------------------------ MODULE ReviewerDispatch_proofs ------------------------
(***************************************************************************)
(* Theorems about ReviewerDispatch: its type invariant, and that it keeps  *)
(* the promise of ReviewRequests.                                          *)
(***************************************************************************)
EXTENDS ReviewerDispatch, FiniteSetTheorems, TLAPS

-----------------------------------------------------------------------------
(* The runs and their concurrency groups *)

Steps == Active \cup Completed \cup {"absent", "waiting"}

Drafts == [decision : Decisions, target : Targets]

RunsOK ==
  /\ run \in [Run -> Identities]
  /\ draft \in [Run -> Drafts]
  /\ pc \in [Run -> Steps]
  /\ sha \in [Run -> Packages \cup {NoPackage}]
  /\ attempt \in [Run -> Nat]
  /\ artifact \in [Run -> Artifacts]
  /\ GroupsOK

LEMMA DefaultTypes ==
  /\ NoDecision \in Decisions /\ NoDraft \in Drafts /\ Nothing \in Artifacts
  /\ NoPackage \notin Packages
<1>1. NoDecision \in Decisions /\ (CHOOSE t \in Targets : TRUE) \in Targets
  BY DispatchAssumption DEF NoDecision
<1> QED
  BY <1>1, DispatchAssumption
     DEF NoDraft, Drafts, Nothing, Artifacts, NoPackage, Packages, Run, NoRun

LEMMA IdentityType ==
  ASSUME NEW kind \in {"none", "architect", "recovery"}, NEW source \in Run \cup {NoRun}
  PROVE  Identity(kind, source) \in Identities
BY DEF Identity, Identities

(* What a run packages.                                                    *)
LEMMA PackageTypes ==
  ASSUME RunsOK, NEW r \in Run
  PROVE  /\ PackageOf(r) \in Packages /\ PackageOf(r).run = r
         /\ StageOf(r) \in Stages
         /\ [pkg |-> PackageOf(r), stage |-> StageOf(r)] \in [pkg : Packages, stage : Stages]
<1>1. draft[r] \in Drafts
  BY DEF RunsOK
<1> QED BY <1>1, DispatchAssumption DEF PackageOf, StageOf, Packages, Stages, Drafts

LEMMA UploadedType ==
  ASSUME RunsOK, NEW r \in Run, NEW shows \in {"none", "decision", "package"}
  PROVE  Uploaded(r, shows) \in Artifacts /\ Uploaded(r, shows).shows = shows
<1>1. draft[r].decision \in Decisions
  BY DEF RunsOK, Drafts
<1> QED BY <1>1, DefaultTypes DEF Uploaded, Artifacts

(* Groups stay serial while nobody joins them.                             *)
LEMMA SameGroups ==
  ASSUME GroupsOK, UNCHANGED run,
         \A s \in Run : /\ pc'[s] \in Active => pc[s] \in Active
                        /\ pc'[s] = "waiting" => pc[s] = "waiting"
                        /\ pc'[s] = "absent" <=> pc[s] = "absent"
  PROVE  GroupsOK'
<1>1. \A s \in Run : RecoveriesOf(s)' = RecoveriesOf(s) /\ RecoveriesOf(s) \subseteq Run
  BY DEF RecoveriesOf
<1> QED BY <1>1 DEF GroupsOK, Serial

(* A run that goes on keeps its place in its group.                        *)
LEMMA MovesRuns ==
  ASSUME RunsOK, NEW r \in Run, pc[r] \in Active, NEW to \in Active, Moves(r, to),
         sha' \in [Run -> Packages \cup {NoPackage}]
  PROVE  RunsOK'
<1>1. pc' \in [Run -> Steps]
  BY DEF RunsOK, Moves, Steps
<1>2. \A s \in Run : /\ pc'[s] \in Active => pc[s] \in Active
                     /\ pc'[s] = "waiting" => pc[s] = "waiting"
                     /\ pc'[s] = "absent" <=> pc[s] = "absent"
  BY DEF RunsOK, Moves, Active
<1> QED BY <1>1, <1>2, SameGroups DEF RunsOK, Moves

LEMMA BuildsRuns ==
  ASSUME RunsOK, NEW r \in Run, BuildsPackage(r)
  PROVE  RunsOK'
<1>1. pc' \in [Run -> Steps] /\ UNCHANGED <<run, sha, attempt, artifact>>
  BY DEF RunsOK, BuildsPackage, Steps, Active
<1>2. draft' \in [Run -> Drafts]
  <2>1. PICK target \in Targets :
          draft' = [draft EXCEPT ![r] = [decision |-> Decision(r), target |-> target]]
    BY DEF BuildsPackage
  <2>2. Decision(r) \in Decisions
    BY DEF Decision, RunsOK, GroupsOK, Drafts, Artifacts
  <2>3. [decision |-> Decision(r), target |-> target] \in Drafts
    BY <2>2 DEF Drafts
  <2> QED BY <2>1, <2>3 DEF RunsOK
<1>3. \A s \in Run : /\ pc'[s] \in Active => pc[s] \in Active
                     /\ pc'[s] = "waiting" => pc[s] = "waiting"
                     /\ pc'[s] = "absent" <=> pc[s] = "absent"
  BY DEF RunsOK, BuildsPackage, Active
<1> QED BY <1>1, <1>2, <1>3, SameGroups DEF RunsOK

(* A run that ends leaves its group; the one that waits takes its place.   *)
LEMMA EndsRuns ==
  ASSUME RunsOK, NEW r \in Run, pc[r] \in Active,
         NEW end \in {"success", "failure"}, NEW shows \in {"none", "decision", "package"},
         Ends(r, end, shows)
  PROVE  RunsOK'
<1>1. /\ pc' \in [Run -> Steps] /\ run' \in [Run -> Identities]
      /\ sha' \in [Run -> Packages \cup {NoPackage}] /\ attempt' \in [Run -> Nat]
      /\ draft' \in [Run -> Drafts]
  BY DefaultTypes DEF Ends, RunsOK, Steps, Active, Completed
<1>2. artifact' \in [Run -> Artifacts]
  <2>1. PICK a \in Artifacts : artifact' = [artifact EXCEPT ![r] = a]
    BY UploadedType, DefaultTypes DEF Ends, RunsOK
  <2> QED BY <2>1 DEF RunsOK
<1>3. /\ pc'[r] \notin Active /\ pc'[r] # "waiting"
      /\ \A s \in Run \ {r} :
           pc'[s] = IF s \in Group(r) /\ pc[s] = "waiting" THEN "packaging" ELSE pc[s]
  BY DEF Ends, Active
<1>4. \A s \in Run : RecoveriesOf(s)' = RecoveriesOf(s) /\ RecoveriesOf(s) \subseteq Run
  BY DEF Ends, RecoveriesOf
<1>5. run[r].kind \in {"architect", "recovery"} /\ r \in Group(r)
  <2>1. run[r].kind # "none" /\ run[r].kind \in {"none", "architect", "recovery"}
    BY DEF RunsOK, GroupsOK, Active, Identities
  <2> QED BY <2>1 DEF Group, RecoveriesOf
<1>6. ASSUME NEW G \in SUBSET Run, Serial({s \in G : pc[s] \in Active}),
             Serial({s \in G : pc[s] = "waiting"}), G = Group(r) \/ G \cap Group(r) = {}
      PROVE  /\ Serial({s \in G : pc'[s] \in Active})
             /\ Serial({s \in G : pc'[s] = "waiting"})
  BY <1>3, <1>5, <1>6 DEF Serial, Active
<1>7. Serial({s \in Run : run'[s].kind = "architect" /\ pc'[s] \in Active})
  <2> DEFINE G == {s \in Run : run[s].kind = "architect"}
  <2>1. Serial({s \in G : pc[s] \in Active})
    BY DEF RunsOK, GroupsOK, Serial
  <2>2. \A s \in Run : s \in G => s \in Run /\ run'[s].kind = "architect"
    BY DEF Ends
  <2>3. CASE run[r].kind = "architect"
    <3>1. Group(r) = G
      BY <2>3 DEF Group
    <3> QED BY <1>3, <1>5, <2>1, <3>1 DEF Serial, Ends, Active, RunsOK, GroupsOK
  <2>4. CASE run[r].kind = "recovery"
    <3>1. \A s \in G : s \in Run /\ s \notin Group(r) /\ s # r
      BY <2>4 DEF Group, RecoveriesOf
    <3>2. \A s \in G : pc'[s] = pc[s]
      BY <1>3, <3>1
    <3> QED BY <2>1, <3>2 DEF Serial, Ends
  <2> QED BY <1>5, <2>3, <2>4
<1>8. ASSUME NEW s \in Run
      PROVE  /\ Serial({q \in RecoveriesOf(s)' : pc'[q] \in Active})
             /\ Serial({q \in RecoveriesOf(s)' : pc'[q] = "waiting"})
  <2>1. RecoveriesOf(s) = Group(r) \/ RecoveriesOf(s) \cap Group(r) = {}
    BY <1>5 DEF Group, RecoveriesOf
  <2> QED BY <1>4, <1>6, <2>1 DEF RunsOK, GroupsOK
<1>9. \A s \in Run : /\ run'[s].kind = "none" <=> pc'[s] = "absent"
                     /\ pc'[s] = "waiting" => run'[s].kind = "recovery"
                     /\ run'[s].kind = "recovery" => run'[s].source \in Run
  BY DEF Ends, RunsOK, GroupsOK, Active
<1> QED BY <1>1, <1>2, <1>7, <1>8, <1>9 DEF RunsOK, GroupsOK

(* A new recovery displaces the one that was waiting.                      *)
LEMMA CreatedRuns ==
  ASSUME RunsOK, NEW r \in Run, FreshRun(r), NEW s \in Run, Created(r, s)
  PROVE  RunsOK'
<1> DEFINE busy == \E p \in RecoveriesOf(s) : pc[p] \in Active
<1>1. pc[r] = "absent" /\ run[r].kind = "none"
  BY DEF FreshRun, RunsOK, GroupsOK
<1>2. /\ run' = [run EXCEPT ![r] = Identity("recovery", s)]
      /\ run' \in [Run -> Identities]
  BY <1>1, IdentityType DEF Created, RunsOK
<1>3. /\ pc' \in [Run -> Steps] /\ sha' \in [Run -> Packages \cup {NoPackage}]
      /\ attempt' \in [Run -> Nat] /\ artifact' \in [Run -> Artifacts]
      /\ draft' \in [Run -> Drafts]
  BY DEF Created, RunsOK, Steps, Active, Completed
<1>4. /\ run'[r].kind = "recovery" /\ run'[r].source = s
      /\ pc'[r] = IF busy THEN "waiting" ELSE "packaging"
  BY <1>2 DEF Created, RunsOK, Identity
<1>5. \A q \in Run \ {r} :
         /\ run'[q] = run[q]
         /\ IF q \in RecoveriesOf(s) /\ pc[q] = "waiting"
            THEN pc'[q] = "cancelled" ELSE pc'[q] = pc[q]
  BY <1>2 DEF Created, RunsOK
<1>6. Serial({q \in Run : run'[q].kind = "architect" /\ pc'[q] \in Active})
  BY <1>4, <1>5 DEF RunsOK, GroupsOK, Serial, Active
<1>7. ASSUME NEW t \in Run
      PROVE  /\ Serial({q \in RecoveriesOf(t)' : pc'[q] \in Active})
             /\ Serial({q \in RecoveriesOf(t)' : pc'[q] = "waiting"})
  <2>1. \A q \in Run \ {r} : q \in RecoveriesOf(t)' <=> q \in RecoveriesOf(t)
    BY <1>5 DEF RecoveriesOf
  <2>2. r \in RecoveriesOf(t)' <=> t = s
    BY <1>4 DEF RecoveriesOf
  <2>3. /\ Serial({q \in RecoveriesOf(t) : pc[q] \in Active})
        /\ Serial({q \in RecoveriesOf(t) : pc[q] = "waiting"})
    BY DEF RunsOK, GroupsOK
  <2>4. RecoveriesOf(t) \subseteq Run /\ RecoveriesOf(t)' \subseteq Run
    BY DEF RecoveriesOf
  <2>5. \A q \in Run \ {r} :
           /\ pc'[q] \in Active => pc[q] \in Active
           /\ pc'[q] = "waiting" => pc[q] = "waiting" /\ q \notin RecoveriesOf(s)
    BY <1>5 DEF Active
  <2>6. CASE t = s
    BY <1>4, <2>1, <2>3, <2>4, <2>5, <2>6 DEF Serial, Active
  <2>7. CASE t # s
    BY <2>1, <2>2, <2>3, <2>4, <2>5, <2>7 DEF Serial
  <2> QED BY <2>6, <2>7
<1>8. \A q \in Run : /\ run'[q].kind = "none" <=> pc'[q] = "absent"
                     /\ pc'[q] = "waiting" => run'[q].kind = "recovery"
                     /\ run'[q].kind = "recovery" => run'[q].source \in Run
  BY <1>4, <1>5 DEF RunsOK, GroupsOK
<1> QED BY <1>2, <1>3, <1>6, <1>7, <1>8 DEF RunsOK, GroupsOK

LEMMA DraftType ==
  ASSUME RunsOK, NEW r \in Run, NEW decision \in Decisions, Decides(r, decision)
  PROVE  draft' \in [Run -> Drafts]
<1>1. [NoDraft EXCEPT !.decision = decision] \in Drafts
  BY DefaultTypes DEF Drafts
<1> QED BY <1>1 DEF Decides, RunsOK

(* A run that is run again finds its group free.                           *)
LEMMA RerunRuns ==
  ASSUME RunsOK, NEW r \in Run, Reruns(r)
  PROVE  RunsOK'
<1>1. /\ pc' \in [Run -> Steps] /\ run' \in [Run -> Identities]
      /\ sha' \in [Run -> Packages \cup {NoPackage}] /\ attempt' \in [Run -> Nat]
      /\ artifact' \in [Run -> Artifacts]
  BY DEF Reruns, RunsOK, Steps, Active
<1>0. draft' \in [Run -> Drafts]
  BY DraftType DEF Reruns, RunsOK
<1>2. /\ pc[r] # "absent" /\ pc[r] # "waiting" /\ pc'[r] = "packaging"
      /\ \A s \in Run \ {r} : pc'[s] = pc[s]
      /\ run' = run
  BY DEF Reruns, RunsOK, Completed
<1>3. \A s \in Run : /\ run'[s].kind = "none" <=> pc'[s] = "absent"
                     /\ pc'[s] = "waiting" => run'[s].kind = "recovery"
                     /\ run'[s].kind = "recovery" => run'[s].source \in Run
  BY <1>2 DEF RunsOK, GroupsOK
<1>4. Serial({s \in Run : run'[s].kind = "architect" /\ pc'[s] \in Active})
  BY <1>2 DEF Reruns, Group, RunsOK, GroupsOK, Serial
<1>5. ASSUME NEW s \in Run
      PROVE  /\ Serial({q \in RecoveriesOf(s)' : pc'[q] \in Active})
             /\ Serial({q \in RecoveriesOf(s)' : pc'[q] = "waiting"})
  <2>1. RecoveriesOf(s)' = RecoveriesOf(s) /\ RecoveriesOf(s) \subseteq Run
    BY <1>2 DEF RecoveriesOf
  <2>2. r \in RecoveriesOf(s) => \A q \in RecoveriesOf(s) : pc[q] \notin Active
    BY DEF Reruns, RecoveriesOf, Group
  <2>3. /\ Serial({q \in RecoveriesOf(s) : pc[q] \in Active})
        /\ Serial({q \in RecoveriesOf(s) : pc[q] = "waiting"})
    BY DEF RunsOK, GroupsOK
  <2> QED BY <1>2, <2>1, <2>2, <2>3 DEF Serial
<1> QED BY <1>0, <1>1, <1>3, <1>4, <1>5 DEF RunsOK, GroupsOK

LEMMA DecidesRuns ==
  ASSUME RunsOK, NEW r \in Run, ArchitectDecides(r)
  PROVE  RunsOK'
<1>1. run' = [run EXCEPT ![r] = Identity("architect", NoRun)]
  BY DEF ArchitectDecides
<1>0. draft' \in [Run -> Drafts]
  BY DraftType DEF ArchitectDecides
<1>2. /\ run' \in [Run -> Identities] /\ pc' \in [Run -> Steps]
      /\ sha' \in [Run -> Packages \cup {NoPackage}] /\ attempt' \in [Run -> Nat]
      /\ artifact' \in [Run -> Artifacts]
  BY <1>1, IdentityType DEF ArchitectDecides, RunsOK, Steps, Active
<1>3. /\ pc[r] = "absent" /\ run[r].kind = "none"
      /\ run'[r].kind = "architect" /\ pc'[r] = "packaging"
      /\ \A s \in Run \ {r} : run'[s] = run[s] /\ pc'[s] = pc[s]
  BY <1>1 DEF ArchitectDecides, FreshRun, RunsOK, GroupsOK, Identity
<1>4. Serial({s \in Run : run'[s].kind = "architect" /\ pc'[s] \in Active})
  BY <1>3 DEF ArchitectDecides, ArchitectActive, Serial
<1>5. \A s \in Run : /\ RecoveriesOf(s)' \subseteq RecoveriesOf(s) \ {r}
                     /\ RecoveriesOf(s) \subseteq Run
  BY <1>3 DEF RecoveriesOf
<1>6. \A s \in Run : /\ run'[s].kind = "none" <=> pc'[s] = "absent"
                     /\ pc'[s] = "waiting" => run'[s].kind = "recovery"
                     /\ run'[s].kind = "recovery" => run'[s].source \in Run
  BY <1>3 DEF RunsOK, GroupsOK
<1>7. ASSUME NEW s \in Run
      PROVE  /\ Serial({q \in RecoveriesOf(s)' : pc'[q] \in Active})
             /\ Serial({q \in RecoveriesOf(s)' : pc'[q] = "waiting"})
  BY <1>3, <1>5 DEF RunsOK, GroupsOK, Serial
<1> QED BY <1>0, <1>2, <1>4, <1>6, <1>7 DEF RunsOK, GroupsOK
-----------------------------------------------------------------------------
(* Type correctness *)

RestOK ==
  /\ listed \in SUBSET Run
  /\ prompts \in SUBSET Packages
  /\ requests \in Seq([pkg : Packages, stage : Stages])
  /\ reviews \in [Packages -> [state : {"open", "failed", "passed"}, published : BOOLEAN]]
  /\ asked \in SUBSET Run
  /\ trigger \in [pc : {"idle", "eligible", "posted"}, source : Run \cup {NoRun},
                  before : SUBSET Run]
  /\ receipts \in SUBSET [source : Run, child : Run]
  /\ disturbances \in Nat
  /\ \A i \in DOMAIN requests : requests[i].pkg \in prompts

(* A trigger that is not idle works for a source.                          *)
TriggerOK == trigger.pc # "idle" => trigger.source \in Run

LEMMA TypeParts == TypeOK <=> RunsOK /\ RestOK
BY DEF TypeOK, RunsOK, RestOK, Steps, Drafts

TypeInv == RunsOK /\ RestOK /\ TriggerOK

LEMMA TypeInit == Init => TypeInv
<1> SUFFICES ASSUME Init PROVE TypeInv
  OBVIOUS
<1>1. /\ run \in [Run -> Identities] /\ pc \in [Run -> Steps]
      /\ sha \in [Run -> Packages \cup {NoPackage}] /\ attempt \in [Run -> Nat]
      /\ artifact \in [Run -> Artifacts]
      /\ draft \in [Run -> Drafts]
  BY DefaultTypes DEF Init, Identity, Identities, Steps
<1>2. GroupsOK
  BY DEF Init, GroupsOK, Serial, RecoveriesOf, Identity, Active
<1>3. requests \in Seq([pkg : Packages, stage : Stages]) /\ DOMAIN requests = {}
  BY DEF Init
<1>4. RestOK /\ TriggerOK
  BY <1>3 DEF Init, RestOK, TriggerOK, Idle
<1> QED BY <1>1, <1>2, <1>4 DEF TypeInv, RunsOK

(* Appending a request whose prompt is there.                              *)
LEMMA AppendsRequest ==
  ASSUME RunsOK, RestOK, NEW r \in Run, PackageOf(r) \in prompts,
         UNCHANGED prompts,
         requests' = Append(requests, [pkg |-> PackageOf(r), stage |-> StageOf(r)])
  PROVE  /\ requests' \in Seq([pkg : Packages, stage : Stages])
         /\ \A i \in DOMAIN requests' : requests'[i].pkg \in prompts
<1>1. [pkg |-> PackageOf(r), stage |-> StageOf(r)] \in [pkg : Packages, stage : Stages]
  BY PackageTypes
<1> QED BY <1>1 DEF RestOK

(* The actions in which one run works: what they do to the runs.           *)
LEMMA WorkRuns ==
  ASSUME RunsOK, NEW r \in Run,
         \/ BuildsPackage(r) \/ PackagingFails(r) \/ ReadsCurrent(r) \/ ChecksPrior(r)
         \/ PutsPrompt(r) \/ PutsRequest(r) \/ CallFails(r) \/ AnswerLost(r) \/ Crashes(r)
         \/ DecidesOtherwise(r),
         CurrentRequest.pkg \in Packages \cup {NoPackage}
  PROVE  RunsOK'
<1>1. ASSUME NEW shows \in {"none", "decision", "package"}, pc[r] \in Active, Fails(r, shows) PROVE RunsOK'
  BY <1>1, EndsRuns DEF Fails
<1>2. ASSUME NEW to \in Active, pc[r] \in Active, Moves(r, to), UNCHANGED sha PROVE RunsOK'
  BY <1>2, MovesRuns DEF RunsOK
<1>3. ASSUME NEW to \in Active, pc[r] \in Active, Binds(r, to) PROVE RunsOK'
  BY <1>3, MovesRuns DEF RunsOK, Binds
<1>4. CASE BuildsPackage(r)
  BY <1>4, BuildsRuns
<1>5. CASE PackagingFails(r)
  BY <1>5, <1>1 DEF PackagingFails, Active, Artifacts
<1>6. CASE ReadsCurrent(r)
  BY <1>6, <1>1, <1>3 DEF ReadsCurrent, Active, Artifacts
<1>7. CASE ChecksPrior(r)
  BY <1>7, <1>1, <1>2 DEF ChecksPrior, Active, Artifacts
<1>8. CASE PutsPrompt(r)
  BY <1>8, <1>2 DEF PutsPrompt, CanCreate, Active
<1>9. CASE PutsRequest(r)
  BY <1>9, EndsRuns DEF PutsRequest, CanReplace, Active, Artifacts
<1>10. CASE CallFails(r)
  BY <1>10, <1>1 DEF CallFails, Active, Artifacts
<1>11. CASE AnswerLost(r)
  <2>1. pc[r] = "bound" \/ pc[r] = "prompted"
    BY <1>11 DEF AnswerLost, CanCreate, CanReplace
  <2>2. Fails(r, "package")
    BY <1>11 DEF AnswerLost
  <2> QED BY <1>1, <2>1, <2>2 DEF Active, Artifacts
<1>12. CASE Crashes(r)
  BY <1>12, <1>1 DEF Crashes, Artifacts
<1>13. CASE DecidesOtherwise(r)
  BY <1>13, <1>1, EndsRuns DEF DecidesOtherwise, Active
<1> QED
  BY <1>4, <1>5, <1>6, <1>7, <1>8, <1>9, <1>10, <1>11, <1>12, <1>13

LEMMA LastElement ==
  ASSUME NEW S, NEW q \in Seq(S), q # <<>>
  PROVE  Len(q) \in DOMAIN q /\ q[Len(q)] \in S
OBVIOUS

LEMMA CurrentType ==
  ASSUME RestOK
  PROVE  CurrentRequest.pkg \in Packages \cup {NoPackage}
<1>1. CASE requests = <<>>
  BY <1>1 DEF CurrentRequest, NoRequest
<1>2. CASE requests # <<>>
  <2>1. requests[Len(requests)] \in [pkg : Packages, stage : Stages]
    BY <1>2, LastElement DEF RestOK
  <2> QED BY <1>2, <2>1 DEF CurrentRequest
<1> QED BY <1>1, <1>2

LEMMA RunsStep ==
  ASSUME TypeInv, [Next]_vars
  PROVE  RunsOK'
<1>1. RunsOK /\ RestOK /\ TriggerOK
  BY DEF TypeInv
<1>2. ASSUME UNCHANGED runVars PROVE RunsOK'
  <2>1. \A s \in Run : RecoveriesOf(s)' = RecoveriesOf(s)
    BY <1>2 DEF runVars, RecoveriesOf
  <2>2. GroupsOK'
    BY <1>1, <1>2, <2>1 DEF RunsOK, GroupsOK, runVars
  <2> QED BY <1>1, <1>2, <2>2 DEF RunsOK, runVars
<1>3. ASSUME NEW r \in Run,
             \/ BuildsPackage(r) \/ PackagingFails(r) \/ ReadsCurrent(r) \/ ChecksPrior(r)
             \/ PutsPrompt(r) \/ PutsRequest(r) \/ CallFails(r) \/ AnswerLost(r)
             \/ Crashes(r) \/ DecidesOtherwise(r)
      PROVE  RunsOK'
  BY <1>1, <1>3, WorkRuns, CurrentType
<1>4. ASSUME NEW r \in Run, ArchitectDecides(r) PROVE RunsOK'
  BY <1>1, <1>4, DecidesRuns
<1>5. ASSUME NEW r \in Run, Reruns(r) PROVE RunsOK'
  BY <1>1, <1>5, RerunRuns
<1>6. ASSUME NEW r \in Run, TriggerPosts(r) PROVE RunsOK'
  BY <1>1, <1>6, CreatedRuns DEF TriggerPosts, TriggerOK
<1>7. ASSUME NEW r \in Run, NEW s \in Run, ManualRecovery(r, s) PROVE RunsOK'
  BY <1>1, <1>7, CreatedRuns DEF ManualRecovery
<1>8. ASSUME NEW r \in Run, TriggerChecks(r) \/ AskAgain(r) PROVE RunsOK'
  BY <1>2, <1>8 DEF TriggerChecks, AskAgain
<1>10. ASSUME NEW p \in Packages, ReviewEnds(p) PROVE RunsOK'
  BY <1>2, <1>10 DEF ReviewEnds
<1>9. ASSUME TriggerObserves \/ TriggerGivesUp \/ UNCHANGED vars PROVE RunsOK'
  BY <1>2, <1>9 DEF TriggerObserves, TriggerGivesUp, vars, runVars
<1> QED BY <1>3, <1>4, <1>5, <1>6, <1>7, <1>8, <1>9, <1>10 DEF Next

-----------------------------------------------------------------------------
(* What a run knows while it writes *)

MayFollow(r) ==
  EquivalentRequest(CurrentRequest, StageOf(r)) =>
    Repo = "DEEPSEEK" /\ Supersedable(sha[r])

WriteInv ==
  \A r \in Run :
    /\ pc[r] = "prompted" => PackageOf(r) \in prompts /\ PackageOf(r) \notin Log!Requested
    /\ sha[r] \in Log!Requested \cup {NoPackage}
    /\ pc[r] = "superseding" => Repo = "DEEPSEEK"
    /\ pc[r] \in {"bound", "prompted"} /\ sha[r] = CurrentRequest.pkg => MayFollow(r)

(* What may happen to a run in a step that writes no request.              *)
Rests(s) ==
  /\ pc'[s] \notin {"superseding", "bound", "prompted"}
  /\ sha'[s] \in {sha[s], NoPackage}
Stays(s) == pc'[s] = pc[s] /\ sha'[s] = sha[s] /\ draft'[s] = draft[s]
Prompts(s) ==
  /\ pc[s] = "bound" /\ pc'[s] = "prompted" /\ sha'[s] = sha[s] /\ draft'[s] = draft[s]
  /\ PackageOf(s) \notin prompts /\ PackageOf(s) \in prompts'
Learns(s) ==
  /\ sha'[s] = CurrentRequest.pkg /\ draft'[s] = draft[s]
  /\ \/ pc'[s] = "bound" /\ ~EquivalentRequest(CurrentRequest, StageOf(s))
     \/ pc'[s] = "superseding" /\ Repo = "DEEPSEEK"
Checks(s) ==
  /\ pc[s] = "superseding" /\ pc'[s] = "bound" /\ sha'[s] = sha[s] /\ draft'[s] = draft[s]
  /\ Supersedable(sha[s])
Calm(s) == Rests(s) \/ Stays(s) \/ Prompts(s) \/ Learns(s) \/ Checks(s)

(* A dead review stays dead.                                               *)
DeadStays == \A p \in Packages : Supersedable(p) => reviews'[p] = reviews[p]

LEMMA CurrentRequested ==
  ASSUME RestOK
  PROVE  CurrentRequest.pkg \in Log!Requested \cup {NoPackage}
<1>1. CASE requests = <<>>
  BY <1>1 DEF CurrentRequest, NoRequest
<1>2. CASE requests # <<>>
  <2>1. Len(requests) \in DOMAIN requests
    BY <1>2, LastElement DEF RestOK
  <2> QED BY <1>2, <2>1 DEF CurrentRequest, Log!Requested
<1> QED BY <1>1, <1>2

LEMMA RequestedPrompted ==
  ASSUME RestOK, NEW r, r \notin prompts
  PROVE  r \notin Log!Requested
BY DEF RestOK, Log!Requested

LEMMA CalmStep ==
  ASSUME RunsOK, RestOK, WriteInv, UNCHANGED requests, prompts \subseteq prompts', DeadStays,
         \A s \in Run : Calm(s)
  PROVE  WriteInv'
<1>1. CurrentRequest' = CurrentRequest /\ Log!Requested' = Log!Requested
  BY DEF CurrentRequest, Log!Requested
<1>2. CurrentRequest.pkg \in Log!Requested \cup {NoPackage}
  BY CurrentRequested
<1>3. SUFFICES ASSUME NEW s \in Run
               PROVE  /\ pc'[s] = "prompted" => PackageOf(s)' \in prompts'
                                                  /\ PackageOf(s)' \notin Log!Requested
                      /\ sha'[s] \in Log!Requested \cup {NoPackage}
                      /\ pc'[s] = "superseding" => Repo = "DEEPSEEK"
                      /\ pc'[s] \in {"bound", "prompted"} /\ sha'[s] = CurrentRequest.pkg
                           => MayFollow(s)'
  BY <1>1 DEF WriteInv
<1>4. MayFollow(s)' <=>
        (EquivalentRequest(CurrentRequest, StageOf(s)') =>
           /\ Repo = "DEEPSEEK"
           /\ reviews'[sha'[s]].state = "failed" /\ ~reviews'[sha'[s]].published)
  BY <1>1 DEF MayFollow, EquivalentRequest, Supersedable
<1>5. EquivalentRequest(CurrentRequest, StageOf(s)') => CurrentRequest.pkg \in Packages
  BY CurrentType DEF EquivalentRequest
<1>6. CASE Rests(s)
  BY <1>6 DEF Rests, WriteInv
<1>7. CASE Stays(s)
  <2>1. /\ sha'[s] \in Log!Requested \cup {NoPackage}
        /\ pc'[s] = "superseding" => Repo = "DEEPSEEK"
        /\ pc'[s] = "prompted" => PackageOf(s)' \in prompts'
                                                  /\ PackageOf(s)' \notin Log!Requested
    BY <1>7 DEF Stays, WriteInv, PackageOf
  <2>2. ASSUME pc'[s] \in {"bound", "prompted"}, sha'[s] = CurrentRequest.pkg
        PROVE  MayFollow(s)'
    <3>1. MayFollow(s)
      BY <1>7, <2>2 DEF Stays, WriteInv
    <3>2. SUFFICES ASSUME EquivalentRequest(CurrentRequest, StageOf(s))
                   PROVE  /\ Repo = "DEEPSEEK"
                          /\ reviews'[sha[s]].state = "failed" /\ ~reviews'[sha[s]].published
      BY <1>4, <1>7 DEF Stays, StageOf
    <3>3. Repo = "DEEPSEEK" /\ Supersedable(sha[s]) /\ sha[s] \in Packages
      BY <1>5, <1>7, <2>2, <3>1, <3>2 DEF Stays, MayFollow, StageOf
    <3> QED BY <3>3 DEF DeadStays, Supersedable
  <2> QED BY <2>1, <2>2
<1>8. CASE Prompts(s)
  <2>1. PackageOf(s)' = PackageOf(s) /\ PackageOf(s) \notin Log!Requested
    BY <1>8, RequestedPrompted DEF Prompts, PackageOf
  <2>2. sha'[s] \in Log!Requested \cup {NoPackage}
    BY <1>8 DEF Prompts, WriteInv
  <2>3. ASSUME sha'[s] = CurrentRequest.pkg
        PROVE  MayFollow(s)'
    <3>1. MayFollow(s)
      BY <1>8, <2>3 DEF Prompts, WriteInv
    <3>2. SUFFICES ASSUME EquivalentRequest(CurrentRequest, StageOf(s))
                   PROVE  /\ Repo = "DEEPSEEK"
                          /\ reviews'[sha[s]].state = "failed" /\ ~reviews'[sha[s]].published
      BY <1>4, <1>8 DEF Prompts, StageOf
    <3>3. Repo = "DEEPSEEK" /\ Supersedable(sha[s]) /\ sha[s] \in Packages
      BY <1>5, <1>8, <2>3, <3>1, <3>2 DEF Prompts, MayFollow, StageOf
    <3> QED BY <3>3 DEF DeadStays, Supersedable
  <2> QED BY <1>8, <2>1, <2>2, <2>3 DEF Prompts
<1>9. CASE Learns(s)
  BY <1>2, <1>4, <1>9 DEF Learns, StageOf
<1>10. CASE Checks(s)
  <2>1. sha'[s] \in Log!Requested \cup {NoPackage} /\ Repo = "DEEPSEEK"
    BY <1>10 DEF Checks, WriteInv
  <2>2. sha'[s] \in Packages => reviews'[sha'[s]].state = "failed" /\ ~reviews'[sha'[s]].published
    BY <1>10 DEF Checks, DeadStays, Supersedable
  <2>3. sha'[s] = CurrentRequest.pkg => MayFollow(s)'
    BY <1>4, <1>5, <2>1, <2>2
  <2> QED BY <1>10, <2>1, <2>3 DEF Checks
<1> QED BY <1>6, <1>7, <1>8, <1>9, <1>10 DEF Calm

(* A run that goes on, ends or is created disturbs no writer but itself.   *)
LEMMA EndsCalm ==
  ASSUME RunsOK, NEW r \in Run, NEW end \in {"success", "failure"}, NEW shows,
         Ends(r, end, shows)
  PROVE  /\ Rests(r) /\ sha'[r] = NoPackage
         /\ \A s \in Run : Rests(s) \/ Stays(s)
<1>1. pc'[r] = end /\ sha'[r] = NoPackage
  BY DEF Ends, RunsOK
<1>2. \A s \in Run \ {r} : /\ pc'[s] \in {"packaging", pc[s]}
                           /\ sha'[s] = sha[s] /\ draft'[s] = draft[s]
  BY DEF Ends, RunsOK
<1> QED BY <1>1, <1>2 DEF Rests, Stays

LEMMA MovesCalm ==
  ASSUME RunsOK, NEW r \in Run, NEW to, Moves(r, to), UNCHANGED sha
  PROVE  /\ pc'[r] = to /\ sha'[r] = sha[r] /\ draft'[r] = draft[r]
         /\ \A s \in Run \ {r} : Stays(s)
BY DEF Moves, RunsOK, Stays

LEMMA CreatedCalm ==
  ASSUME RunsOK, NEW r \in Run, NEW s \in Run, Created(r, s)
  PROVE  \A q \in Run : Rests(q) \/ Stays(q)
<1>1. ASSUME NEW q \in Run PROVE Rests(q) \/ Stays(q)
  <2>1. CASE q = r
    BY <2>1 DEF Created, RunsOK, Rests
  <2>2. CASE q # r
    <3>1. sha'[q] = sha[q] /\ draft'[q] = draft[q] /\ pc'[q] \in {"cancelled", pc[q]}
      BY <2>2 DEF Created, RunsOK
    <3> QED BY <3>1 DEF Rests, Stays
  <2> QED BY <2>1, <2>2
<1> QED BY <1>1

(* The step of a run in which it writes no request.                        *)
LEMMA WorkCalm ==
  ASSUME RunsOK, RestOK, NEW r \in Run,
         \/ BuildsPackage(r) \/ PackagingFails(r) \/ ReadsCurrent(r) \/ ChecksPrior(r)
         \/ PutsPrompt(r) \/ CallFails(r) \/ Crashes(r) \/ (AnswerLost(r) /\ CanCreate(r))
         \/ DecidesOtherwise(r)
  PROVE  /\ UNCHANGED <<requests, reviews>> /\ prompts \subseteq prompts'
         /\ \A s \in Run : Calm(s)
<1>1. ASSUME NEW shows, Fails(r, shows) PROVE \A s \in Run : Calm(s)
  BY <1>1, EndsCalm DEF Fails, Calm
<1>2. CASE BuildsPackage(r)
  <2>1. \A s \in Run : Rests(s) \/ Stays(s)
    BY <1>2 DEF BuildsPackage, RunsOK, Rests, Stays
  <2> QED BY <1>2, <2>1 DEF BuildsPackage, repoVars, Calm
<1>3. CASE PackagingFails(r)
  BY <1>1, <1>3 DEF PackagingFails, repoVars
<1>4. CASE ReadsCurrent(r)
  <2>1. ASSUME NEW to, Binds(r, to)
        PROVE  /\ pc'[r] = to /\ sha'[r] = CurrentRequest.pkg /\ draft'[r] = draft[r]
               /\ \A s \in Run \ {r} : Stays(s)
    BY <2>1 DEF Binds, Moves, RunsOK, Stays
  <2> SUFFICES \A s \in Run : Calm(s)
    BY <1>4 DEF ReadsCurrent, repoVars
  <2>2. CASE MayBind(r) /\ Binds(r, "bound")
    BY <2>1, <2>2 DEF Calm, Learns, MayBind
  <2>3. CASE MaySupersede(r) /\ Binds(r, "superseding")
    BY <2>1, <2>3 DEF Calm, Learns, MaySupersede
  <2>4. CASE Fails(r, "package")
    BY <1>1, <2>4
  <2> QED BY <1>4, <2>2, <2>3, <2>4 DEF ReadsCurrent
<1>5. CASE ChecksPrior(r)
  <2> SUFFICES \A s \in Run : Calm(s)
    BY <1>5 DEF ChecksPrior, repoVars
  <2>1. CASE Supersedable(sha[r]) /\ Moves(r, "bound") /\ UNCHANGED sha
    <3>1. Checks(r) /\ \A s \in Run \ {r} : Stays(s)
      BY <1>5, <2>1, MovesCalm DEF ChecksPrior, Checks
    <3> QED BY <3>1 DEF Calm
  <2>2. CASE Fails(r, "package")
    BY <1>1, <2>2
  <2> QED BY <1>5, <2>1, <2>2 DEF ChecksPrior
<1>6. CASE PutsPrompt(r)
  <2>1. Prompts(r) /\ \A s \in Run \ {r} : Stays(s)
    BY <1>6, MovesCalm DEF PutsPrompt, CanCreate, Prompts
  <2> QED BY <1>6, <2>1 DEF PutsPrompt, Calm
<1>7. CASE CallFails(r)
  BY <1>1, <1>7 DEF CallFails, repoVars
<1>8. CASE Crashes(r)
  BY <1>1, <1>8 DEF Crashes, repoVars
<1>9. CASE AnswerLost(r) /\ CanCreate(r)
  BY <1>1, <1>9 DEF AnswerLost, CanCreate, CanReplace
<1>10. CASE DecidesOtherwise(r)
  BY <1>1, <1>10, EndsCalm DEF DecidesOtherwise, repoVars, Calm
<1> QED BY <1>2, <1>3, <1>4, <1>5, <1>6, <1>7, <1>8, <1>9, <1>10

(* The write of a request: its package is new to the log.                  *)
Writes(r) ==
  /\ CanReplace(r)
  /\ requests' = Append(requests, [pkg |-> PackageOf(r), stage |-> StageOf(r)])
  /\ UNCHANGED <<prompts, reviews>>
  /\ \E end \in {"success", "failure"} : Ends(r, end, "package")

LEMMA AppendLog ==
  ASSUME RestOK, NEW p, NEW stage,
         requests' = Append(requests, [pkg |-> p, stage |-> stage])
  PROVE  CurrentRequest'.pkg = p /\ Log!Requested' = Log!Requested \cup {p}
<1>1. /\ Len(requests') = Len(requests) + 1 /\ requests' # <<>>
      /\ DOMAIN requests' = 1 .. Len(requests) + 1
      /\ DOMAIN requests = 1 .. Len(requests) /\ Len(requests) \in Nat
      /\ \A i \in 1 .. Len(requests) : requests'[i] = requests[i]
      /\ requests'[Len(requests) + 1].pkg = p
  BY DEF RestOK
<1>2. Log!Requested' = Log!Requested \cup {p}
  BY <1>1 DEF Log!Requested
<1> QED BY <1>1, <1>2 DEF CurrentRequest

LEMMA WriteStep ==
  ASSUME RunsOK, RestOK, WriteInv, NEW r \in Run, Writes(r)
  PROVE  WriteInv'
<1> DEFINE p == PackageOf(r)
<1>1. CurrentRequest'.pkg = p /\ Log!Requested' = Log!Requested \cup {p}
  BY AppendLog DEF Writes
<1>2. p \notin Log!Requested /\ p # NoPackage /\ p.run = r
  BY PackageTypes, DefaultTypes DEF Writes, CanReplace, WriteInv
<1>3. Rests(r) /\ sha'[r] = NoPackage /\ \A s \in Run : Rests(s) \/ Stays(s)
  BY EndsCalm DEF Writes
<1>4. SUFFICES ASSUME NEW s \in Run
               PROVE  /\ pc'[s] = "prompted" => PackageOf(s)' \in prompts'
                                                  /\ PackageOf(s)' \notin Log!Requested'
                      /\ sha'[s] \in Log!Requested' \cup {NoPackage}
                      /\ pc'[s] = "superseding" => Repo = "DEEPSEEK"
                      /\ sha'[s] # p
  BY <1>1 DEF WriteInv
<1>5. sha[s] \in Log!Requested \cup {NoPackage}
  BY DEF WriteInv
<1>6. CASE Rests(s)
  BY <1>1, <1>2, <1>5, <1>6 DEF Rests
<1>7. CASE Stays(s)
  <2>1. sha'[s] \in Log!Requested \cup {NoPackage} /\ sha'[s] # p
    BY <1>2, <1>5, <1>7 DEF Stays
  <2>2. pc'[s] = "superseding" => Repo = "DEEPSEEK"
    BY <1>7 DEF Stays, WriteInv
  <2>3. ASSUME pc'[s] = "prompted"
        PROVE  PackageOf(s)' \in prompts' /\ PackageOf(s)' \notin Log!Requested'
    <3>1. s # r
      BY <1>3, <2>3 DEF Rests
    <3>2. PackageOf(s)' = PackageOf(s) /\ PackageOf(s) # p
      BY <1>2, <1>7, <3>1, PackageTypes DEF Stays, PackageOf
    <3>3. PackageOf(s) \in prompts /\ PackageOf(s) \notin Log!Requested
      BY <1>7, <2>3 DEF Stays, WriteInv
    <3> QED BY <1>1, <3>2, <3>3 DEF Writes
  <2> QED BY <1>1, <2>1, <2>2, <2>3
<1> QED BY <1>3, <1>6, <1>7

(* Every step is calm, or writes one request.                              *)
LEMMA StepCases ==
  ASSUME TypeInv, [Next]_vars
  PROVE  \/ /\ UNCHANGED requests /\ prompts \subseteq prompts' /\ DeadStays
            /\ \A s \in Run : Calm(s)
         \/ \E r \in Run : Writes(r)
<1>1. RunsOK /\ RestOK /\ TriggerOK
  BY DEF TypeInv
<1> DEFINE
  CalmStepOf == /\ UNCHANGED requests /\ prompts \subseteq prompts' /\ DeadStays
                /\ \A s \in Run : Calm(s)
<1>2. ASSUME UNCHANGED <<draft, pc, sha>> PROVE \A s \in Run : Calm(s)
  BY <1>2 DEF Calm, Stays
<1>3. UNCHANGED reviews => DeadStays
  BY DEF DeadStays
<1>4. ASSUME NEW r \in Run,
             \/ BuildsPackage(r) \/ PackagingFails(r) \/ ReadsCurrent(r) \/ ChecksPrior(r)
             \/ PutsPrompt(r) \/ CallFails(r) \/ Crashes(r)
             \/ (AnswerLost(r) /\ CanCreate(r)) \/ DecidesOtherwise(r)
      PROVE  CalmStepOf
  BY <1>1, <1>3, <1>4, WorkCalm
<1>5. ASSUME NEW r \in Run, PutsRequest(r) PROVE Writes(r)
  BY <1>5 DEF PutsRequest, Writes
<1>6. ASSUME NEW r \in Run, AnswerLost(r), ~CanCreate(r) PROVE Writes(r)
  BY <1>6 DEF AnswerLost, Writes, Fails
<1>7. ASSUME NEW r \in Run, ArchitectDecides(r) \/ Reruns(r) PROVE CalmStepOf
  <2>1. /\ pc'[r] = "packaging" /\ UNCHANGED <<sha, prompts, requests, reviews>>
        /\ \A s \in Run \ {r} : pc'[s] = pc[s] /\ draft'[s] = draft[s]
    BY <1>1, <1>7 DEF ArchitectDecides, Reruns, Decides, RunsOK, repoVars
  <2> QED BY <1>3, <2>1 DEF Calm, Rests, Stays
<1>8. ASSUME NEW r \in Run, NEW s \in Run, Created(r, s), UNCHANGED repoVars
      PROVE  CalmStepOf
  BY <1>1, <1>3, <1>8, CreatedCalm DEF Calm, repoVars
<1>9. ASSUME NEW r \in Run, TriggerPosts(r) PROVE CalmStepOf
  BY <1>1, <1>8, <1>9 DEF TriggerPosts, TriggerOK
<1>10. ASSUME NEW r \in Run, NEW s \in Run, ManualRecovery(r, s) PROVE CalmStepOf
  BY <1>8, <1>10 DEF ManualRecovery
<1>11. ASSUME NEW r \in Run, TriggerChecks(r) \/ AskAgain(r) PROVE CalmStepOf
  BY <1>2, <1>3, <1>11 DEF TriggerChecks, AskAgain, runVars, repoVars
<1>12. ASSUME NEW p \in Packages, ReviewEnds(p) PROVE CalmStepOf
  <2>1. reviews[p].state = "open" /\ \A q \in Packages \ {p} : reviews'[q] = reviews[q]
    BY <1>1, <1>12 DEF ReviewEnds, RestOK
  <2>2. DeadStays
    BY <2>1 DEF DeadStays, Supersedable
  <2> QED BY <1>2, <1>12, <2>2 DEF ReviewEnds, runVars
<1>13. ASSUME TriggerObserves \/ TriggerGivesUp \/ UNCHANGED vars PROVE CalmStepOf
  BY <1>2, <1>3, <1>13 DEF TriggerObserves, TriggerGivesUp, vars, runVars, repoVars
<1> QED BY <1>4, <1>5, <1>6, <1>7, <1>9, <1>10, <1>11, <1>12, <1>13 DEF Next

LEMMA WriteInit == Init => WriteInv
BY DispatchAssumption DEF Init, WriteInv

LEMMA WriteInvStep ==
  ASSUME TypeInv, WriteInv, [Next]_vars
  PROVE  WriteInv'
<1>1. RunsOK /\ RestOK
  BY DEF TypeInv
<1> QED BY <1>1, StepCases, CalmStep, WriteStep

-----------------------------------------------------------------------------
(* What the runs leave alone stays well-formed *)

TriggerType == [pc : {"idle", "eligible", "posted"}, source : Run \cup {NoRun},
                before : SUBSET Run]

ReviewType == [state : {"open", "failed", "passed"}, published : BOOLEAN]

LEMMA IdleType == Idle \in TriggerType
BY DEF Idle, TriggerType

(* The trigger's and the reviewer's part of a step.                        *)
LEMMA TriggerStep ==
  ASSUME TypeInv, [Next]_vars
  PROVE  /\ listed' \in SUBSET Run /\ asked' \in SUBSET Run /\ disturbances' \in Nat
         /\ trigger' \in TriggerType /\ TriggerOK'
         /\ receipts' \in SUBSET [source : Run, child : Run]
<1>1. RunsOK /\ RestOK /\ TriggerOK /\ trigger \in TriggerType
  BY DEF TypeInv, RestOK, TriggerType
<1> DEFINE
  Goal == /\ listed' \in SUBSET Run /\ asked' \in SUBSET Run /\ disturbances' \in Nat
          /\ trigger' \in TriggerType /\ TriggerOK'
          /\ receipts' \in SUBSET [source : Run, child : Run]
<1>2. ASSUME NEW r \in Run, Asks(r) PROVE asked' \in SUBSET Run
  BY <1>1, <1>2 DEF Asks, RestOK
<1>3. ASSUME UNCHANGED <<listed, trigger, receipts>>, asked' \in SUBSET Run,
             disturbances' \in Nat
      PROVE  Goal
  BY <1>1, <1>3 DEF RestOK, TriggerOK
<1>4. ASSUME NEW kind, Disturb(kind) PROVE disturbances' \in Nat
  BY <1>1, <1>4 DEF Disturb, RestOK
<1>5. asked \in SUBSET Run /\ disturbances \in Nat
  BY <1>1 DEF RestOK
<1>6. ASSUME NEW r \in Run,
             \/ ArchitectDecides(r) \/ BuildsPackage(r) \/ PutsPrompt(r) \/ PutsRequest(r)
      PROVE  Goal
  BY <1>3, <1>5, <1>6 DEF ArchitectDecides, BuildsPackage, PutsPrompt, PutsRequest,
     triggerVars
<1>15. ASSUME NEW p \in Packages, ReviewEnds(p) PROVE Goal
  BY <1>3, <1>5, <1>15 DEF ReviewEnds, triggerVars
<1>7. ASSUME NEW r \in Run,
             \/ PackagingFails(r) \/ ReadsCurrent(r) \/ ChecksPrior(r) \/ CallFails(r)
             \/ DecidesOtherwise(r)
      PROVE  Goal
  BY <1>2, <1>3, <1>5, <1>7 DEF PackagingFails, ReadsCurrent, ChecksPrior, CallFails,
     DecidesOtherwise, Fails
<1>8. ASSUME NEW r \in Run, AnswerLost(r) \/ Crashes(r) \/ Reruns(r) \/ AskAgain(r)
      PROVE  Goal
  BY <1>2, <1>3, <1>4, <1>5, <1>8 DEF AnswerLost, Crashes, Reruns, AskAgain, Fails, triggerVars
<1>9. ASSUME NEW r \in Run, NEW s \in Run, ManualRecovery(r, s) PROVE Goal
  BY <1>3, <1>4, <1>5, <1>9 DEF ManualRecovery, triggerVars
<1>10. ASSUME NEW s \in Run, TriggerChecks(s) PROVE Goal
  <2>1. asked' \in SUBSET Run /\ UNCHANGED <<receipts, disturbances>>
    BY <1>5, <1>10 DEF TriggerChecks
  <2>2. CASE UNCHANGED <<listed, trigger>>
    BY <1>3, <1>5, <2>1, <2>2
  <2>3. CASE \E shown \in SUBSET Run :
               /\ listed' = shown
               /\ trigger' \in {[pc |-> "eligible", source |-> s, before |-> {}], Idle}
    <3>1. [pc |-> "eligible", source |-> s, before |-> {}] \in TriggerType
      BY DEF TriggerType
    <3>2. trigger' \in TriggerType
      BY <2>3, <3>1, IdleType
    <3>3. TriggerOK'
      BY <2>3 DEF TriggerOK, Idle
    <3>4. listed' \in SUBSET Run /\ receipts' \in SUBSET [source : Run, child : Run]
      BY <1>1, <2>1, <2>3 DEF RestOK
    <3> QED BY <1>5, <2>1, <3>2, <3>3, <3>4
  <2> QED BY <1>10, <2>2, <2>3 DEF TriggerChecks
<1>11. ASSUME NEW r \in Run, TriggerPosts(r) PROVE Goal
  <2>1. PICK shown \in SUBSET Run :
          /\ listed' = shown
          /\ trigger' = [pc |-> "posted", source |-> trigger.source, before |-> shown]
    BY <1>11 DEF TriggerPosts
  <2>2. trigger.source \in Run /\ UNCHANGED <<asked, receipts, disturbances>>
    BY <1>1, <1>11 DEF TriggerPosts, TriggerOK
  <2> QED BY <1>1, <2>1, <2>2 DEF TriggerType, TriggerOK, RestOK
<1>12. CASE TriggerObserves
  <2>1. PICK shown \in SUBSET Run, child \in Run :
          /\ listed' = shown
          /\ receipts' = receipts \cup {[source |-> trigger.source, child |-> child]}
    BY <1>12 DEF TriggerObserves
  <2>2. trigger.source \in Run /\ trigger' = Idle /\ UNCHANGED <<asked, disturbances>>
    BY <1>1, <1>12 DEF TriggerObserves, TriggerOK
  <2>3. receipts' \in SUBSET [source : Run, child : Run]
    BY <1>1, <2>1, <2>2 DEF RestOK
  <2> QED BY <1>5, <2>1, <2>2, <2>3, IdleType DEF TriggerOK, Idle
<1>13. CASE TriggerGivesUp
  BY <1>1, <1>13, IdleType DEF TriggerGivesUp, TriggerOK, Idle, RestOK
<1>14. CASE UNCHANGED vars
  BY <1>3, <1>5, <1>14 DEF vars
<1> QED
  BY <1>6, <1>7, <1>8, <1>9, <1>10, <1>11, <1>12, <1>13, <1>14, <1>15 DEF Next

(* The reviewer repository's part of a step.                               *)
LEMMA RepoStep ==
  ASSUME TypeInv, WriteInv, [Next]_vars
  PROVE  /\ prompts' \in SUBSET Packages
         /\ requests' \in Seq([pkg : Packages, stage : Stages])
         /\ reviews' \in [Packages -> ReviewType]
         /\ \A i \in DOMAIN requests' : requests'[i].pkg \in prompts'
<1>1. RunsOK /\ RestOK
  BY DEF TypeInv
<1>2. prompts' \in SUBSET Packages /\ (prompts' # prompts => UNCHANGED requests)
  BY <1>1, PackageTypes DEF RestOK, Next, vars, repoVars, ArchitectDecides, BuildsPackage, PackagingFails,
     ReadsCurrent, ChecksPrior, PutsPrompt, PutsRequest, CallFails, AnswerLost, Crashes,
     Reruns, DecidesOtherwise, TriggerChecks, TriggerPosts, AskAgain, ReviewEnds, ManualRecovery,
     TriggerObserves, TriggerGivesUp
<1>3. reviews' \in [Packages -> ReviewType]
  <2>1. reviews \in [Packages -> ReviewType]
    BY <1>1 DEF RestOK, ReviewType
  <2>2. ASSUME NEW p \in Packages, ReviewEnds(p) PROVE reviews' \in [Packages -> ReviewType]
    <3>1. Ended \subseteq ReviewType
      BY DEF Ended, ReviewType
    <3> QED BY <2>1, <2>2, <3>1 DEF ReviewEnds
  <2> QED
    BY <2>1, <2>2 DEF Next, vars, repoVars, ArchitectDecides, BuildsPackage, PackagingFails,
       ReadsCurrent, ChecksPrior, PutsPrompt, PutsRequest, CallFails, AnswerLost, Crashes,
       Reruns, DecidesOtherwise, TriggerChecks, TriggerPosts, AskAgain, ManualRecovery,
       TriggerObserves, TriggerGivesUp
<1>4. CASE UNCHANGED requests /\ prompts \subseteq prompts'
  BY <1>1, <1>2, <1>3, <1>4 DEF RestOK
<1>5. ASSUME NEW r \in Run, Writes(r)
      PROVE  /\ requests' \in Seq([pkg : Packages, stage : Stages])
             /\ \A i \in DOMAIN requests' : requests'[i].pkg \in prompts'
  <2>1. PackageOf(r) \in prompts /\ UNCHANGED prompts
    BY <1>5 DEF Writes, CanReplace, WriteInv
  <2> QED BY <1>1, <1>5, <2>1, AppendsRequest DEF Writes
<1> QED BY <1>2, <1>3, <1>4, <1>5, StepCases

-----------------------------------------------------------------------------
(* The theorems *)

Inv == TypeInv /\ WriteInv

(* The inductive invariant of the dispatch holds in every reachable state. *)
LEMMA Invariance == Spec => []Inv
<1>1. Init => Inv
  BY TypeInit, WriteInit DEF Inv
<1>2. Inv /\ [Next]_vars => Inv'
  <2> SUFFICES ASSUME Inv, [Next]_vars PROVE Inv'
    OBVIOUS
  <2>1. TypeInv /\ WriteInv
    BY DEF Inv
  <2>2. RunsOK' /\ WriteInv' /\ TriggerOK'
    BY <2>1, RunsStep, WriteInvStep, TriggerStep
  <2>3. RestOK'
    BY <2>1, TriggerStep, RepoStep DEF RestOK, TriggerType, ReviewType
  <2> QED BY <2>2, <2>3 DEF Inv, TypeInv
<1> QED BY <1>1, <1>2, PTL DEF Spec

(* The dispatch of reviewer packages is well-typed, its concurrency groups *)
(* hold, and no request points to a prompt that is not in the repository.  *)
THEOREM DispatchTyped == Spec => []TypeOK
<1>1. Inv => TypeOK
  BY TypeParts DEF Inv, TypeInv
<1> QED BY <1>1, Invariance, PTL

(* A writer requests its package for the first time, and follows no        *)
(* equivalent request but a dead one (the version of current.json it read  *)
(* is the one it replaces).                                                *)
LEMMA WriteSubmits ==
  ASSUME Inv, NEW r \in Run, Writes(r)
  PROVE  Log!Submit(PackageOf(r), StageOf(r))
<1>1. RunsOK /\ RestOK /\ WriteInv
  BY DEF Inv, TypeInv
<1>2. PackageOf(r) \notin Log!Requested
  BY <1>1 DEF Writes, CanReplace, WriteInv
<1>3. ASSUME requests # <<>>,
             Log!Equivalent(requests[Len(requests)].stage, StageOf(r))
      PROVE  Repo = "DEEPSEEK" /\ Log!Dead(requests[Len(requests)].pkg)
  <2>1. CurrentRequest = requests[Len(requests)]
    BY <1>3 DEF CurrentRequest
  <2>2. CurrentRequest.pkg \in Packages /\ CurrentRequest.pkg # NoPackage
    <3>1. requests[Len(requests)] \in [pkg : Packages, stage : Stages]
      BY <1>1, <1>3, LastElement DEF RestOK
    <3> QED BY <2>1, <3>1, DefaultTypes
  <2>3. EquivalentRequest(CurrentRequest, StageOf(r))
    BY <1>3, <2>1, <2>2 DEF EquivalentRequest, Log!Equivalent
  <2>4. MayFollow(r) /\ sha[r] = CurrentRequest.pkg
    BY <1>1 DEF Writes, CanReplace, WriteInv
  <2> QED BY <2>1, <2>3, <2>4 DEF MayFollow, Supersedable, Log!Dead
<1> QED BY <1>2, <1>3 DEF Writes, Log!Submit

(* Whoever writes at the same time, whatever fails or is run again: the    *)
(* standing review stage is requested again only when its review is dead,  *)
(* and no package twice (dispatch_reviewer_request.py, its recovery).      *)
THEOREM RequestsKept == Spec => KeepsRequests
<1>1. Init => Log!Init
  BY DEF Init, Log!Init
<1>2. Inv /\ [Next]_vars => [Log!Next]_<<requests, reviews>>
  <2> SUFFICES ASSUME Inv, [Next]_vars PROVE [Log!Next]_<<requests, reviews>>
    OBVIOUS
  <2>1. TypeInv /\ RunsOK
    BY DEF Inv, TypeInv
  <2>2. ASSUME NEW r \in Run, Writes(r) PROVE Log!Next
    <3>1. PackageOf(r) \in Packages /\ StageOf(r) \in Log!Stages
      BY <2>1, PackageTypes DEF Stages, Log!Stages, Modes, Log!Modes
    <3> QED BY <2>2, <3>1, WriteSubmits DEF Log!Next
  <2>3. ASSUME NEW p \in Packages, ReviewEnds(p) PROVE Log!Next
    <3>1. Log!Review(p)
      BY <2>3 DEF ReviewEnds, Ended, Log!Review, Log!Requested
    <3> QED BY <3>1 DEF Log!Next
  <2>4. (\E p \in Packages : ReviewEnds(p)) \/ UNCHANGED reviews
    BY DEF Next, vars, repoVars, ArchitectDecides, BuildsPackage, PackagingFails,
       ReadsCurrent, ChecksPrior, PutsPrompt, PutsRequest, CallFails, AnswerLost, Crashes,
       Reruns, DecidesOtherwise, TriggerChecks, TriggerPosts, AskAgain, ManualRecovery,
       TriggerObserves, TriggerGivesUp
  <2> QED BY <2>1, <2>2, <2>3, <2>4, StepCases
<1> QED BY <1>1, <1>2, Invariance, PTL DEF Spec, KeepsRequests, Log!Spec

-----------------------------------------------------------------------------
(* Recoveries.  A recovery rests on the artifact of its source, a retry on *)
(* those of the attempts before: an artifact that shows a decision and no  *)
(* package is that of a run that failed before it wrote anything, unless   *)
(* the run was run again and kept an earlier artifact.  A run that failed  *)
(* at its first attempt stays as it is.                                    *)

Built == {"packaged", "superseding", "bound", "prompted"}

Unwritten(s) == attempt[s] = 1 => pc[s] = "failure" /\ ~Written(s)

(* The recoveries of s that the trigger has receipts of.                   *)
Known(s) == {m.child : m \in {n \in receipts : n.source = s}}

Attempted ==
  \A r \in Run : attempt[r] >= 1 /\ (pc[r] = "absent" => attempt[r] = 1)

DecisionsUnwritten ==
  \A r \in Run : attempt[r] = 1 =>
    /\ artifact[r].shows = "decision" => pc[r] = "failure" /\ ~Written(r)
    /\ pc[r] \in {"absent", "waiting", "cancelled", "packaging", "packaged",
                  "superseding", "bound"} => ~Written(r)

SourcesUnwritten ==
  \A r \in Run : run[r].kind = "recovery" =>
    /\ run[r].source \in Run
    /\ Written(r) \/ pc[r] \in Built => Unwritten(run[r].source)

KnownListed ==
  \A m \in receipts : m.child \in listed /\ m.child \in RecoveriesOf(m.source)

EligibleUnwritten ==
  trigger.pc = "eligible" =>
    /\ Cardinality(Known(trigger.source)) < MAX_RECOVERY_ATTEMPTS
    /\ \A q \in Known(trigger.source) : Unwritten(q)

RecoverInv ==
  Attempted /\ DecisionsUnwritten /\ SourcesUnwritten /\ KnownListed /\ EligibleUnwritten

(* The kinds of steps.  An active run r goes on or ends; a new run starts. *)
Works(r) ==
  /\ pc[r] \in Active
  /\ UNCHANGED <<run, attempt, listed, trigger, receipts>>
  /\ \A q \in Run \ {r} :
       /\ artifact'[q] = artifact[q]
       /\ pc'[q] = pc[q] \/ (pc[q] = "waiting" /\ pc'[q] = "packaging")
  /\ pc'[r] \in Built \cup {"success", "failure"}
  /\ pc'[r] \in Built /\ pc[r] = "packaging" => Prepared(r)
  /\ pc'[r] \in {"packaged", "superseding", "bound"} =>
       pc[r] \in {"packaging", "packaged", "superseding"} /\ prompts' = prompts
  /\ attempt[r] = 1 /\ artifact'[r].shows = "decision" =>
       \/ artifact[r].shows = "decision"
       \/ pc[r] = "packaging" /\ pc'[r] = "failure"
  /\ prompts' = prompts \/ (prompts' = prompts \cup {PackageOf(r)} /\ pc[r] = "bound")

Starts(r) ==
  /\ pc[r] = "absent" /\ pc'[r] \in {"waiting", "packaging"}
  /\ UNCHANGED <<attempt, artifact, prompts, receipts>>
  /\ \A q \in Run \ {r} :
       /\ run'[q] = run[q]
       /\ pc'[q] = pc[q] \/ (pc[q] = "waiting" /\ pc'[q] = "cancelled")
  /\ run'[r].kind = "recovery" => run'[r].source \in Run
  /\ listed \subseteq listed'
  /\ trigger' = trigger \/ trigger'.pc # "eligible"

RunsStand == UNCHANGED <<runVars, prompts>> /\ listed \subseteq listed'

LEMMA EndsWorks ==
  ASSUME RunsOK, NEW r \in Run, pc[r] \in Active, NEW end \in {"success", "failure"},
         NEW shows \in {"none", "decision", "package"},
         Ends(r, end, shows), UNCHANGED <<listed, trigger, receipts>>,
         shows = "decision" => pc[r] = "packaging" /\ end = "failure",
         prompts' = prompts \/ (prompts' = prompts \cup {PackageOf(r)} /\ pc[r] = "bound")
  PROVE  Works(r)
<1>1. /\ UNCHANGED <<run, attempt>>
      /\ pc'[r] = end
      /\ \A q \in Run \ {r} : pc'[q] = pc[q] \/ (pc[q] = "waiting" /\ pc'[q] = "packaging")
  BY DEF Ends
<1>2. PICK a \in (IF attempt[r] = 1 THEN {Uploaded(r, shows)}
                 ELSE {Uploaded(r, shows), artifact[r], Nothing}) :
        artifact' = [artifact EXCEPT ![r] = a]
  BY DEF Ends
<1>3. artifact'[r] = a /\ \A q \in Run \ {r} : artifact'[q] = artifact[q]
  BY <1>2 DEF RunsOK
<1>4. attempt[r] = 1 /\ artifact'[r].shows = "decision" =>
        pc[r] = "packaging" /\ pc'[r] = "failure"
  BY <1>1, <1>2, <1>3, UploadedType
<1> QED BY <1>1, <1>3, <1>4 DEF Works, Built

LEMMA MovesWorks ==
  ASSUME RunsOK, NEW r \in Run, pc[r] \in Active, NEW to \in Built, Moves(r, to),
         UNCHANGED <<listed, trigger, receipts>>,
         pc[r] = "packaging" => Prepared(r),
         to # "prompted" => pc[r] \in {"packaging", "packaged", "superseding"}
                              /\ prompts' = prompts,
         prompts' = prompts \/ (prompts' = prompts \cup {PackageOf(r)} /\ pc[r] = "bound")
  PROVE  Works(r)
<1>1. /\ pc'[r] = to /\ \A q \in Run \ {r} : pc'[q] = pc[q]
      /\ UNCHANGED <<run, attempt, artifact>>
  BY DEF Moves, RunsOK
<1> QED BY <1>1 DEF Works, Built

LEMMA CreatedStarts ==
  ASSUME RunsOK, NEW r \in Run, FreshRun(r), NEW s \in Run, Created(r, s),
         UNCHANGED <<prompts, receipts>>, listed \subseteq listed',
         trigger' = trigger \/ trigger'.pc # "eligible"
  PROVE  Starts(r)
BY DEF Starts, FreshRun, Created, RunsOK, Identity

LEMMA RecoverySteps ==
  ASSUME TypeInv, [Next]_vars
  PROVE  \/ \E r \in Run : Works(r) \/ Starts(r) \/ Reruns(r) \/ TriggerChecks(r)
         \/ TriggerObserves
         \/ RunsStand /\ UNCHANGED receipts /\ (trigger' = trigger \/ trigger' = Idle)
<1>0. RunsOK /\ RestOK /\ TriggerOK
  BY DEF TypeInv
<1> USE DEF Active
<1>1. ASSUME NEW r \in Run, ArchitectDecides(r) PROVE Starts(r)
  <2>1. run' = [run EXCEPT ![r] = Identity("architect", NoRun)]
    BY <1>1 DEF ArchitectDecides
  <2>2. run'[r].kind = "architect" /\ \A q \in Run \ {r} : run'[q] = run[q]
    BY <1>0, <2>1 DEF RunsOK, Identity
  <2> QED BY <1>0, <1>1, <2>2 DEF ArchitectDecides, Starts, FreshRun, RunsOK,
       repoVars, triggerVars
<1>2. ASSUME NEW r \in Run, BuildsPackage(r) PROVE Works(r)
  BY <1>0, <1>2 DEF BuildsPackage, RunsOK, Works, Built, repoVars, triggerVars
<1>3. ASSUME NEW r \in Run, PackagingFails(r) PROVE Works(r)
  <2>1. PICK shows \in {"none", "decision"} : Ends(r, "failure", shows)
    BY <1>3 DEF PackagingFails, Fails
  <2> QED BY <1>0, <1>3, <2>1, EndsWorks DEF PackagingFails, repoVars
<1>4. ASSUME NEW r \in Run, ReadsCurrent(r) PROVE Works(r)
  <2>1. \/ Moves(r, "bound") \/ Moves(r, "superseding") \/ Ends(r, "failure", "package")
    BY <1>4 DEF ReadsCurrent, Binds, Fails
  <2>2. pc[r] = "packaged" /\ UNCHANGED <<listed, trigger, receipts, prompts>>
    BY <1>4 DEF ReadsCurrent, repoVars
  <2> QED BY <1>0, <2>1, <2>2, MovesWorks, EndsWorks DEF Built
<1>5. ASSUME NEW r \in Run, ChecksPrior(r) PROVE Works(r)
  <2>1. \/ Moves(r, "bound") \/ Ends(r, "failure", "package")
    BY <1>5 DEF ChecksPrior, Fails
  <2>2. pc[r] = "superseding" /\ UNCHANGED <<listed, trigger, receipts, prompts>>
    BY <1>5 DEF ChecksPrior, repoVars
  <2> QED BY <1>0, <2>1, <2>2, MovesWorks, EndsWorks DEF Built
<1>6. ASSUME NEW r \in Run, PutsPrompt(r) PROVE Works(r)
  <2>1. /\ pc[r] = "bound" /\ prompts' = prompts \cup {PackageOf(r)} /\ Moves(r, "prompted")
        /\ UNCHANGED <<listed, trigger, receipts>>
    BY <1>6 DEF PutsPrompt, CanCreate, triggerVars
  <2> QED BY <1>0, <2>1, MovesWorks DEF Built
<1>7. ASSUME NEW r \in Run, PutsRequest(r) PROVE Works(r)
  <2>1. /\ pc[r] = "prompted" /\ Ends(r, "success", "package")
        /\ UNCHANGED <<listed, trigger, receipts, prompts>>
    BY <1>7 DEF PutsRequest, CanReplace, triggerVars
  <2> QED BY <1>0, <2>1, EndsWorks
<1>8. ASSUME NEW r \in Run, CallFails(r) PROVE Works(r)
  <2>1. /\ pc[r] \in Active /\ Ends(r, "failure", "package")
        /\ UNCHANGED <<listed, trigger, receipts, prompts>>
    BY <1>8 DEF CallFails, Fails, repoVars
  <2> QED BY <1>0, <2>1, EndsWorks
<1>9. ASSUME NEW r \in Run, AnswerLost(r) PROVE Works(r)
  <2>1. /\ pc[r] \in Active /\ Ends(r, "failure", "package")
        /\ UNCHANGED <<listed, trigger, receipts>>
        /\ prompts' = prompts \/ (prompts' = prompts \cup {PackageOf(r)} /\ pc[r] = "bound")
    BY <1>9 DEF AnswerLost, Fails, CanCreate, CanReplace
  <2> QED BY <1>0, <2>1, EndsWorks
<1>10. ASSUME NEW r \in Run, Crashes(r) PROVE Works(r)
  <2>1. /\ pc[r] \in Active /\ Ends(r, "failure", "none")
        /\ UNCHANGED <<listed, trigger, receipts, prompts>>
    BY <1>10 DEF Crashes, Fails, repoVars
  <2> QED BY <1>0, <2>1, EndsWorks
<1>14. ASSUME NEW r \in Run, DecidesOtherwise(r) PROVE Works(r)
  <2>1. /\ pc[r] \in Active /\ \E end \in {"success", "failure"} : Ends(r, end, "none")
        /\ UNCHANGED <<listed, trigger, receipts, prompts>>
    BY <1>14 DEF DecidesOtherwise, Fails, repoVars
  <2> QED BY <1>0, <2>1, EndsWorks
<1>11. ASSUME NEW r \in Run, TriggerPosts(r) PROVE Starts(r)
  <2>1. /\ FreshRun(r) /\ Created(r, trigger.source) /\ trigger.source \in Run
        /\ UNCHANGED <<prompts, receipts>> /\ listed \subseteq listed'
        /\ trigger'.pc = "posted"
    BY <1>0, <1>11 DEF TriggerPosts, Reads, TriggerOK, repoVars
  <2> QED BY <1>0, <2>1, CreatedStarts
<1>12. ASSUME NEW r \in Run, NEW s \in Run, ManualRecovery(r, s) PROVE Starts(r)
  <2>1. /\ FreshRun(r) /\ Created(r, s)
        /\ UNCHANGED <<prompts, receipts, listed, trigger>>
    BY <1>12 DEF ManualRecovery, repoVars, triggerVars
  <2> QED BY <1>0, <2>1, CreatedStarts
<1>13. ASSUME \/ \E r \in Run : AskAgain(r)
              \/ \E p \in Packages : ReviewEnds(p)
              \/ TriggerGivesUp \/ UNCHANGED vars
       PROVE  RunsStand /\ UNCHANGED receipts /\ (trigger' = trigger \/ trigger' = Idle)
  BY <1>13 DEF AskAgain, ReviewEnds, TriggerGivesUp, vars, RunsStand, runVars, repoVars,
     triggerVars
<1> QED
  BY <1>1, <1>2, <1>3, <1>4, <1>5, <1>6, <1>7, <1>8, <1>9, <1>10, <1>11, <1>12, <1>13,
     <1>14 DEF Next

RecoveryStep ==
  \/ \E r \in Run : Works(r) \/ Starts(r) \/ Reruns(r)
  \/ RunsStand

LEMMA RerunFields ==
  ASSUME RunsOK, NEW r \in Run, Reruns(r)
  PROVE  /\ UNCHANGED <<run, artifact, listed, prompts, receipts, trigger>>
         /\ pc[r] \in Completed /\ pc'[r] = "packaging" /\ attempt'[r] = attempt[r] + 1
         /\ \A q \in Run \ {r} : pc'[q] = pc[q] /\ attempt'[q] = attempt[q]
BY DEF Reruns, RunsOK, repoVars, triggerVars

LEMMA RestFields ==
  ASSUME RunsStand
  PROVE  UNCHANGED <<run, pc, attempt, artifact, prompts>> /\ listed \subseteq listed'
BY DEF RunsStand, runVars

(* A working run writes prompts of its own.                                *)
LEMMA WrittenBy ==
  ASSUME NEW r \in Run, Works(r), NEW q \in Run
  PROVE  /\ Written(q)' => Written(q) \/ (q = r /\ pc[r] = "bound")
         /\ prompts' = prompts => Written(q)' = Written(q)
BY DEF Works, Written, PackageOf

LEMMA WrittenSame ==
  ASSUME UNCHANGED prompts
  PROVE  \A q \in Run : Written(q)' = Written(q)
BY DEF Written

(* A run that failed at its first attempt, unwritten, stays so.            *)
LEMMA StaysUnwritten ==
  ASSUME TypeInv, Attempted, RecoveryStep, NEW s \in Run, Unwritten(s)
  PROVE  Unwritten(s)'
<1>0. RunsOK /\ \A r \in Run : attempt[r] \in Nat /\ attempt[r] >= 1
  BY DEF TypeInv, RunsOK, Attempted
<1>1. ASSUME NEW r \in Run, Works(r) PROVE Unwritten(s)'
  BY <1>1, WrittenBy DEF Unwritten, Works, Active
<1>2. ASSUME NEW r \in Run, Starts(r) PROVE Unwritten(s)'
  BY <1>2 DEF Starts, Unwritten, Written
<1>3. ASSUME NEW r \in Run, Reruns(r) PROVE Unwritten(s)'
  <2>1. CASE s = r
    <3>1. attempt'[s] # 1
      BY <1>0, <1>3, <2>1, RerunFields
    <3> QED BY <3>1 DEF Unwritten
  <2>2. CASE s # r
    BY <1>0, <1>3, <2>2, RerunFields DEF Unwritten, Written
  <2> QED BY <2>1, <2>2
<1>4. CASE RunsStand
  BY <1>4, RestFields DEF Unwritten, Written
<1> QED BY <1>1, <1>2, <1>3, <1>4 DEF RecoveryStep

LEMMA AttemptsGrow ==
  ASSUME TypeInv, Attempted, RecoveryStep
  PROVE  Attempted'
<1>0. RunsOK /\ \A r \in Run : attempt[r] \in Nat /\ attempt[r] >= 1
  BY DEF TypeInv, RunsOK, Attempted
<1>1. ASSUME NEW r \in Run, Reruns(r) PROVE Attempted'
  BY <1>0, <1>1, RerunFields DEF Attempted
<1>2. ASSUME UNCHANGED attempt, \A q \in Run : pc'[q] = "absent" => pc[q] = "absent"
      PROVE  Attempted'
  BY <1>0, <1>2 DEF Attempted
<1>3. ASSUME NEW r \in Run, Works(r) \/ Starts(r) PROVE Attempted'
  BY <1>2, <1>3 DEF Works, Starts, Built
<1> QED BY <1>1, <1>2, <1>3, RestFields DEF RecoveryStep

LEMMA DecisionsStep ==
  ASSUME TypeInv, Attempted, DecisionsUnwritten, RecoveryStep
  PROVE  DecisionsUnwritten'
<1>0. RunsOK /\ \A r \in Run : attempt[r] \in Nat /\ attempt[r] >= 1
  BY DEF TypeInv, RunsOK, Attempted
<1>1. ASSUME NEW r \in Run, Works(r) PROVE DecisionsUnwritten'
  <2>1. ASSUME NEW q \in Run, attempt'[q] = 1
        PROVE  /\ artifact'[q].shows = "decision" => pc'[q] = "failure" /\ ~Written(q)'
               /\ pc'[q] \in {"absent", "waiting", "cancelled", "packaging", "packaged",
                              "superseding", "bound"} => ~Written(q)'
    <3>1. attempt[q] = 1
      BY <1>1, <2>1 DEF Works
    <3>2. CASE q # r
      BY <1>1, <3>1, <3>2, WrittenBy DEF Works, DecisionsUnwritten
    <3>3. CASE q = r
      <4>1. artifact[r].shows # "decision"
        BY <1>1, <3>1, <3>3 DEF Works, DecisionsUnwritten, Active
      <4>2. artifact'[r].shows = "decision" =>
              pc[r] = "packaging" /\ pc'[r] = "failure" /\ ~Written(r)'
        BY <1>1, <3>1, <3>3, <4>1, WrittenBy DEF Works, DecisionsUnwritten
      <4>3. pc'[r] \in {"packaged", "superseding", "bound"} => ~Written(r)'
        BY <1>1, <3>1, <3>3, WrittenBy DEF Works, DecisionsUnwritten
      <4>4. pc'[r] \in Built \cup {"success", "failure"}
        BY <1>1 DEF Works
      <4> QED BY <3>3, <4>2, <4>3, <4>4 DEF Built
    <3> QED BY <3>2, <3>3
  <2> QED BY <2>1 DEF DecisionsUnwritten
<1>2. ASSUME NEW r \in Run, Starts(r) PROVE DecisionsUnwritten'
  BY <1>2 DEF Starts, DecisionsUnwritten, Written
<1>3. ASSUME NEW r \in Run, Reruns(r) PROVE DecisionsUnwritten'
  <2>1. attempt'[r] # 1
    BY <1>0, <1>3, RerunFields
  <2> QED BY <1>0, <1>3, <2>1, RerunFields DEF DecisionsUnwritten, Written
<1>4. CASE RunsStand
  BY <1>4, RestFields DEF DecisionsUnwritten, Written
<1> QED BY <1>1, <1>2, <1>3, <1>4 DEF RecoveryStep

(* A recovery builds its package when the artifact of its source shows that*)
(* nothing was written.                                                    *)
LEMMA SourcesStep ==
  ASSUME TypeInv, Attempted, DecisionsUnwritten, SourcesUnwritten, RecoveryStep
  PROVE  SourcesUnwritten'
<1>0. RunsOK
  BY DEF TypeInv
<1>1. ASSUME NEW q \in Run, run[q].kind = "recovery", run'[q] = run[q],
             Written(q)' \/ pc'[q] \in Built => Written(q) \/ pc[q] \in Built
      PROVE  /\ run'[q].source \in Run
             /\ Written(q)' \/ pc'[q] \in Built => Unwritten(run[q].source)'
  BY <1>1, StaysUnwritten DEF SourcesUnwritten
<1>2. ASSUME NEW r \in Run, Works(r) PROVE SourcesUnwritten'
  <2>1. ASSUME NEW q \in Run, run'[q].kind = "recovery"
        PROVE  /\ run'[q].source \in Run
               /\ Written(q)' \/ pc'[q] \in Built => Unwritten(run[q].source)'
    <3>0. run' = run
      BY <1>2 DEF Works
    <3>1. CASE Written(q)' \/ pc'[q] \in Built => Written(q) \/ pc[q] \in Built
      BY <1>1, <2>1, <3>0, <3>1
    <3>2. CASE ~(Written(q) \/ pc[q] \in Built) /\ (Written(q)' \/ pc'[q] \in Built)
      <4>1. q = r
        BY <1>2, <3>2, WrittenBy DEF Works, Built
      <4>2. pc[r] = "packaging" /\ pc'[r] \in Built
        BY <1>2, <3>2, <4>1, WrittenBy DEF Works, Built, Active
      <4>3. Recoverable(run[r].source) /\ run[r].source \in Run
        BY <1>2, <2>1, <3>0, <4>1, <4>2 DEF Works, Prepared, SourcesUnwritten
      <4>4. Unwritten(run[r].source)
        BY <4>3 DEF Recoverable, DecisionsUnwritten, Unwritten
      <4> QED BY <3>0, <4>1, <4>3, <4>4, StaysUnwritten
    <3> QED BY <3>1, <3>2
  <2>2. run' = run
    BY <1>2 DEF Works
  <2> QED BY <2>1, <2>2 DEF SourcesUnwritten, Unwritten
<1>3. ASSUME NEW r \in Run, Starts(r) PROVE SourcesUnwritten'
  <2>1. attempt[r] \in Nat /\ run[r].kind = "none"
    BY <1>0, <1>3 DEF RunsOK, GroupsOK, Starts
  <2>2. ASSUME NEW q \in Run, q # r, run'[q].kind = "recovery"
        PROVE  /\ run'[q].source \in Run
               /\ Written(q)' \/ pc'[q] \in Built => Unwritten(run[q].source)'
    BY <1>1, <1>3, <2>2, WrittenSame DEF Starts, Built
  <2>3. run'[r].kind = "recovery" => run'[r].source \in Run
    BY <1>3 DEF Starts
  <2>4. pc'[r] \notin Built /\ ~Written(r)'
    BY <1>3, WrittenSame DEF Starts, Built, Attempted, DecisionsUnwritten
  <2> QED BY <2>2, <2>3, <2>4 DEF SourcesUnwritten, Unwritten
<1>4. ASSUME NEW r \in Run, Reruns(r) PROVE SourcesUnwritten'
  <2>1. run' = run /\ prompts' = prompts /\ \A q \in Run : pc'[q] \in Built => pc[q] \in Built
    BY <1>0, <1>4, RerunFields DEF Built
  <2> QED BY <1>1, <2>1, WrittenSame DEF SourcesUnwritten, Unwritten
<1>5. CASE RunsStand
  <2>1. run' = run /\ prompts' = prompts /\ \A q \in Run : pc'[q] \in Built => pc[q] \in Built
    BY <1>5, RestFields
  <2> QED BY <1>1, <2>1, WrittenSame DEF SourcesUnwritten, Unwritten
<1> QED BY <1>2, <1>3, <1>4, <1>5 DEF RecoveryStep

LEMMA KnownStep ==
  ASSUME TypeInv, KnownListed, [Next]_vars
  PROVE  KnownListed'
<1>0. RunsOK /\ RestOK /\ TriggerOK
  BY DEF TypeInv
<1>1. ASSUME UNCHANGED <<run, receipts>>, listed \subseteq listed' PROVE KnownListed'
  BY <1>1 DEF KnownListed, RecoveriesOf
<1>2. ASSUME NEW r \in Run, Works(r) PROVE KnownListed'
  BY <1>1, <1>2 DEF Works
<1>3. ASSUME NEW r \in Run, Starts(r) PROVE KnownListed'
  <2>1. run[r].kind = "none"
    BY <1>0, <1>3 DEF RunsOK, GroupsOK, Starts
  <2>2. \A m \in receipts : m.child # r
    BY <2>1 DEF KnownListed, RecoveriesOf
  <2> QED BY <1>3, <2>2 DEF KnownListed, RecoveriesOf, Starts
<1>4. ASSUME NEW r \in Run, Reruns(r) PROVE KnownListed'
  BY <1>0, <1>1, <1>4, RerunFields
<1>5. ASSUME NEW r \in Run, TriggerChecks(r) PROVE KnownListed'
  BY <1>1, <1>5 DEF TriggerChecks, Reads, runVars
<1>6. CASE TriggerObserves
  <2>1. PICK shown \in SUBSET Run, child \in Run :
          /\ listed \subseteq shown /\ listed' = shown
          /\ child \in shown \cap RecoveriesOf(trigger.source)
          /\ receipts' = receipts \cup {[source |-> trigger.source, child |-> child]}
    BY <1>6 DEF TriggerObserves, Reads, NewAttempts
  <2>2. run' = run
    BY <1>6 DEF TriggerObserves, runVars
  <2> QED BY <2>1, <2>2 DEF KnownListed, RecoveriesOf
<1>7. CASE RunsStand /\ UNCHANGED receipts
  BY <1>1, <1>7, RestFields
<1> QED BY <1>2, <1>3, <1>4, <1>5, <1>6, <1>7, RecoverySteps

(* The trigger finds a source eligible when every attempt that is listed   *)
(* has failed with nothing but a decision to show; the ones it has receipts*)
(* of are listed.  The receipts do not change until it has posted.         *)
LEMMA EligibleStep ==
  ASSUME TypeInv, RecoverInv, RecoveryStep, [Next]_vars
  PROVE  EligibleUnwritten'
<1>0. RunsOK /\ RestOK /\ TriggerOK
  BY DEF TypeInv
<1>1. ASSUME trigger' = trigger, UNCHANGED receipts PROVE EligibleUnwritten'
  <2> SUFFICES ASSUME trigger.pc = "eligible" PROVE EligibleUnwritten'
    BY <1>1 DEF EligibleUnwritten
  <2>1. Known(trigger.source)' = Known(trigger.source)
    BY <1>1 DEF Known
  <2>2. Known(trigger.source) \subseteq Run
    BY <1>0 DEF Known, RestOK
  <2>3. \A q \in Known(trigger.source) : Unwritten(q)'
    BY <2>2, StaysUnwritten DEF RecoverInv, EligibleUnwritten
  <2> QED BY <2>1, <2>3 DEF RecoverInv, EligibleUnwritten, Unwritten
<1>2. ASSUME trigger'.pc # "eligible" PROVE EligibleUnwritten'
  BY <1>2 DEF EligibleUnwritten
<1>3. ASSUME NEW s \in Run, TriggerChecks(s) PROVE EligibleUnwritten'
  <2>0. UNCHANGED <<run, pc, sha, attempt, artifact, prompts, receipts>>
    BY <1>3 DEF TriggerChecks, runVars, repoVars
  <2>1. CASE trigger' = trigger
    BY <1>1, <2>0, <2>1
  <2>2. CASE trigger' # trigger
    <3>1. PICK shown \in SUBSET Run :
            /\ listed \subseteq shown
            /\ trigger' = IF RetryEligible(shown \cap RecoveriesOf(s))
                          THEN [pc |-> "eligible", source |-> s, before |-> {}]
                          ELSE Idle
      BY <1>3, <2>2 DEF TriggerChecks, Reads
    <3> DEFINE attempts == shown \cap RecoveriesOf(s)
    <3>2. CASE ~RetryEligible(attempts)
      BY <1>2, <3>1, <3>2 DEF Idle
    <3>3. CASE RetryEligible(attempts)
      <4>1. trigger'.source = s
        BY <3>1, <3>3
      <4>2. Known(trigger.source)' = Known(s)
        BY <2>0, <4>1 DEF Known
      <4>3. Known(s) \subseteq attempts
        BY <3>1 DEF Known, RecoverInv, KnownListed
      <4>4. IsFiniteSet(attempts)
        <5>1. IsFiniteSet(Run)
          BY FS_Interval, DispatchAssumption DEF Run
        <5> QED BY <5>1, FS_Subset
      <4>5. Cardinality(Known(s)) < MAX_RECOVERY_ATTEMPTS
        <5>1. /\ Cardinality(Known(s)) <= Cardinality(attempts)
              /\ IsFiniteSet(Known(s))
          BY <4>3, <4>4, FS_Subset
        <5>2. Cardinality(Known(s)) \in Nat /\ Cardinality(attempts) \in Nat
          BY <4>4, <5>1, FS_CardinalityType
        <5>3. Cardinality(attempts) < MAX_RECOVERY_ATTEMPTS
          BY <3>3 DEF RetryEligible
        <5> QED BY <5>1, <5>2, <5>3, DispatchAssumption
      <4>6. \A q \in Known(s) : Unwritten(q)
        BY <3>3, <4>3 DEF RetryEligible, Retryable, RecoverInv, DecisionsUnwritten, Unwritten
      <4> QED BY <2>0, <4>2, <4>5, <4>6 DEF EligibleUnwritten, Unwritten, Written
    <3> QED BY <3>2, <3>3
  <2> QED BY <2>1, <2>2
<1>4. CASE TriggerObserves
  BY <1>2, <1>4 DEF TriggerObserves, Idle
<1>5. CASE RunsStand /\ UNCHANGED receipts /\ (trigger' = trigger \/ trigger' = Idle)
  BY <1>1, <1>2, <1>5 DEF Idle
<1>6. ASSUME NEW r \in Run, Works(r) \/ Starts(r) PROVE EligibleUnwritten'
  BY <1>1, <1>2, <1>6 DEF Works, Starts
<1>7. ASSUME NEW r \in Run, Reruns(r) PROVE EligibleUnwritten'
  BY <1>0, <1>1, <1>7, RerunFields
<1> QED BY <1>3, <1>4, <1>5, <1>6, <1>7, RecoverySteps

LEMMA RecoverInvInit == Init => RecoverInv
BY DEF Init, RecoverInv, Attempted, DecisionsUnwritten, SourcesUnwritten, KnownListed,
   EligibleUnwritten, Identity, Idle, Nothing, Written

LEMMA RecoverInvStep == TypeInv /\ RecoverInv /\ [Next]_vars => RecoverInv'
<1> SUFFICES ASSUME TypeInv, RecoverInv, [Next]_vars PROVE RecoverInv'
  OBVIOUS
<1>1. RecoveryStep
  <2>1. ASSUME NEW r \in Run, TriggerChecks(r) PROVE RunsStand
    BY <2>1 DEF TriggerChecks, Reads, RunsStand, repoVars
  <2>2. TriggerObserves => RunsStand
    BY DEF TriggerObserves, Reads, RunsStand, repoVars
  <2> QED BY <2>1, <2>2, RecoverySteps DEF RecoveryStep
<1> QED
  BY <1>1, AttemptsGrow, DecisionsStep, SourcesStep, KnownStep, EligibleStep
     DEF RecoverInv

(* No decision is recovered that was already written, unless its source run*)
(* was run again: a request of a recovery has an unwritten source.         *)
THEOREM RecoveriesUnwritten == Spec => []RecoveredUnwritten
<1>1. Inv /\ RecoverInv => RecoveredUnwritten
  <2> SUFFICES ASSUME Inv, RecoverInv, NEW i \in DOMAIN requests,
                      run[requests[i].pkg.run].kind = "recovery",
                      attempt[run[requests[i].pkg.run].source] = 1
               PROVE  ~Written(run[requests[i].pkg.run].source)
    BY DEF RecoveredUnwritten
  <2>1. requests[i].pkg \in prompts /\ requests[i].pkg.run \in Run
    BY DEF Inv, TypeInv, RestOK, Packages
  <2>2. Written(requests[i].pkg.run)
    BY <2>1 DEF Written
  <2> QED BY <2>1, <2>2 DEF RecoverInv, SourcesUnwritten, Unwritten
<1>2. Inv => TypeInv
  BY DEF Inv
<1> QED BY <1>1, <1>2, Invariance, RecoverInvInit, RecoverInvStep, PTL DEF Spec

(* A source is tried again only when the attempts the trigger has receipts *)
(* of are fewer than the cap, and failed without writing unless they were  *)
(* run again.                                                              *)
THEOREM RetriesKept == Spec => RetriesOnlyWhatFailed
<1> DEFINE Kept ==
      \A r \in Run :
        pc[r] = "absent" /\ run'[r].kind = "recovery" /\ trigger.pc = "eligible"
          /\ trigger'.pc = "posted" =>
          LET known == {m.child : m \in {n \in receipts : n.source = run'[r].source}}
          IN  /\ Cardinality(known) < MAX_RECOVERY_ATTEMPTS
              /\ \A q \in known :
                   attempt[q] = 1 => pc[q] = "failure" /\ ~Written(q)
<1>1. TypeInv /\ RecoverInv /\ [Next]_vars => Kept
  <2> SUFFICES ASSUME TypeInv, RecoverInv, [Next]_vars, NEW r \in Run,
                      pc[r] = "absent", run'[r].kind = "recovery",
                      trigger.pc = "eligible", trigger'.pc = "posted"
               PROVE  LET known == {m.child : m \in {n \in receipts : n.source = run'[r].source}}
                      IN  /\ Cardinality(known) < MAX_RECOVERY_ATTEMPTS
                          /\ \A q \in known :
                               attempt[q] = 1 => pc[q] = "failure" /\ ~Written(q)
    OBVIOUS
  <2>1. PICK p \in Run : TriggerPosts(p)
    <3>1. ASSUME NEW p \in Run, TriggerChecks(p) PROVE FALSE
      BY <3>1 DEF TriggerChecks
    <3>2. TriggerObserves \/ TriggerGivesUp => FALSE
      BY DEF TriggerObserves, TriggerGivesUp, Idle
    <3>3. ASSUME NEW p \in Run, \/ ArchitectDecides(p) \/ BuildsPackage(p)
                                \/ PackagingFails(p) \/ ReadsCurrent(p) \/ ChecksPrior(p)
                                \/ PutsPrompt(p) \/ PutsRequest(p) \/ CallFails(p)
                                \/ DecidesOtherwise(p)
          PROVE  FALSE
      BY <3>3 DEF ArchitectDecides, BuildsPackage, PackagingFails, ReadsCurrent, ChecksPrior,
         PutsPrompt, PutsRequest, CallFails, DecidesOtherwise, triggerVars
    <3>4. ASSUME NEW p \in Run, \/ AnswerLost(p) \/ Crashes(p) \/ Reruns(p) \/ AskAgain(p)
                                \/ \E s \in Run : ManualRecovery(p, s)
          PROVE  FALSE
      BY <3>4 DEF AnswerLost, Crashes, Reruns, AskAgain, ManualRecovery, triggerVars
    <3>6. ASSUME NEW p \in Packages, ReviewEnds(p) PROVE FALSE
      BY <3>6 DEF ReviewEnds, triggerVars
    <3>5. UNCHANGED vars => FALSE
      BY DEF vars
    <3> QED BY <3>1, <3>2, <3>3, <3>4, <3>5, <3>6 DEF Next
  <2>2. run' = [run EXCEPT ![p] = Identity("recovery", trigger.source)]
    BY <2>1 DEF TriggerPosts, Created
  <2>3. run[r].kind = "none"
    BY DEF TypeInv, RunsOK, GroupsOK
  <2>4. run'[r].source = trigger.source
    BY <2>2, <2>3 DEF TypeInv, RunsOK, Identity
  <2> QED BY <2>4 DEF RecoverInv, EligibleUnwritten, Known, Unwritten
<1>2. TypeInv /\ RecoverInv /\ [Next]_vars => [Kept]_vars
  BY <1>1
<1>3. Inv => TypeInv
  BY DEF Inv
<1> QED
  BY <1>2, <1>3, Invariance, RecoverInvInit, RecoverInvStep, PTL
     DEF Spec, RetriesOnlyWhatFailed
=============================================================================
