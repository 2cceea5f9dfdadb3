--------------------------- MODULE ReviewerDispatch ---------------------------
(***************************************************************************)
(* How review packages reach one reviewer repository.                      *)
(*                                                                         *)
(* An architect run builds a package and writes it in two commits, the     *)
(* prompt and then requests/current.json; the push of the latter starts    *)
(* the review there.  When the run fails before it has built a package, a  *)
(* trigger workflow dispatches a recovery run, which builds a package of   *)
(* the same decision and writes it, also over a request whose review is    *)
(* dead.  Architects, recoveries and the trigger run in parallel.          *)
(***************************************************************************)
EXTENDS Naturals, Sequences, FiniteSets

CONSTANTS
  Repo,                   \* the reviewer repository: "CLAUDE" or "DEEPSEEK"
  Targets,                \* what is reviewed: pull request, head, synthetic merge
  Decisions,              \* Sol's decisions on a review here: main, kind of review
  MAX_RECOVERY_ATTEMPTS,  \* recovery runs for one source run (3)
  MaxRuns,                \* bound: architect and recovery runs in a behaviour
  MaxDisturbances,        \* bound: human acts and faults in a behaviour
  Disturbances            \* the kinds of human acts and faults considered

Modes == IF Repo = "CLAUDE" THEN {"technical"} ELSE {"expert", "coder"}

ASSUME DispatchAssumption ==
  /\ Repo \in {"CLAUDE", "DEEPSEEK"} /\ Targets # {}
  /\ Decisions # {} /\ \A d \in Decisions : d.mode \in Modes
  /\ MAX_RECOVERY_ATTEMPTS \in Nat \ {0}
  /\ MaxRuns \in Nat \ {0} /\ MaxDisturbances \in Nat

VARIABLES
  run,       \* architect and recovery runs: kind, source
  draft,     \* what a run packages: its decision and the target it read
  pc,        \* how far a run is
  sha,       \* the package in the version of current.json a run has bound
  attempt,   \* how often a run was started
  artifact,  \* what the artifact of a run shows
  listed,    \* the recovery runs that GitHub's listing shows
  prompts,   \* the packages whose prompt is in the reviewer repository
  requests,  \* the versions of requests/current.json, the last one current
  reviews,   \* the review run of a package
  asked,     \* failed architect runs whose recovery was asked for
  trigger,   \* the trigger run in progress
  receipts,  \* the receipts of trigger runs that observed their recovery
  disturbances

runVars == <<run, draft, pc, sha, attempt, artifact>>
repoVars == <<prompts, requests, reviews>>
triggerVars == <<asked, trigger, receipts>>
vars == <<run, draft, pc, sha, attempt, artifact, listed, prompts, requests, reviews,
          asked, trigger, receipts, disturbances>>

Run == 1 .. MaxRuns

NoRun == 0

Stages == [target : Targets, mode : Modes]

(* What a package id is made of: the run and of the decision its main and  *)
(* kind.  Which candidate is under review is not part of it, nor which     *)
(* attempt of the run built the package.                                   *)
Packages == [run : Run, decision : Decisions]

NoDecision == CHOOSE d \in Decisions : TRUE
NoDraft == [decision |-> NoDecision, target |-> CHOOSE t \in Targets : TRUE]
NoPackage == [run |-> NoRun, decision |-> NoDecision]

PackageOf(r) == [run |-> r, decision |-> draft[r].decision]
StageOf(r) == [target |-> draft[r].target, mode |-> draft[r].decision.mode]

Active == {"packaging", "packaged", "superseding", "bound", "prompted"}
Completed == {"success", "failure", "cancelled"}

(* What the artifact of a completed run shows: nothing (it is missing, or  *)
(* there are several), the decision, or a reviewer package as well.        *)
Artifacts == [shows : {"none", "decision", "package"}, decision : Decisions]

Nothing == [shows |-> "none", decision |-> NoDecision]

Identity(kind, source) == [kind |-> kind, source |-> source]

Idle == [pc |-> "idle", source |-> NoRun, before |-> {}]

Init ==
  /\ run = [r \in Run |-> Identity("none", NoRun)]
  /\ draft = [r \in Run |-> NoDraft]
  /\ pc = [r \in Run |-> "absent"]
  /\ sha = [r \in Run |-> NoPackage]
  /\ attempt = [r \in Run |-> 1]
  /\ artifact = [r \in Run |-> Nothing]
  /\ listed = {}
  /\ prompts = {}
  /\ requests = <<>>
  /\ reviews = [p \in Packages |-> [state |-> "open", published |-> FALSE]]
  /\ asked = {}
  /\ trigger = Idle
  /\ receipts = {}
  /\ disturbances = 0

Disturb(kind) ==
  /\ kind \in Disturbances
  /\ disturbances < MaxDisturbances
  /\ disturbances' = disturbances + 1

FreshRun(r) ==
  pc[r] = "absent" /\ \A s \in Run : pc[s] = "absent" => r <= s

RecoveriesOf(s) == {r \in Run : run[r].kind = "recovery" /\ run[r].source = s}

(* The runs that may not work beside r: their concurrency group. *)
Group(r) ==
  IF run[r].kind = "recovery" THEN RecoveriesOf(run[r].source)
  ELSE {s \in Run : run[s].kind = "architect"}

ArchitectActive == \E r \in Run : run[r].kind = "architect" /\ pc[r] \in Active

Moves(r, to) == pc' = [pc EXCEPT ![r] = to] /\ UNCHANGED <<run, draft, attempt, artifact>>

(* An artifact, as far as somebody reads it again.                         *)
Uploaded(r, shows) ==
  [shows |-> shows,
   decision |-> IF shows = "decision" /\ run[r].kind = "architect" THEN draft[r].decision
                ELSE NoDecision]

(* A run ends, and the run of its group that waits starts.  A re-run may   *)
(* replace the artifact, keep the earlier one, or leave two.               *)
Ends(r, end, shows) ==
  /\ pc' = [s \in Run |-> IF s = r THEN end
                          ELSE IF s \in Group(r) /\ pc[s] = "waiting" THEN "packaging"
                          ELSE pc[s]]
  /\ sha' = [sha EXCEPT ![r] = NoPackage]
  /\ draft' = [draft EXCEPT ![r] = NoDraft]
  /\ \E a \in (IF attempt[r] = 1 THEN {Uploaded(r, shows)}
                ELSE {Uploaded(r, shows), artifact[r], Nothing}) :
       artifact' = [artifact EXCEPT ![r] = a]
  /\ UNCHANGED <<run, attempt>>

(* What the trigger and prepare_reviewer_recovery.py ask of a source: a    *)
(* completed, failed run of the canonical workflow, with one artifact,     *)
(* which has the decision but no package in it.                            *)
Recoverable_AnyEvidence(s) ==
  run[s].kind = "architect" /\ pc[s] = "failure" /\ artifact[s].shows # "none"

Recoverable(s) ==
  run[s].kind = "architect" /\ pc[s] = "failure" /\ artifact[s].shows = "decision"

(* The failure of an architect run starts the trigger workflow.  A trigger *)
(* run that finds nothing to recover does nothing, and is left out.        *)
Asks(r) ==
  asked' = IF Recoverable(r)' THEN asked \cup {r} ELSE asked

Fails(r, shows) ==
  /\ Ends(r, "failure", shows)
  /\ Asks(r)

-----------------------------------------------------------------------------
(* Packaging *)

Decides(r, decision) == draft' = [draft EXCEPT ![r] = [NoDraft EXCEPT !.decision = decision]]

(* One architect run at a time: it decides on a review here.               *)
ArchitectDecides(r) ==
  /\ FreshRun(r)
  /\ ~ArchitectActive
  /\ run' = [run EXCEPT ![r] = Identity("architect", NoRun)]
  /\ \E decision \in Decisions : Decides(r, decision)
  /\ pc' = [pc EXCEPT ![r] = "packaging"]
  /\ UNCHANGED <<sha, attempt, artifact, listed, repoVars, triggerVars, disturbances>>

Prepared(r) == run[r].kind = "recovery" => Recoverable(run[r].source)

(* A recovery takes the decision from the artifact of its source.          *)
Decision(r) ==
  IF run[r].kind = "recovery" THEN artifact[run[r].source].decision
  ELSE draft[r].decision

(* The target is read as the package is built.                             *)
BuildsPackage(r) ==
  /\ pc[r] = "packaging"
  /\ Prepared(r)
  /\ pc' = [pc EXCEPT ![r] = "packaged"]
  /\ \E target \in Targets :
       draft' = [draft EXCEPT ![r] = [decision |-> Decision(r), target |-> target]]
  /\ UNCHANGED <<run, sha, attempt, artifact, listed, repoVars, triggerVars, disturbances>>

(* No package: the evidence it needs cannot be read.  A recovery that was  *)
(* not prepared has nothing to upload.                                     *)
PackagingFails(r) ==
  /\ pc[r] = "packaging"
  /\ Fails(r, IF Prepared(r) THEN "decision" ELSE "none")
  /\ UNCHANGED <<listed, repoVars, trigger, receipts, disturbances>>

-----------------------------------------------------------------------------
(* dispatch_reviewer_request.py, dispatch_reviewer_request_recovery.py *)

(* requests/current.json: the package and the stage it asks for. *)
NoRequest ==
  [pkg |-> NoPackage, stage |-> [target |-> NoDraft.target, mode |-> NoDecision.mode]]
CurrentRequest == IF requests = <<>> THEN NoRequest ELSE requests[Len(requests)]

(* equivalent_request() *)
EquivalentRequest(prior, stage) ==
  /\ prior.pkg # NoPackage
  /\ prior.stage.target = stage.target
  /\ Repo = "DEEPSEEK" => prior.stage.mode = stage.mode

(* The blob SHA of current.json is bound: a SHA is a hash of the content,  *)
(* which names the package.                                                *)
Binds(r, to) == Moves(r, to) /\ sha' = [sha EXCEPT ![r] = CurrentRequest.pkg]

MayBind(r) ==
  /\ PackageOf(r) \notin prompts
  /\ CurrentRequest.pkg # PackageOf(r)
  /\ ~EquivalentRequest(CurrentRequest, StageOf(r))

(* A recovery looks further when the current request is equivalent to its  *)
(* own, but only in the DeepSeek repository.                               *)
MaySupersede(r) ==
  /\ run[r].kind = "recovery"
  /\ Repo = "DEEPSEEK"
  /\ PackageOf(r) \notin prompts
  /\ CurrentRequest.pkg # PackageOf(r)
  /\ EquivalentRequest(CurrentRequest, StageOf(r))

ReadsCurrent(r) ==
  /\ pc[r] = "packaged"
  /\ \/ MayBind(r) /\ Binds(r, "bound") /\ UNCHANGED asked
     \/ MaySupersede(r) /\ Binds(r, "superseding") /\ UNCHANGED asked
     \/ ~MayBind(r) /\ ~MaySupersede(r) /\ Fails(r, "package")
  /\ UNCHANGED <<listed, repoVars, trigger, receipts, disturbances>>

(* terminal_failed_equivalent_is_retryable(): the one review run of the    *)
(* current package has failed, and published nothing.                      *)
Supersedable(p) == reviews[p].state = "failed" /\ ~reviews[p].published

ChecksPrior(r) ==
  /\ pc[r] = "superseding"
  /\ IF Supersedable(sha[r]) THEN Moves(r, "bound") /\ UNCHANGED <<sha, asked>>
     ELSE Fails(r, "package")
  /\ UNCHANGED <<listed, repoVars, trigger, receipts, disturbances>>

(* The first write creates the prompt, the second replaces current.json if *)
(* it still has the SHA that was read.                                     *)
CanCreate(r) == pc[r] = "bound" /\ PackageOf(r) \notin prompts

CanReplace_NoSha(r) == pc[r] = "prompted"

CanReplace(r) == pc[r] = "prompted" /\ sha[r] = CurrentRequest.pkg

PutsPrompt(r) ==
  /\ CanCreate(r)
  /\ prompts' = prompts \cup {PackageOf(r)}
  /\ Moves(r, "prompted")
  /\ UNCHANGED <<sha, listed, requests, reviews, triggerVars, disturbances>>

PutsRequest(r) ==
  /\ CanReplace(r)
  /\ requests' = Append(requests, [pkg |-> PackageOf(r), stage |-> StageOf(r)])
  /\ Ends(r, "success", "package")
  /\ UNCHANGED <<listed, prompts, reviews, triggerVars, disturbances>>

(* Any call may fail, the second write also because of the SHA. *)
CallFails(r) ==
  /\ pc[r] \in {"packaged", "superseding", "bound", "prompted"}
  /\ Fails(r, "package")
  /\ UNCHANGED <<listed, repoVars, trigger, receipts, disturbances>>

(* A write takes effect, but its answer is lost: for the run it failed. *)
AnswerLost(r) ==
  /\ Disturb("timeout")
  /\ \/ /\ CanCreate(r)
        /\ prompts' = prompts \cup {PackageOf(r)}
        /\ UNCHANGED requests
     \/ /\ CanReplace(r)
        /\ requests' = Append(requests, [pkg |-> PackageOf(r), stage |-> StageOf(r)])
        /\ UNCHANGED prompts
  /\ Fails(r, "package")
  /\ UNCHANGED <<listed, reviews, trigger, receipts>>

(* The runner is lost: there is no artifact. *)
Crashes(r) ==
  /\ Disturb("crash")
  /\ pc[r] \in Active
  /\ Fails(r, "none")
  /\ UNCHANGED <<listed, repoVars, trigger, receipts>>

(* A person runs a run again.  An architect takes a new decision, on the   *)
(* main it finds: the id stays, the package may be another one.            *)
Reruns(r) ==
  /\ Disturb("rerun")
  /\ pc[r] \in Completed
  /\ \A s \in Group(r) : pc[s] \notin Active
  /\ pc' = [pc EXCEPT ![r] = "packaging"]
  /\ attempt' = [attempt EXCEPT ![r] = @ + 1]
  /\ IF run[r].kind = "architect" THEN \E decision \in Decisions : Decides(r, decision)
     ELSE UNCHANGED draft
  /\ UNCHANGED <<run, sha, artifact, listed, repoVars, triggerVars>>

(* ... or no decision on a review here at all: nothing of it can be        *)
(* recovered.                                                              *)
DecidesOtherwise(r) ==
  /\ pc[r] = "packaging"
  /\ run[r].kind = "architect" /\ attempt[r] > 1
  /\ \/ Ends(r, "success", "none") /\ UNCHANGED asked
     \/ Fails(r, "none")
  /\ UNCHANGED <<listed, repoVars, trigger, receipts, disturbances>>

-----------------------------------------------------------------------------
(* trigger_reviewer_recovery.py with the retries of                        *)
(* trigger_reviewer_recovery_retry.py; one trigger run at a time           *)

(* GitHub's listing of recovery runs shows what it showed before, and the  *)
(* runs that have ended.                                                   *)
Reads(shown) ==
  /\ listed \subseteq shown
  /\ \A r \in shown : run[r].kind = "recovery"
  /\ \A r \in Run : run[r].kind = "recovery" /\ pc[r] \in Completed => r \in shown

Retryable_AnyEvidence(r) == pc[r] \in {"failure", "cancelled"}

(* An attempt that failed, and whose artifact has no package in it. *)
Retryable(r) == pc[r] \in {"failure", "cancelled"} /\ artifact[r].shows = "decision"

(* retry_eligible() *)
RetryEligible(attempts) ==
  /\ \A r \in attempts : Retryable(r)
  /\ Cardinality(attempts) < MAX_RECOVERY_ATTEMPTS

(* Recovery is needed and possible, or nothing happens. *)
TriggerChecks(s) ==
  /\ trigger.pc = "idle"
  /\ s \in asked
  /\ asked' = asked \ {s}
  /\ \/ ~Recoverable(s) /\ UNCHANGED <<listed, trigger>>
     \/ /\ Recoverable(s)
        /\ \E shown \in SUBSET Run :
             /\ Reads(shown)
             /\ listed' = shown
             /\ trigger' = IF RetryEligible(shown \cap RecoveriesOf(s))
                           THEN [pc |-> "eligible", source |-> s, before |-> {}]
                           ELSE Idle
  /\ UNCHANGED <<runVars, repoVars, receipts, disturbances>>

Created_NoGroup(r, s) ==
  /\ run' = [run EXCEPT ![r] = Identity("recovery", s)]
  /\ pc' = [pc EXCEPT ![r] = "packaging"]
  /\ UNCHANGED <<draft, sha, attempt, artifact>>

(* A new recovery run waits for its group, where it cancels the one that   *)
(* was waiting.                                                            *)
Created(r, s) ==
  /\ run' = [run EXCEPT ![r] = Identity("recovery", s)]
  /\ pc' = [q \in Run |->
              IF q = r
              THEN IF \E p \in RecoveriesOf(s) : pc[p] \in Active THEN "waiting" ELSE "packaging"
              ELSE IF q \in RecoveriesOf(s) /\ pc[q] = "waiting" THEN "cancelled"
              ELSE pc[q]]
  /\ UNCHANGED <<draft, sha, attempt, artifact>>

TriggerPosts(r) ==
  /\ trigger.pc = "eligible"
  /\ FreshRun(r)
  /\ \E shown \in SUBSET Run :
       /\ Reads(shown)
       /\ listed' = shown
       /\ trigger' = [pc |-> "posted", source |-> trigger.source, before |-> shown]
  /\ Created(r, trigger.source)
  /\ UNCHANGED <<repoVars, asked, receipts, disturbances>>

NewAttempts(shown) == (shown \cap RecoveriesOf(trigger.source)) \ trigger.before

TriggerObserves ==
  /\ trigger.pc = "posted"
  /\ \E shown \in SUBSET Run, child \in Run :
       /\ Reads(shown)
       /\ listed' = shown
       /\ NewAttempts(shown) = {child}
       /\ receipts' = receipts \cup {[source |-> trigger.source, child |-> child]}
  /\ trigger' = Idle
  /\ UNCHANGED <<runVars, repoVars, asked, disturbances>>

(* No recovery or several are seen, or a call fails, or the runner is lost.*)
TriggerGivesUp ==
  /\ trigger.pc # "idle"
  /\ trigger' = Idle
  /\ UNCHANGED <<runVars, listed, repoVars, asked, receipts, disturbances>>

(* A person pushes a recovery request for a failed run. *)
AskAgain(s) ==
  /\ Disturb("push")
  /\ run[s].kind = "architect" /\ pc[s] = "failure"
  /\ asked' = asked \cup {s}
  /\ UNCHANGED <<runVars, listed, repoVars, trigger, receipts>>

(* A person dispatches the recovery workflow for any architect run. *)
ManualRecovery(r, s) ==
  /\ Disturb("dispatch")
  /\ FreshRun(r)
  /\ run[s].kind = "architect"
  /\ Created(r, s)
  /\ UNCHANGED <<listed, repoVars, triggerVars>>

-----------------------------------------------------------------------------
(* The reviewer repository: the push of a request starts a review.  It may *)
(* fail before or after it has published its verdict.  Nobody looks at a   *)
(* review that is not over.                                                *)

Ended == {[state |-> "failed", published |-> FALSE],
          [state |-> "failed", published |-> TRUE],
          [state |-> "passed", published |-> TRUE]}

ReviewEnds(p) ==
  /\ \E i \in DOMAIN requests : requests[i].pkg = p
  /\ reviews[p].state = "open"
  /\ \E review \in Ended : reviews' = [reviews EXCEPT ![p] = review]
  /\ UNCHANGED <<runVars, listed, prompts, requests, triggerVars, disturbances>>

-----------------------------------------------------------------------------
Next ==
  \/ \E p \in Packages : ReviewEnds(p)
  \/ \E r \in Run :
       \/ ArchitectDecides(r) \/ BuildsPackage(r) \/ PackagingFails(r)
       \/ ReadsCurrent(r) \/ ChecksPrior(r) \/ PutsPrompt(r) \/ PutsRequest(r)
       \/ CallFails(r) \/ AnswerLost(r) \/ Crashes(r) \/ Reruns(r) \/ DecidesOtherwise(r)
       \/ TriggerChecks(r) \/ TriggerPosts(r) \/ AskAgain(r)
       \/ \E s \in Run : ManualRecovery(r, s)
  \/ TriggerObserves \/ TriggerGivesUp

Spec == Init /\ [][Next]_vars

-----------------------------------------------------------------------------
(* Properties *)

Identities == [kind : {"none", "architect", "recovery"}, source : Run \cup {NoRun}]

(* At most one architect run works, and at most one recovery of a source   *)
(* works while one waits.  What has started is one or the other, and a     *)
(* recovery has a source.                                                  *)
Serial(runs) == \A r, s \in runs : r = s

GroupsOK ==
  /\ \A r \in Run : /\ run[r].kind = "none" <=> pc[r] = "absent"
                    /\ pc[r] = "waiting" => run[r].kind = "recovery"
                    /\ run[r].kind = "recovery" => run[r].source \in Run
  /\ Serial({r \in Run : run[r].kind = "architect" /\ pc[r] \in Active})
  /\ \A s \in Run : /\ Serial({r \in RecoveriesOf(s) : pc[r] \in Active})
                    /\ Serial({r \in RecoveriesOf(s) : pc[r] = "waiting"})

(* The type invariant.  Beyond the types: the concurrency groups hold, and *)
(* a request never points to a prompt that is not there, although the two  *)
(* are separate writes (dispatch_reviewer_request.py).                     *)
TypeOK ==
  /\ run \in [Run -> Identities]
  /\ pc \in [Run -> Active \cup Completed \cup {"absent", "waiting"}]
  /\ draft \in [Run -> [decision : Decisions, target : Targets]]
  /\ sha \in [Run -> Packages \cup {NoPackage}]
  /\ attempt \in [Run -> Nat]
  /\ artifact \in [Run -> Artifacts]
  /\ listed \in SUBSET Run
  /\ prompts \in SUBSET Packages
  /\ requests \in Seq([pkg : Packages, stage : Stages])
  /\ reviews \in [Packages -> [state : {"open", "failed", "passed"},
                               published : BOOLEAN]]
  /\ asked \in SUBSET Run
  /\ trigger \in [pc : {"idle", "eligible", "posted"}, source : Run \cup {NoRun},
                  before : SUBSET Run]
  /\ receipts \in SUBSET [source : Run, child : Run]
  /\ disturbances \in Nat
  /\ GroupsOK
  /\ \A i \in DOMAIN requests : requests[i].pkg \in prompts

(* The review stage that stands is not requested again, unless its review  *)
(* is dead, and no package is requested twice: whoever writes at the same  *)
(* time, whichever write failed or only seemed to, and whatever was run    *)
(* again (dispatch_reviewer_request.py and its recovery variant).          *)
Log == INSTANCE ReviewRequests WITH Package <- Packages

KeepsRequests == Log!Spec

(* Some attempt of a run has written a prompt.                             *)
Written(r) == \E p \in prompts : p.run = r

(* A failed source run is tried again only when every attempt the trigger  *)
(* knows of has failed without writing anything, unless a person then ran  *)
(* it again, and fewer than the cap times: a recovery that was observed is *)
(* never doubled while it may still write (retry_eligible()).              *)
RetriesOnlyWhatFailed ==
  [][\A r \in Run :
       pc[r] = "absent" /\ run'[r].kind = "recovery" /\ trigger.pc = "eligible"
         /\ trigger'.pc = "posted" =>
         LET known == {m.child : m \in {n \in receipts : n.source = run'[r].source}}
         IN  /\ Cardinality(known) < MAX_RECOVERY_ATTEMPTS
             /\ \A q \in known :
                  attempt[q] = 1 => pc[q] = "failure" /\ ~Written(q)]_vars

(* A decision that was recovered had not been written before: unless it    *)
(* was run again, its source run left nothing in the reviewer repository.  *)
RecoveredUnwritten ==
  \A i \in DOMAIN requests :
    LET r == requests[i].pkg.run
    IN  run[r].kind = "recovery" /\ attempt[run[r].source] = 1
          => ~Written(run[r].source)
=============================================================================
