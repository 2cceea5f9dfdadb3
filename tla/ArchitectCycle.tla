---------------------------- MODULE ArchitectCycle ----------------------------
(***************************************************************************)
(* One run of the workflow qore-architect-autonomous-v2: the snapshot of   *)
(* qore-core, of the reviewer repositories and of the Codex workers, up to *)
(* three paid calls of the architect model (Sol), the validation of its    *)
(* decision, and the one agent the run may delegate to.                    *)
(*                                                                         *)
(* The world goes on meanwhile: main and the candidate's pull request      *)
(* move, CI and reviews end, requests are replaced.  The candidate has one *)
(* pull request, and its heads are all made on version 0 of main.          *)
(***************************************************************************)
EXTENDS Naturals, Sequences, FiniteSets

CONSTANTS
  Heads, FirstHead,  \* the commits the candidate's branch may be at
  Packages,          \* the engineering packages Sol may order
  Tiers,             \* the reasoning efforts, in order
  XHIGH, MAX,
  RunInputs,         \* the inputs a run may have, and is its token configured
  MaxDisturbances,   \* bound: what others do during the run, and API faults
  Nothing

VARIABLES
  main, pull,        \* qore-core: the version of main, the pull request
  ci, verdicts,      \* heads with a successful QORE CI, with an Expert review
  requests,          \* requests/current.json of each reviewer
  running,           \* reviewers with a queued or in-progress run of any kind
  workers,           \* the Codex worker run of each package
  inputs,            \* the inputs and the secrets of the run
  pc, pass,          \* the step the run is at, the Sol call it is about
  checkout,          \* the version of main it has checked out
  core, seen, active, faults,   \* its snapshot
  effort, decision,
  usageInitial, usageFinal,     \* sol-usage-initial.json, sol-usage.json
  before,            \* is there an architect-decision-before-reconstruction.json
  package,           \* the reviewer package: its kind and its freeze
  work,              \* what the run delegated
  failed,            \* the step it failed in, and the pass it was in then
  calls,             \* history: the evidence each paid call was made on, and
                     \* did its answer raise a human gate
  disturbances

world == <<main, pull, ci, verdicts, requests, running, workers>>
snapshot == <<core, seen, active, faults>>
usages == <<usageInitial, usageFinal>>
setup == <<inputs, checkout>>
vars == <<world, setup, pc, pass, snapshot, effort, decision, usages, before,
          package, work, failed, calls, disturbances>>

Reviewers == {"claude", "deepseek"}
Kinds == {"technical", "expert", "coder"}
ReviewerOf(kind) == IF kind = "technical" THEN "claude" ELSE "deepseek"
Modes == {"off", "dry_run", "execute"}
Passes == {"initial", "escalated", "continuation"}

Ended == {"no_spend", "green", "red"}
Collecting == {"core", "reviewers", "codex"}
Routed == {"dispatch", "post", "observe", "freeze", "quality", "publish",
           "published"}
Steps == {"start", "complete", "sol", "escalate", "preliminary", "routing"}
           \cup Collecting \cup Routed

Versions == 0 .. MaxDisturbances
Freeze == [base : Versions, head : Heads,
           synthetic : [base : Versions, head : Heads]]
Request == [kind : Kinds, freeze : Freeze]
Requests == [Reviewers -> Request \cup {Nothing}]

Coherent(f) == f.synthetic = [base |-> f.base, head |-> f.head]
(* The merge commit onto the version a head is made on has its tree.       *)
SyntheticTreeIsHeadTree(f) == f.synthetic.base = 0

Core == [pull : Freeze \cup {Nothing}, verdicts : SUBSET Heads]
Faults == {"branch", "main", "pulls", "reviews", "canon", "reviewers"}

(* What a decision names: a package, a review, or the agent it waits for.  *)
Statuses == {"ENGINEERING_TASK", "REVIEW_TASK", "WAITING_AGENT",
             "RECONSTRUCTION_REQUIRED", "HUMAN_DECISION_REQUIRED",
             "PROGRAM_COMPLETE"}
Items(status) ==
  CASE status = "ENGINEERING_TASK" -> Packages
    [] status = "REVIEW_TASK" -> Kinds
    [] status = "WAITING_AGENT" -> Packages \cup Reviewers
    [] OTHER -> {Nothing}
Decisions == UNION {[status : {s}, item : Items(s)] : s \in Statuses}

Inputs == [confirm : BOOLEAN, codex : Modes, review : Modes, token : BOOLEAN]

ASSUME CycleAssumption ==
  /\ FirstHead \in Heads /\ RunInputs \subseteq Inputs
  /\ Tiers \subseteq Nat /\ {XHIGH, MAX} \subseteq Tiers
  /\ \A t \in Tiers : t <= MAX
  /\ MaxDisturbances \in Nat
  /\ Packages \cap (Kinds \cup Reviewers) = {}
  /\ Nothing \notin Freeze \cup Request \cup Decisions \cup Packages

TypeOK ==
  /\ main \in Versions
  /\ pull \in [open : BOOLEAN, freeze : Freeze]
  /\ ci \subseteq Heads /\ verdicts \subseteq Heads
  /\ requests \in Requests /\ running \subseteq Reviewers
  /\ workers \in [Packages -> {"none", "active", "done"}]
  /\ inputs \in Inputs /\ pc \in Steps \cup Ended /\ pass \in Passes
  /\ checkout \in Versions
  /\ core \in Core /\ active \subseteq Packages /\ faults \subseteq Faults
  /\ seen \in [requests : Requests, running : SUBSET Reviewers]
  /\ effort \in Tiers /\ decision \in Decisions \cup {Nothing}
  /\ usageInitial \in 0 .. 3 /\ usageFinal \in 0 .. 3
  /\ before \in BOOLEAN
  /\ package \in Request \cup {Nothing}
  /\ work \in Packages \cup Request \cup {Nothing}
  /\ failed \in (Passes \X Steps) \cup {Nothing}
  /\ calls \in Seq([whole : BOOLEAN, core : Core, gate : BOOLEAN]) /\ Len(calls) <= 3
  /\ disturbances \in 0 .. MaxDisturbances

FirstFreeze == [base |-> 0, head |-> FirstHead,
                synthetic |-> [base |-> 0, head |-> FirstHead]]

Init ==
  /\ main = 0 /\ pull = [open |-> TRUE, freeze |-> FirstFreeze]
  /\ ci = {FirstHead}
  /\ \/ requests = [r \in Reviewers |-> Nothing] /\ verdicts = {}
     \/ /\ requests = [claude |-> Nothing,
                        deepseek |-> [kind |-> "expert", freeze |-> FirstFreeze]]
        /\ verdicts \in SUBSET {FirstHead}
  /\ running = {} /\ workers \in [Packages -> {"none", "active", "done"}]
  /\ inputs \in RunInputs /\ pc = "start" /\ pass = "initial" /\ checkout = 0
  /\ core = [pull |-> Nothing, verdicts |-> {}]
  /\ seen = [requests |-> [r \in Reviewers |-> Nothing], running |-> {}]
  /\ active = {} /\ faults = {}
  /\ effort = MAX /\ decision = Nothing
  /\ usageInitial = 0 /\ usageFinal = 0 /\ before = FALSE
  /\ package = Nothing /\ work = Nothing /\ failed = Nothing
  /\ calls = << >> /\ disturbances = 0

Disturbed(n) ==
  /\ disturbances + n <= MaxDisturbances
  /\ disturbances' = disturbances + n

(* The run goes on at the next step, ends, or fails in the one it is at,   *)
(* which GitHub then shows as the failed one.                              *)
Goto(next) ==
  /\ pc' = next
  /\ failed' = IF next = "red" THEN <<pass, pc>> ELSE failed

-----------------------------------------------------------------------------
(* The snapshot.                                                           *)

Start ==
  /\ pc = "start"
  /\ IF ~inputs.confirm THEN Goto("no_spend") /\ UNCHANGED checkout
     ELSE IF inputs.review = "execute" /\ ~inputs.token
     THEN Goto("red") /\ UNCHANGED checkout
     ELSE Goto("core") /\ checkout' = main
  /\ UNCHANGED <<world, inputs, pass, snapshot, effort, decision, usages,
                 before, package, work, calls, disturbances>>

(* A call that fails leaves its part empty and a note.  The branch is read *)
(* to compare main with the checkout; the documents and the protection of  *)
(* main may be missing ("canon").                                          *)
CollectCore ==
  /\ pc = "core"
  /\ \E bad \in SUBSET {"branch", "pulls", "reviews", "canon"} :
       /\ Disturbed(Cardinality(bad))
       /\ faults' = bad \cup (IF "branch" \notin bad /\ main # checkout
                              THEN {"main"} ELSE {})
       /\ core' = [pull |-> IF pull.open /\ "pulls" \notin bad
                            THEN pull.freeze ELSE Nothing,
                   verdicts |-> IF pull.open /\ bad \cap {"pulls", "reviews"} = {}
                                THEN verdicts ELSE {}]
  /\ Goto("reviewers")
  /\ UNCHANGED <<world, setup, pass, seen, active, effort, decision, usages,
                 before, package, work, calls>>

(* shown: the reviewers whose state could be read; visible: those whose    *)
(* runs could be read too.                                                 *)
Shown(shown, visible) ==
  seen' = [requests |-> [r \in Reviewers |->
                           IF r \in shown THEN requests[r] ELSE Nothing],
           running |-> running \cap visible]

CollectReviewers ==
  /\ pc = "reviewers"
  /\ IF ~inputs.token
     THEN Shown({}, {}) /\ UNCHANGED <<faults, disturbances>>
     ELSE \E shown \in SUBSET Reviewers : \E visible \in SUBSET shown :
            /\ Disturbed(Cardinality(Reviewers \ visible))
            /\ Shown(shown, visible)
            /\ faults' = IF visible = Reviewers THEN faults
                         ELSE faults \cup {"reviewers"}
  /\ Goto("codex")
  /\ UNCHANGED <<world, setup, pass, core, active, effort, decision, usages,
                 before, package, work, calls>>

(* The snapshot of the first round is validated before money is spent, the *)
(* one of the continuation is not.                                         *)
AfterCollection == IF pass = "continuation" THEN "sol" ELSE "complete"

CollectCodex ==
  /\ pc = "codex"
  /\ active' = {p \in Packages : workers[p] = "active"}
  /\ Goto(AfterCollection)
  /\ UNCHANGED <<world, setup, pass, core, seen, faults, effort, decision,
                 usages, before, package, work, calls, disturbances>>

Complete == faults = {}

(* Mutant: an incomplete snapshot is waited out.                           *)
ValidateSnapshot_Waits ==
  /\ pc = "complete" /\ Complete
  /\ Goto("sol") /\ effort' \in Tiers
  /\ UNCHANGED <<world, setup, pass, snapshot, decision, usages, before,
                 package, work, calls, disturbances>>

(* Mutant: the context is built of whatever could be read.                 *)
ValidateSnapshot_Skips ==
  /\ pc = "complete"
  /\ Goto("sol") /\ effort' \in Tiers
  /\ UNCHANGED <<world, setup, pass, snapshot, decision, usages, before,
                 package, work, calls, disturbances>>

(* Then the context is built and the effort selected.                      *)
ValidateSnapshot ==
  /\ pc = "complete"
  /\ IF Complete THEN Goto("sol") /\ effort' \in Tiers
     ELSE Goto("red") /\ UNCHANGED effort
  /\ UNCHANGED <<world, setup, pass, snapshot, decision, usages, before,
                 package, work, calls, disturbances>>

-----------------------------------------------------------------------------
(* The calls of Sol.                                                       *)

Paid(status) ==
  calls' = Append(calls, [whole |-> Complete, core |-> core,
                          gate |-> status = "HUMAN_DECISION_REQUIRED"])

(* Every response writes its usage; the second file is written over.       *)
WriteUsage ==
  IF pass = "initial" THEN usageInitial' = Len(calls') /\ UNCHANGED usageFinal
  ELSE usageFinal' = Len(calls') /\ UNCHANGED usageInitial

(* Mutant: the continuation may ask for another reconstruction.            *)
AfterCall_Again == [initial |-> "escalate", escalated |-> "preliminary",
                    continuation |-> "preliminary"]

AfterCall == [initial |-> "escalate", escalated |-> "preliminary",
              continuation |-> "routing"]

SolAnswers(d) ==
  /\ pc = "sol"
  /\ Paid(d.status) /\ WriteUsage
  /\ decision' = d /\ Goto(AfterCall[pass])
  /\ UNCHANGED <<world, setup, pass, snapshot, effort, before, package, work,
                 disturbances>>

(* The answer is incomplete or invalid, or the call fails.                 *)
SolFails ==
  /\ pc = "sol"
  /\ Disturbed(1)
  /\ Paid("NONE") /\ (WriteUsage \/ UNCHANGED usages)
  /\ Goto("red")
  /\ UNCHANGED <<world, setup, pass, snapshot, effort, decision, before, package, work>>

(* Mutant: a human gate is no reason to escalate.                          *)
Target_NoHumanGate(wants) ==
  IF decision.status = "RECONSTRUCTION_REQUIRED" /\ wants < XHIGH
  THEN XHIGH ELSE wants

(* choose_escalation: the first answer may want a higher effort, by asking *)
(* for it or by the risks it names; a human gate is verified at the        *)
(* highest effort, a request for reconstruction at xhigh.                  *)
Target(wants) ==
  IF decision.status = "HUMAN_DECISION_REQUIRED" THEN MAX
  ELSE IF decision.status = "RECONSTRUCTION_REQUIRED" /\ wants < XHIGH
  THEN XHIGH ELSE wants

(* Without escalation decision and usage of the first pass are copied.     *)
Escalate ==
  /\ pc = "escalate"
  /\ \E wants \in {t \in Tiers : t >= effort} :
       IF Target(wants) > effort
       THEN /\ pass' = "escalated" /\ effort' = Target(wants) /\ Goto("sol")
            /\ UNCHANGED usageFinal
       ELSE /\ usageFinal' = usageInitial /\ Goto("preliminary")
            /\ UNCHANGED <<pass, effort>>
  /\ UNCHANGED <<world, setup, snapshot, decision, usageInitial, before,
                 package, work, calls, disturbances>>

(* validate_architect_continuation: only a wait can contradict the         *)
(* snapshot.  A reviewer is waited for when it has a request and any run   *)
(* of its repository is queued or in progress.                             *)
WaitMatches ==
  IF decision.item \in Packages THEN decision.item \in active
  ELSE /\ seen.requests[decision.item] # Nothing
       /\ decision.item \in seen.running

Valid == decision.status = "WAITING_AGENT" => WaitMatches

Preliminary ==
  /\ pc = "preliminary"
  /\ IF Valid /\ decision.status = "RECONSTRUCTION_REQUIRED"
     THEN before' = TRUE /\ pass' = "continuation" /\ Goto("core")
     ELSE /\ Goto(IF Valid THEN "routing" ELSE "red")
          /\ UNCHANGED <<before, pass>>
  /\ UNCHANGED <<world, setup, snapshot, effort, decision, usages, package,
                 work, calls, disturbances>>

-----------------------------------------------------------------------------
(* The delegation.                                                         *)

RouteOf(status) ==
  CASE status = "ENGINEERING_TASK" /\ inputs.codex # "off" -> "dispatch"
    [] status = "REVIEW_TASK" /\ inputs.review # "off" /\ inputs.token -> "freeze"
    [] status \in {"WAITING_AGENT", "HUMAN_DECISION_REQUIRED",
                   "PROGRAM_COMPLETE"} -> "green"
    [] OTHER -> "red"

Route ==
  /\ pc = "routing"
  /\ Goto(IF Valid THEN RouteOf(decision.status) ELSE "red")
  /\ UNCHANGED <<world, setup, pass, snapshot, effort, decision, usages,
                 before, package, work, calls, disturbances>>

Delegates(next) ==
  /\ Goto(next)
  /\ UNCHANGED <<setup, pass, snapshot, effort, decision, usages, before,
                 calls, disturbances>>

(* Mutant: any worker of the package will do.                              *)
ObservedWorker_AnyState == IF workers[decision.item] # "none" THEN "green" ELSE "red"

(* An execute run must end with a worker it saw queued or in progress.     *)
ObservedWorker == IF workers[decision.item] = "active" THEN "green" ELSE "red"

LookUpWorker ==
  /\ pc = "dispatch"
  /\ Delegates(IF inputs.codex = "dry_run" THEN "green"
               ELSE IF workers[decision.item] = "none" THEN "post"
               ELSE ObservedWorker)
  /\ UNCHANGED <<world, package, work>>

PostWorker ==
  /\ pc = "post"
  /\ workers' = [workers EXCEPT ![decision.item] = "active"]
  /\ work' = decision.item
  /\ Delegates("observe")
  /\ UNCHANGED <<main, pull, ci, verdicts, requests, running, package>>

ObserveWorker ==
  /\ pc = "observe"
  /\ Delegates(ObservedWorker)
  /\ UNCHANGED <<world, package, work>>

(* resolve_freeze: the live pull request and the commits it names.         *)
ResolveFreeze ==
  /\ pc = "freeze"
  /\ IF pull.open /\ Coherent(pull.freeze) /\ SyntheticTreeIsHeadTree(pull.freeze)
     THEN /\ package' = [kind |-> decision.item, freeze |-> pull.freeze]
          /\ Delegates("quality")
     ELSE Delegates("red") /\ UNCHANGED package
  /\ UNCHANGED <<world, work>>

(* Mutant: the live request stands for the one of the snapshot.            *)
InSnapshot_Live(f) ==
  /\ requests["deepseek"] # Nothing
  /\ requests["deepseek"].freeze = f

(* The pull request of the snapshot, and a request of the snapshot with a  *)
(* frozen quality summary, which only DeepSeek's have.                     *)
InSnapshot(f) ==
  /\ core.pull # Nothing
  /\ core.pull.head = f.head /\ core.pull.synthetic = f.synthetic
  /\ seen.requests["deepseek"] # Nothing
  /\ seen.requests["deepseek"].freeze = core.pull

ExpertFirst(kind, f) == kind = "coder" => f.head \in core.verdicts

BuildPackage ==
  /\ pc = "quality"
  /\ LET ok == /\ InSnapshot(package.freeze)
               /\ package.freeze.head \in ci
               /\ ExpertFirst(package.kind, package.freeze)
     IN  Delegates(CASE ~ok -> "red"
                     [] ok /\ inputs.review = "dry_run" -> "green"
                     [] OTHER -> "publish")
  /\ UNCHANGED <<world, package, work>>

(* dispatch_reviewer_request: not twice the same stage of a freeze, which  *)
(* for Claude is any.                                                      *)
Equivalent(prior) ==
  /\ prior # Nothing
  /\ prior.freeze.head = package.freeze.head
  /\ prior.freeze.synthetic = package.freeze.synthetic
  /\ prior.kind = package.kind

PublishRequest ==
  /\ pc = "publish"
  /\ LET r == ReviewerOf(package.kind) IN
     IF Equivalent(requests[r])
     THEN Delegates("red") /\ UNCHANGED <<requests, work>>
     ELSE /\ requests' = [requests EXCEPT ![r] = package] /\ work' = package
          /\ Delegates("published")
  /\ UNCHANGED <<main, pull, ci, verdicts, running, workers, package>>

(* The answer to the write is recorded, and the evidence uploaded.         *)
RecordDispatch ==
  /\ pc = "published"
  /\ Delegates("green")
  /\ UNCHANGED <<world, package, work>>

(* Any step can fail: a call, a bound on the context, the runner.  After   *)
(* "post" and "publish" it fails with its work already delegated.          *)
Fails ==
  /\ pc \in (Steps \ {"sol"}) /\ Disturbed(1)
  /\ Goto("red")
  /\ UNCHANGED <<world, setup, pass, snapshot, effort, decision, usages,
                 before, package, work, calls>>

-----------------------------------------------------------------------------
(* What others do.                                                         *)

(* In its local steps the run reads nothing of the world: what happens     *)
(* during one of them might as well happen before its next reading.        *)
Local == {"complete", "escalate", "preliminary", "routing", "published"}

Elsewhere ==
  /\ pc \notin Ended \cup Local
  /\ UNCHANGED <<setup, pc, pass, snapshot, effort, decision, usages, before,
                 package, work, failed, calls>>

(* GitHub recomputes base and merge commit some time after a change.       *)
Recompute ==
  /\ Elsewhere /\ pull.open
  /\ LET f == pull.freeze
         now == [base |-> main, head |-> f.head,
                 synthetic |-> [base |-> main, head |-> f.head]]
     IN  f # now /\ pull' = [open |-> TRUE, freeze |-> now]
  /\ UNCHANGED <<main, ci, verdicts, requests, running, workers, disturbances>>

HeadPushed(h) ==
  /\ pull.open /\ h # pull.freeze.head
  /\ pull' = [open |-> TRUE, freeze |-> [base |-> pull.freeze.base, head |-> h,
                                         synthetic |-> pull.freeze.synthetic]]
  /\ UNCHANGED <<main, ci, verdicts, requests, running, workers>>

MainMoves ==
  /\ main' = main + 1
  /\ UNCHANGED <<pull, ci, verdicts, requests, running, workers>>

PullCloses ==
  /\ pull.open /\ pull' = [open |-> FALSE, freeze |-> pull.freeze]
  /\ UNCHANGED <<main, ci, verdicts, requests, running, workers>>

CIEnds(h) ==
  /\ ci' \in {ci \cup {h}, ci \ {h}}
  /\ UNCHANGED <<main, pull, verdicts, requests, running, workers>>

ExpertReviews(h) ==
  /\ verdicts' = verdicts \cup {h}
  /\ UNCHANGED <<main, pull, ci, requests, running, workers>>

ReviewerRuns(r) ==
  /\ running' \in {running \cup {r}, running \ {r}}
  /\ UNCHANGED <<main, pull, ci, verdicts, requests, workers>>

(* A recovery of an earlier decision writes its request.                   *)
RecoveryWrites(kind) ==
  /\ pull.open /\ Coherent(pull.freeze)
  /\ requests' = [requests EXCEPT ![ReviewerOf(kind)] =
                    [kind |-> kind, freeze |-> pull.freeze]]
  /\ UNCHANGED <<main, pull, ci, verdicts, running, workers>>

WorkerEnds(p) ==
  /\ workers[p] = "active" /\ workers' = [workers EXCEPT ![p] = "done"]
  /\ UNCHANGED <<main, pull, ci, verdicts, requests, running>>

World ==
  /\ Elsewhere /\ Disturbed(1)
  /\ \/ MainMoves \/ PullCloses
     \/ \E h \in Heads : HeadPushed(h) \/ CIEnds(h) \/ ExpertReviews(h)
     \/ \E r \in Reviewers : ReviewerRuns(r)
     \/ \E kind \in Kinds : RecoveryWrites(kind)
     \/ \E p \in Packages : WorkerEnds(p)

Cycle ==
  \/ Start \/ CollectCore \/ CollectReviewers \/ CollectCodex \/ ValidateSnapshot
  \/ \E d \in Decisions : SolAnswers(d)
  \/ SolFails \/ Escalate \/ Preliminary \/ Route
  \/ LookUpWorker \/ PostWorker \/ ObserveWorker
  \/ ResolveFreeze \/ BuildPackage \/ PublishRequest \/ RecordDispatch

Next == Cycle \/ Fails \/ Recompute \/ World

(* The steps of a job follow one another, and each has a time limit.       *)
Spec == Init /\ [][Next]_vars /\ WF_vars(Cycle)

-----------------------------------------------------------------------------
(* resume_after_agent_completion.architect_cost reads the calls of a run   *)
(* off its artifact: the responses in the two usage files, and one more    *)
(* when there was a reconstruction and room for a third.                   *)
Recorded == Cardinality({usageInitial, usageFinal} \ {0})
(* Mutant: no reserve for the usage that was written over.                 *)
ArchitectSolCalls_Recorded == Recorded

ArchitectSolCalls == IF before /\ Recorded < 3 THEN Recorded + 1 ELSE Recorded

(* A run that the completion gate may continue from, because it delegated  *)
(* (also when it failed then: architect_archive() asks for no success), is *)
(* never charged fewer calls than it paid for, nor more than the three the *)
(* gate reserves; nor would be a green run.                                *)
CallsCounted ==
  work # Nothing \/ pc = "green" => /\ Len(calls) <= ArchitectSolCalls
                                    /\ ArchitectSolCalls <= 3

(* A reviewer is asked about the very candidate that Sol saw when it made  *)
(* the decision, and the Coder only when Sol saw the Expert's verdict on   *)
(* it, however the candidate moves while the package is built.             *)
PackageIsWhatSolSaw ==
  (package # Nothing /\ pc \in {"publish", "green"}) =>
    LET saw == calls[Len(calls)].core IN
    /\ package.freeze = saw.pull /\ Coherent(package.freeze)
    /\ package.kind = "coder" => package.freeze.head \in saw.verdicts

(* A human gate that the first answer of a run raises does not surface     *)
(* before a call at the highest effort answered too, and raised it again,  *)
(* through an escalation and a reconstruction alike.  (One that a later    *)
(* answer is the first to raise surfaces at the effort of that answer.)    *)
HumanGateReexamined ==
  ( /\ pc = "green" /\ decision.status = "HUMAN_DECISION_REQUIRED"
    /\ calls[1].gate ) => effort = MAX

(* "human gate requires maximum verification before surfacing              *)
(* recommendation" (scripts/evaluate_sol_escalation.py:93): whichever      *)
(* answer raised it, a gate surfaces from a call at the highest effort.    *)
(* The code looks at the first answer only.                                *)
HumanGateVerified ==
  (pc = "green" /\ decision.status = "HUMAN_DECISION_REQUIRED") => effort = MAX

(* A run in execute modes ends green only at a boundary: its package has a *)
(* worker that was active, it wrote its request, the wait it stops for was *)
(* in the snapshot, or there is nothing left for an agent to do.           *)
GreenIsBoundary ==
  [][ (pc # "green" /\ pc' = "green" /\ inputs.codex = "execute"
         /\ inputs.review = "execute") =>
        CASE decision.status = "ENGINEERING_TASK" ->
               workers'[decision.item] = "active"
          [] decision.status = "REVIEW_TASK" ->
               package # Nothing /\ work = package
          [] decision.status = "WAITING_AGENT" -> WaitMatches
          [] OTHER -> decision.status # "RECONSTRUCTION_REQUIRED" ]_vars

(* Only the one call after a reconstruction can be made on incomplete      *)
(* evidence, and nothing is asked of Sol after it.  (The workflow validates*)
(* its first snapshot, and not the one that it collects again.)            *)
PaidOnCompleteEvidence ==
  \A i \in DOMAIN calls :
     calls[i].whole \/ (before /\ pass = "continuation" /\ i = Len(calls))

(* The steps that lie ahead of a run at most: those from the one it is at, *)
(* and those of the passes of Sol that may follow.                         *)
Ahead == [start |-> 16, core |-> 15, reviewers |-> 14, codex |-> 13,
          complete |-> 12, sol |-> 11, escalate |-> 10, preliminary |-> 9,
          routing |-> 8, freeze |-> 7, quality |-> 6, publish |-> 5,
          published |-> 4, dispatch |-> 3, post |-> 2, observe |-> 1,
          no_spend |-> 0, green |-> 0, red |-> 0]

PassesAhead == [initial |-> 2, escalated |-> 1, continuation |-> 0]

StepsLeft == Ahead[pc] + 7 * PassesAhead[pass]

ownVars == <<setup, pc, pass, snapshot, effort, decision, usages, before,
             package, work, failed, calls>>

(* Whatever Sol answers, and however the candidate, the reviewers and the  *)
(* workers move meanwhile, each step of the run brings it nearer to its    *)
(* end, through at most one escalation and one reconstruction, and nothing *)
(* that others do sets it back: it takes at most thirty steps.             *)
CycleAdvances == [][StepsLeft' \in 0 .. (StepsLeft - 1)]_ownVars

(* Every run ends, whatever Sol answers.                                   *)
EveryCycleEnds == <>(pc \in Ended)

-----------------------------------------------------------------------------
(* What the workflows around it take the run for.                          *)

(* validate_pre_spend_failure: the run failed in the step that validates   *)
(* the snapshot, and its artifact holds nothing of a model or an agent.    *)
(* ("complete" stands for the two steps after it too, whose failure the    *)
(* recovery refuses: more runs look recoverable here than are.)            *)
PreSpendEvidence ==
  /\ pc = "red" /\ failed = <<"initial", "complete">>
  /\ usageInitial = 0 /\ usageFinal = 0 /\ ~before
  /\ decision = Nothing /\ package = Nothing

(* Mutant: any failed pass of Sol will do.                                 *)
PostSpendEvidence_AnyPass ==
  /\ pc = "red" /\ failed \in Passes \X {"sol"}
  /\ usageInitial # 0
  /\ package = Nothing

(* validate_failed_architect: it failed in the initial pass of Sol, whose  *)
(* usage was written, and there is no decision.  (Of the answers that fail *)
(* a pass the recovery takes only those that ran out of tokens.)           *)
PostSpendEvidence ==
  /\ pc = "red" /\ failed = <<"initial", "sol">>
  /\ usageInitial # 0
  /\ decision = Nothing /\ package = Nothing

OutcomeOf ==
  IF pc \notin Ended THEN "none"
  ELSE IF work # Nothing THEN "package"
  ELSE IF PreSpendEvidence THEN "pre_spend"
  ELSE IF PostSpendEvidence THEN "sol_incomplete"
  ELSE "ended"

AsRun == INSTANCE ArchitectRun
           WITH MAX_SOL_CALLS_PER_ARCHITECT_RUN <- 3,
                paid <- Len(calls),
                charge <- IF work # Nothing THEN ArchitectSolCalls ELSE 0,
                ended <- pc \in Ended, outcome <- OutcomeOf

(* However a run ends, and wherever it fails, it is what the completion    *)
(* gate and the two recoveries take it for: it delegates at most once and  *)
(* pays for nothing afterwards, its artifact is charged as its calls were  *)
(* made, and a run that may be run again delegated nothing and paid for no *)
(* call, or for the one that ran out of tokens.                            *)
CycleIsRun == AsRun!Spec
=============================================================================
