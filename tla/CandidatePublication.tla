------------------------- MODULE CandidatePublication -------------------------
(***************************************************************************)
(* How a green candidate of the Codex worker becomes a pull request of     *)
(* qore-core, how the branch may move after that, and what the completion  *)
(* observer makes of it.                                                   *)
(*                                                                         *)
(* The publisher makes one deterministic commit on the source commit and   *)
(* pushes it to a branch named after the contract.  A repeated job makes   *)
(* the same commit if the worker left the same tree, another one if not.   *)
(* The Harness materializer adds commits to the branch of a draft, and     *)
(* people do with the branch and its pull requests as they please.         *)
(*                                                                         *)
(* A commit of the branch is the sequence of the trees from the source on: *)
(* two commits with the same history are the same commit.  A version of    *)
(* main is a number, 0 being the source commit.                            *)
(***************************************************************************)
EXTENDS Naturals, Sequences, SequencesExt

CONSTANTS
  Candidates,       \* the trees a worker may leave
  Corrections,      \* the trees a materialization may leave
  PersonTrees,      \* the trees of commits that people push
  MaxAttempts,      \* bound: publication jobs and materializations
  MaxPulls,         \* bound: pull requests of the branch
  MaxDisturbances,  \* bound: human acts and faults
  Nothing

ASSUME PublicationAssumption ==
  /\ MaxAttempts \in Nat /\ MaxPulls \in Nat /\ MaxDisturbances \in Nat
  /\ Nothing \notin Seq(Candidates \cup Corrections \cup PersonTrees)

VARIABLES
  main,         \* the version of main
  branch,       \* the commit the contract's branch names, if it exists
  pulls,        \* the pull requests of the branch, in the order of their numbers
  job,          \* the publication job: its worker's outcome and where it is
  publication,  \* codex-publication.json of the job
  mat,          \* the materialization: its request and where it is
  observed,     \* what the observer said of the last completed job
  attempts, disturbances,
  quiet         \* history: nobody else acted since the publication job began

jobVars == <<job, publication>>
remoteVars == <<main, branch, pulls>>
boundVars == <<attempts, disturbances>>
vars == <<remoteVars, jobVars, mat, observed, boundVars, quiet>>

Trees == Candidates \cup Corrections \cup PersonTrees
Source == << >>

Outcomes ==  \* status of the worker, is there a diff, did the controller's gate pass
  { [status |-> "READY",   changed |-> TRUE,  gate |-> TRUE],
    [status |-> "READY",   changed |-> TRUE,  gate |-> FALSE],
    [status |-> "BLOCKED", changed |-> TRUE,  gate |-> FALSE],
    [status |-> "BLOCKED", changed |-> FALSE, gate |-> FALSE] }

Candidate == << job.tree >>
OpenPulls == {p \in DOMAIN pulls : pulls[p].state = "open"}
EverMerged == \E p \in DOMAIN pulls : pulls[p].state = "merged"

Running == {"branch", "push", "pulls", "create"}
JobEnded == {"published", "unpublished", "failed"}
MatRunning == {"check", "commit", "recheck", "push", "verify"}
MatEnded == {"idle", "materialized", "stopped"}

Commit == {c \in Seq(Trees) : Len(c) <= MaxAttempts + MaxDisturbances}
Merge == [base : 0 .. MaxDisturbances, head : Commit]
Pull == [state : {"open", "closed", "merged"}, draft : BOOLEAN, head : Commit,
         base : 0 .. MaxDisturbances, synthetic : Merge \cup {Nothing}]

TypeOK ==
  /\ main \in 0 .. MaxDisturbances
  /\ branch \in Commit \cup {Nothing}
  /\ pulls \in Seq(Pull) /\ Len(pulls) <= MaxPulls
  /\ job.pc \in {"idle"} \cup Running \cup JobEnded /\ job.tree \in Candidates
  /\ job.outcome \in Outcomes /\ job.began \in Commit \cup {Nothing}
  /\ publication = Nothing
       \/ publication \in [pull : DOMAIN pulls, head : Commit]
  /\ mat.pc \in MatEnded \cup MatRunning /\ mat.tree \in Corrections
  /\ mat.pull \in 0 .. MaxPulls /\ mat.expected \in Commit
  /\ observed.binding = Nothing \/ observed.binding \in [base : 0 .. MaxDisturbances,
       head : Commit, synthetic : Merge]
  /\ attempts \in 0 .. MaxAttempts /\ disturbances \in 0 .. MaxDisturbances
  /\ quiet \in BOOLEAN

Init ==
  /\ main = 0 /\ branch = Nothing /\ pulls = << >>
  /\ job \in {[pc |-> "idle", tree |-> t, began |-> Nothing, outcome |-> o] :
                 t \in Candidates,
                 o \in {q \in Outcomes : q.status = "BLOCKED" /\ ~q.changed}}
  /\ mat \in {[pc |-> "idle", pull |-> 0, expected |-> Source, tree |-> m] :
                 m \in Corrections}
  /\ publication = Nothing
  /\ observed = [action |-> "none", binding |-> Nothing]
  /\ attempts = 0 /\ disturbances = 0 /\ quiet = TRUE

-----------------------------------------------------------------------------
(* GitHub.                                                                 *)

(* The branch moves to c: its open pull request shows the new head at once,*)
(* the base and the merge commit only when GitHub recomputes them.         *)
MoveBranch(c) ==
  /\ branch' = c
  /\ pulls' = [p \in DOMAIN pulls |->
       IF p \in OpenPulls THEN [pulls[p] EXCEPT !.head = c] ELSE pulls[p]]

Recompute(p) ==
  /\ p \in OpenPulls
  /\ LET now == [pulls[p] EXCEPT !.base = main,
                   !.synthetic = [base |-> main, head |-> pulls[p].head]]
     IN  pulls[p] # now /\ pulls' = [pulls EXCEPT ![p] = now]
  /\ UNCHANGED <<main, branch, jobVars, mat, observed, boundVars, quiet>>

NewPull(draft) ==
  Append(pulls, [state |-> "open", draft |-> draft, head |-> branch,
                 base |-> main, synthetic |-> Nothing])

(* One open pull request per branch, and none without a new commit.        *)
MayOpen == branch # Nothing /\ OpenPulls = {} /\ ~EverMerged /\ Len(pulls) < MaxPulls

-----------------------------------------------------------------------------
(* The publication job.                                                    *)

(* The worker has ended.  The job publishes a READY candidate that passed  *)
(* the controller's gate; jobs never overlap.                              *)
WorkerEnds(t, o) ==
  /\ job.pc \in {"idle"} \cup JobEnded /\ attempts < MaxAttempts
  /\ attempts' = attempts + 1
  /\ job' = [pc |-> CASE o.status = "BLOCKED" -> "unpublished"
                      [] o.status = "READY" /\ ~o.gate -> "failed"
                      [] OTHER -> "branch",
             tree |-> t, began |-> branch, outcome |-> o]
  /\ publication' = Nothing /\ quiet' = TRUE
  /\ observed' = [action |-> "none", binding |-> Nothing]
  /\ UNCHANGED <<remoteVars, mat, disturbances>>

To(pc) == job' = [job EXCEPT !.pc = pc]

(* Mutant: a branch that exists is a failure, also at the candidate.       *)
LookUpBranch_Fresh ==
  /\ job.pc = "branch"
  /\ To(IF branch = Nothing THEN "push" ELSE "failed")
  /\ UNCHANGED <<remoteVars, publication, mat, observed, boundVars, quiet>>

(* push_branch: a branch that is there already must be at the candidate.   *)
LookUpBranch ==
  /\ job.pc = "branch"
  /\ To(CASE branch = Nothing -> "push"
          [] branch = Candidate -> "pulls"
          [] OTHER -> "failed")
  /\ UNCHANGED <<remoteVars, publication, mat, observed, boundVars, quiet>>

(* Mutant: the push is forced.                                             *)
FastForward_Forced == TRUE

(* The push is not forced: the remote refuses all but a descendant.        *)
FastForward == branch = Nothing \/ IsPrefix(branch, Candidate)

PushCandidate ==
  /\ job.pc = "push"
  /\ IF FastForward
     THEN MoveBranch(Candidate) /\ To("pulls")
     ELSE UNCHANGED <<branch, pulls>> /\ To("failed")
  /\ UNCHANGED <<main, publication, mat, observed, boundVars, quiet>>

Published(p) == publication' = [pull |-> p, head |-> Candidate] /\ To("published")

(* ensure_pr: an open pull request of the branch is taken over if it shows *)
(* the candidate.                                                          *)
LookUpPulls ==
  /\ job.pc = "pulls"
  /\ \/ OpenPulls = {} /\ To("create") /\ UNCHANGED publication
     \/ \E p \in OpenPulls :
          IF pulls[p].head = Candidate THEN Published(p)
          ELSE To("failed") /\ UNCHANGED publication
  /\ UNCHANGED <<remoteVars, mat, observed, boundVars, quiet>>

(* Mutant: the answer of the creation is not looked at.                    *)
CreatePull_Unchecked ==
  /\ job.pc = "create"
  /\ pulls' = IF MayOpen THEN NewPull(TRUE) ELSE pulls
  /\ Published(Len(pulls) + 1)
  /\ UNCHANGED <<main, branch, mat, observed, boundVars, quiet>>

(* Which commit the new pull request shows is not looked at.               *)
CreatePull ==
  /\ job.pc = "create"
  /\ IF MayOpen
     THEN pulls' = NewPull(TRUE) /\ Published(Len(pulls) + 1)
     ELSE To("failed") /\ UNCHANGED <<pulls, publication>>
  /\ UNCHANGED <<main, branch, mat, observed, boundVars, quiet>>

-----------------------------------------------------------------------------
(* The Harness materializer.                                               *)

RequestMaterialization(p, m) ==
  /\ mat.pc \in MatEnded /\ attempts < MaxAttempts
  /\ p \in OpenPulls
  /\ attempts' = attempts + 1
  /\ mat' = [pc |-> "check", pull |-> p, expected |-> pulls[p].head, tree |-> m]
  /\ UNCHANGED <<remoteVars, jobVars, observed, disturbances, quiet>>

MatTo(pc) == mat' = [mat EXCEPT !.pc = pc]

PullAsExpected ==
  LET p == pulls[mat.pull]
  IN  p.state = "open" /\ p.draft /\ p.head = mat.expected

(* Mutant: a pull request that moved is waited for.                        *)
CheckPull_Waits ==
  /\ mat.pc \in {"check", "recheck"}
  /\ PullAsExpected /\ MatTo(IF mat.pc = "check" THEN "commit" ELSE "push")
  /\ UNCHANGED <<remoteVars, jobVars, observed, boundVars, quiet>>

(* The live pull request is compared before the checkout and again before  *)
(* the push, with the commit made in between.                              *)
CheckPull ==
  /\ mat.pc \in {"check", "recheck"}
  /\ MatTo(IF ~PullAsExpected THEN "stopped"
           ELSE IF mat.pc = "check" THEN "commit" ELSE "push")
  /\ UNCHANGED <<remoteVars, jobVars, observed, boundVars, quiet>>

CommitPatch ==
  /\ mat.pc = "commit"
  /\ MatTo("recheck") \/ MatTo("stopped")
  /\ UNCHANGED <<remoteVars, jobVars, observed, boundVars, quiet>>

Materialized == Append(mat.expected, mat.tree)

Lease == branch = mat.expected

PushMaterialized ==
  /\ mat.pc = "push"
  /\ IF Lease
     THEN MoveBranch(Materialized) /\ MatTo("verify") /\ quiet' = FALSE
     ELSE UNCHANGED <<branch, pulls, quiet>> /\ MatTo("stopped")
  /\ UNCHANGED <<main, jobVars, observed, boundVars>>

VerifyLive ==
  /\ mat.pc = "verify"
  /\ MatTo(IF pulls[mat.pull].head = Materialized THEN "materialized" ELSE "stopped")
  /\ UNCHANGED <<remoteVars, jobVars, observed, boundVars, quiet>>

-----------------------------------------------------------------------------
(* The completion observer.                                                *)

(* A merge commit onto the source has the tree of its head, one onto a     *)
(* later main does not.                                                    *)
SyntheticTreeIsHeadTree(s) == s.base = 0

(* Mutant: the parents of the merge commit are not compared.               *)
Bindable_AnyMerge(p, base, head) ==
  /\ pulls[p].state = "open"
  /\ pulls[p].base = base /\ pulls[p].head = head
  /\ pulls[p].synthetic # Nothing

(* build_candidate_binding_api: one reading of the pull request, then of   *)
(* the commits it names, which never change.                               *)
Bindable(p, base, head) ==
  /\ pulls[p].state = "open"
  /\ pulls[p].base = base /\ pulls[p].head = head
  /\ pulls[p].synthetic # Nothing
  /\ pulls[p].synthetic.base = pulls[p].base
  /\ pulls[p].synthetic.head = pulls[p].head
  /\ SyntheticTreeIsHeadTree(pulls[p].synthetic)

Binding(p) == [base |-> pulls[p].base, head |-> pulls[p].head,
               synthetic |-> pulls[p].synthetic]

Observation(o) ==
  CASE o.status = "BLOCKED" /\ o.changed -> "SOL_ADJUDICATION_REQUIRED"
    [] o.status = "BLOCKED" /\ ~o.changed -> "ENGINEERING_RETRY_DECISION_REQUIRED"
    [] o.status = "READY" /\ (~o.gate \/ publication = Nothing) -> "EVIDENCE_REQUIRED"
    [] OTHER -> "EXACT_QORE_CI_REQUIRED"

(* A published candidate is only reported when it can be bound.            *)
ObserveCodex ==
  /\ job.pc \in JobEnded /\ observed.action = "none"
  /\ LET action == Observation(job.outcome) IN
     IF action # "EXACT_QORE_CI_REQUIRED"
     THEN observed' = [action |-> action, binding |-> Nothing]
     ELSE IF Bindable(publication.pull, 0, publication.head)
     THEN observed' = [action |-> action, binding |-> Binding(publication.pull)]
     ELSE observed' = [action |-> "error", binding |-> Nothing]
  /\ UNCHANGED <<remoteVars, jobVars, mat, boundVars, quiet>>

-----------------------------------------------------------------------------
(* People, and lost jobs.                                                  *)

Disturb ==
  /\ disturbances < MaxDisturbances
  /\ disturbances' = disturbances + 1 /\ quiet' = FALSE
  /\ UNCHANGED <<jobVars, mat, observed, attempts>>

(* A commit on top, another branch in its place, or the last commit off.   *)
PersonPushes(x) ==
  /\ Disturb /\ UNCHANGED main
  /\ \E c \in {Append(Source, x)} \cup
                (IF branch = Nothing THEN {} ELSE {Append(branch, x)}) \cup
                (IF branch = Nothing \/ Len(branch) < 2 THEN {} ELSE {Front(branch)}) :
       MoveBranch(c)

PersonDeletesBranch ==
  /\ Disturb /\ UNCHANGED main
  /\ branch # Nothing /\ branch' = Nothing
  /\ pulls' = [p \in DOMAIN pulls |->
       IF p \in OpenPulls THEN [pulls[p] EXCEPT !.state = "closed"] ELSE pulls[p]]

PersonOpensPull ==
  /\ Disturb /\ UNCHANGED <<main, branch>>
  /\ MayOpen /\ pulls' = NewPull(FALSE)

PersonSettlesPull(p) ==
  /\ Disturb /\ UNCHANGED branch
  /\ p \in OpenPulls
  /\ \/ pulls' = [pulls EXCEPT ![p].state = "closed"] /\ UNCHANGED main
     \/ pulls' = [pulls EXCEPT ![p].draft = FALSE] /\ UNCHANGED main
     \/ pulls' = [pulls EXCEPT ![p].state = "merged"] /\ main' = main + 1

MainMoves == Disturb /\ main' = main + 1 /\ UNCHANGED <<branch, pulls>>

(* A job dies between two calls, or after a call whose answer is lost.     *)
LoseJob ==
  /\ disturbances < MaxDisturbances
  /\ disturbances' = disturbances + 1 /\ quiet' = FALSE
  /\ \/ job.pc \in Running /\ To("failed") /\ UNCHANGED mat
     \/ mat.pc \in MatRunning /\ MatTo("stopped") /\ UNCHANGED job
  /\ UNCHANGED <<remoteVars, publication, observed, attempts>>

Controllers ==
  \/ LookUpBranch \/ PushCandidate \/ LookUpPulls \/ CreatePull
  \/ CheckPull \/ CommitPatch \/ PushMaterialized \/ VerifyLive

Next ==
  \/ Controllers \/ ObserveCodex
  \/ \E t \in Candidates, o \in Outcomes : WorkerEnds(t, o)
  \/ \E p \in DOMAIN pulls, m \in Corrections : RequestMaterialization(p, m)
  \/ \E p \in DOMAIN pulls : Recompute(p) \/ PersonSettlesPull(p)
  \/ \E x \in PersonTrees : PersonPushes(x)
  \/ PersonDeletesBranch \/ PersonOpensPull \/ MainMoves \/ LoseJob

Spec == Init /\ [][Next]_vars

(* A started job takes its next step or ends.                              *)
FairSpec == Spec /\ WF_vars(Controllers)

-----------------------------------------------------------------------------
(* No controller takes a commit off the branch: the publisher creates it,  *)
(* the materializer extends it, whatever people did in between.            *)
NoWorkLost ==
  [][ (branch' # branch /\ disturbances' = disturbances) =>
        branch = Nothing \/ IsStrictPrefix(branch, branch') ]_vars

(* A repeated job resumes: when nobody interferes, it publishes its        *)
(* candidate if the branch was absent or already at it, whatever an        *)
(* earlier job that died had left; if not, it fails and touches nothing.   *)
QuietJobResumes ==
  (job.pc \in {"published", "failed"} /\ quiet /\ job.outcome.gate
     /\ ~EverMerged /\ Len(pulls) < MaxPulls) =>
    IF job.began \in {Nothing, Candidate}
    THEN /\ job.pc = "published"
         /\ pulls[publication.pull].head = Candidate
    ELSE job.pc = "failed" /\ branch = job.began

(* A candidate is only reported as bound when the merge commit GitHub      *)
(* shows is that of the published commit onto the source, not one computed *)
(* for an earlier head or an earlier main.                                 *)
BindingExact ==
  observed.binding # Nothing =>
    /\ observed.action = "EXACT_QORE_CI_REQUIRED"
    /\ observed.binding.synthetic = [base |-> 0, head |-> Candidate]
    /\ publication # Nothing /\ observed.binding.head = publication.head

(* The calls that lie ahead of a job, and of a materialization, at most.   *)
CallsAhead == [idle |-> 0, branch |-> 4, push |-> 3, pulls |-> 2, create |-> 1,
               published |-> 0, unpublished |-> 0, failed |-> 0]
StepsAhead == [idle |-> 0, check |-> 5, commit |-> 4, recheck |-> 3, push |-> 2,
               verify |-> 1, materialized |-> 0, stopped |-> 0]

(* Nobody turns a job in progress back or exchanges its candidate: with    *)
(* every call it is nearer to its end, also when the branch, the pull      *)
(* requests and main move between its calls, and so is a materialization.  *)
JobsAdvance ==
  [][ /\ job.pc \in Running /\ job' # job =>
           /\ CallsAhead[job'.pc] < CallsAhead[job.pc]
           /\ job' = [job EXCEPT !.pc = job'.pc]
      /\ mat.pc \in MatRunning /\ mat' # mat =>
           /\ StepsAhead[mat'.pc] < StepsAhead[mat.pc]
           /\ mat' = [mat EXCEPT !.pc = mat'.pc] ]_vars

(* A publication job or a materialization that started comes to an end.    *)
ControllersEnd ==
  /\ job.pc \in Running ~> job.pc \in JobEnded
  /\ mat.pc \in MatRunning ~> mat.pc \in MatEnded
=============================================================================
