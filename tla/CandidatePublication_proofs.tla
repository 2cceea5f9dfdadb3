---------------------- MODULE CandidatePublication_proofs ----------------------
(***************************************************************************)
(* Proofs about the publication of candidates, for all trees and any       *)
(* number of jobs, materializations, pull requests and human acts.         *)
(***************************************************************************)
EXTENDS CandidatePublication, SequenceTheorems, TLAPS

(* The shapes of the data, without the bounds of the checked instance.     *)
AnyCommit == Seq(Trees)
AnyMerge == [base : Nat, head : AnyCommit]
AnyPull == [state : {"open", "closed", "merged"}, draft : BOOLEAN, head : AnyCommit,
            base : Nat, synthetic : AnyMerge \cup {Nothing}]
AnyJob == [pc : {"idle"} \cup Running \cup JobEnded, tree : Candidates,
           began : AnyCommit \cup {Nothing}, outcome : Outcomes]
AnyMat == [pc : MatEnded \cup MatRunning, pull : Nat, expected : AnyCommit,
           tree : Corrections]

Typed ==
  /\ main \in Nat /\ disturbances \in Nat /\ quiet \in BOOLEAN
  /\ branch \in AnyCommit \cup {Nothing} /\ pulls \in Seq(AnyPull)
  /\ job \in AnyJob /\ mat \in AnyMat

(* An open pull request shows the head of its branch.                      *)
OpenAtBranch ==
  \A p \in DOMAIN pulls : pulls[p].state = "open" => branch = pulls[p].head

NoRoom == EverMerged \/ ~(Len(pulls) < MaxPulls)

(* What is left of the branch a quiet job began with.                      *)
Quiet ==
  quiet /\ job.outcome.gate =>
    /\ job.pc = "branch" => branch = job.began
    /\ job.pc = "push" => job.began = Nothing /\ branch = Nothing
    /\ job.pc \in {"pulls", "create"} =>
         branch = Candidate /\ job.began \in {Nothing, Candidate}
    /\ job.pc = "create" => OpenPulls = {}
    /\ job.pc = "published" =>
         /\ job.began \in {Nothing, Candidate}
         /\ publication.pull \in DOMAIN pulls
         /\ pulls[publication.pull].head = Candidate
    /\ job.pc = "failed" =>
         NoRoom \/ (job.began \notin {Nothing, Candidate} /\ branch = job.began)

(* The publication is that of the job, and only an ended job is observed.  *)
Reported ==
  /\ publication # Nothing =>
       publication.head = Candidate /\ publication.pull \in DOMAIN pulls
  /\ job.pc \notin JobEnded => observed.binding = Nothing

IInv == Typed /\ OpenAtBranch /\ Quiet /\ Reported /\ BindingExact

-----------------------------------------------------------------------------
(* A commit on top keeps the history.                                      *)
LEMMA OnTop ==
  ASSUME NEW S, NEW s \in Seq(S), NEW x \in S
  PROVE  IsStrictPrefix(s, Append(s, x))
<1>1. /\ Append(s, x) \in Seq(S) /\ Len(Append(s, x)) = Len(s) + 1
      /\ \A i \in 1 .. Len(s) : Append(s, x)[i] = s[i]
    BY AppendProperties
<1>2. Len(s) \in Nat /\ Append(s, x) # s
    BY <1>1, LenProperties
<1>3. SubSeq(s, 1, Len(s)) = SubSeq(Append(s, x), 1, Len(s))
    BY <1>1, <1>2
<1> QED
    BY <1>1, <1>2, <1>3 DEF IsStrictPrefix, IsPrefix

LEMMA MovedPulls ==
  ASSUME Typed, NEW c \in AnyCommit, MoveBranch(c)
  PROVE  /\ branch' \in AnyCommit \cup {Nothing} /\ pulls' \in Seq(AnyPull)
         /\ DOMAIN pulls' = DOMAIN pulls /\ Len(pulls') = Len(pulls)
         /\ \A p \in DOMAIN pulls : pulls'[p].state = pulls[p].state
         /\ OpenAtBranch'
<1> DEFINE moved(p) == IF p \in OpenPulls THEN [pulls[p] EXCEPT !.head = c] ELSE pulls[p]
<1>1. pulls \in Seq(AnyPull) /\ Len(pulls) \in Nat /\ DOMAIN pulls = 1 .. Len(pulls)
    BY LenProperties DEF Typed
<1>2. \A p \in 1 .. Len(pulls) : pulls[p] \in AnyPull
    BY <1>1, ElementOfSeq
<1>3. pulls' = [p \in 1 .. Len(pulls) |-> moved(p)] /\ branch' = c
    BY <1>1 DEF MoveBranch
<1>4. \A p \in 1 .. Len(pulls) : moved(p) \in AnyPull /\ moved(p).state = pulls[p].state
    BY <1>2 DEF AnyPull
<1>5. \A p \in 1 .. Len(pulls) : moved(p).state = "open" => moved(p).head = c
    BY <1>1, <1>2 DEF AnyPull, OpenPulls
<1> HIDE DEF moved
<1>6. pulls' \in Seq(AnyPull) /\ Len(pulls') = Len(pulls)
    BY <1>1, <1>3, <1>4, IsASeq
<1> QED
    BY <1>1, <1>3, <1>4, <1>5, <1>6 DEF OpenAtBranch

LEMMA AppendedPulls ==
  ASSUME Typed, OpenAtBranch, MayOpen, NEW draft \in BOOLEAN, pulls' = NewPull(draft),
         UNCHANGED branch
  PROVE  /\ pulls' \in Seq(AnyPull) /\ OpenAtBranch'
         /\ Len(pulls') = Len(pulls) + 1 /\ Len(pulls) + 1 \in DOMAIN pulls'
         /\ DOMAIN pulls \subseteq DOMAIN pulls'
         /\ pulls'[Len(pulls) + 1].head = branch
<1> DEFINE new == [state |-> "open", draft |-> draft, head |-> branch,
                   base |-> main, synthetic |-> Nothing]
<1>1. new \in AnyPull /\ new.head = branch /\ pulls' = Append(pulls, new)
    BY DEF Typed, MayOpen, NewPull, AnyPull
<1> HIDE DEF new
<1>2. /\ pulls' \in Seq(AnyPull) /\ Len(pulls') = Len(pulls) + 1
      /\ \A p \in 1 .. Len(pulls) : pulls'[p] = pulls[p]
      /\ pulls'[Len(pulls) + 1] = new
    BY <1>1, AppendProperties DEF Typed
<1>3. /\ Len(pulls) \in Nat /\ DOMAIN pulls = 1 .. Len(pulls)
      /\ DOMAIN pulls' = 1 .. Len(pulls')
    BY <1>2, LenProperties DEF Typed
<1>4. \A p \in DOMAIN pulls' : p \in DOMAIN pulls \/ p = Len(pulls) + 1
    BY <1>2, <1>3
<1> QED
    BY <1>1, <1>2, <1>3, <1>4 DEF OpenAtBranch

(* One pull request changes to one at the branch or not open.              *)
LEMMA OnePull ==
  ASSUME Typed, OpenAtBranch, NEW p \in DOMAIN pulls, NEW q \in AnyPull,
         q.state = "open" => q.head = branch,
         pulls' = [pulls EXCEPT ![p] = q], UNCHANGED branch
  PROVE  /\ pulls' \in Seq(AnyPull) /\ OpenAtBranch'
         /\ Len(pulls') = Len(pulls) /\ DOMAIN pulls' = DOMAIN pulls
<1>1. pulls \in Seq(AnyPull) /\ p \in 1 .. Len(pulls)
    BY LenProperties DEF Typed
<1>2. pulls' \in Seq(AnyPull) /\ Len(pulls') = Len(pulls)
    BY <1>1, ExceptSeq
<1>3. DOMAIN pulls' = DOMAIN pulls
    OBVIOUS
<1> QED
    BY <1>2, <1>3 DEF OpenAtBranch

LEMMA InitInv == Init => IInv
<1> SUFFICES ASSUME Init PROVE IInv
    OBVIOUS
<1>1. branch = Nothing /\ pulls = << >> /\ main = 0 /\ disturbances = 0 /\ quiet = TRUE
    BY DEF Init
<1>2. job \in AnyJob /\ job.pc = "idle"
    BY DEF Init, AnyJob
<1>3. mat \in AnyMat
    <2>1. Source \in AnyCommit
        BY EmptySeq DEF Source, AnyCommit
    <2> QED
        BY <2>1 DEF Init, AnyMat, MatEnded
<1>4. Typed /\ OpenAtBranch
    BY <1>1, <1>2, <1>3 DEF Typed, OpenAtBranch
<1>5. Quiet
    BY <1>2 DEF Quiet
<1>6. Reported /\ BindingExact
    BY DEF Init, Reported, BindingExact
<1> QED
    BY <1>4, <1>5, <1>6 DEF IInv

-----------------------------------------------------------------------------
(* Types, and the heads of open pull requests.                             *)
LEMMA JobTo ==
  ASSUME Typed, NEW pc \in {"idle"} \cup Running \cup JobEnded, To(pc)
  PROVE  /\ job' \in AnyJob /\ job'.pc = pc
         /\ job'.tree = job.tree /\ job'.began = job.began /\ job'.outcome = job.outcome
         /\ Candidate' = Candidate
  BY DEF Typed, AnyJob, To, Candidate

LEMMA CandidateType == Typed => Candidate \in AnyCommit /\ Candidate # Nothing
<1> SUFFICES ASSUME Typed PROVE Candidate \in AnyCommit /\ Candidate # Nothing
    OBVIOUS
<1>1. job.tree \in Trees
    BY DEF Typed, AnyJob, Trees
<1>2. Candidate \in AnyCommit
    BY <1>1 DEF Candidate, AnyCommit
<1>3. Nothing \notin AnyCommit
    BY PublicationAssumption DEF AnyCommit, Trees
<1> QED
    BY <1>2, <1>3

(* A step of the publication job.                                          *)
JobStep == LookUpBranch \/ PushCandidate \/ LookUpPulls \/ CreatePull

LEMMA JobTypes ==
  ASSUME IInv, JobStep
  PROVE  /\ Typed' /\ OpenAtBranch' /\ DOMAIN pulls \subseteq DOMAIN pulls'
         /\ job'.pc \in (Running \cup JobEnded) \ {"branch"}
         /\ job'.tree = job.tree /\ job'.began = job.began /\ job'.outcome = job.outcome
         /\ Candidate' = Candidate
<1>0. Typed /\ OpenAtBranch
    BY DEF IInv
<1>1. UNCHANGED <<main, mat, disturbances, quiet>>
    BY DEF JobStep, LookUpBranch, PushCandidate, LookUpPulls, CreatePull, remoteVars, boundVars
<1>2. \E pc \in (Running \cup JobEnded) \ {"branch"} : To(pc)
    BY DEF JobStep, LookUpBranch, PushCandidate, LookUpPulls, CreatePull, Published, Running,
       JobEnded
<1>3. /\ job' \in AnyJob /\ job'.pc \in (Running \cup JobEnded) \ {"branch"}
      /\ job'.tree = job.tree /\ job'.began = job.began /\ job'.outcome = job.outcome
      /\ Candidate' = Candidate
    BY <1>0, <1>2, JobTo
<1>4. CASE UNCHANGED <<branch, pulls>>
    BY <1>0, <1>1, <1>3, <1>4 DEF Typed, OpenAtBranch
<1>5. CASE MoveBranch(Candidate)
    BY <1>0, <1>1, <1>3, <1>5, MovedPulls, CandidateType DEF Typed
<1>6. CASE MayOpen /\ pulls' = NewPull(TRUE) /\ UNCHANGED branch
    <2>1. pulls' \in Seq(AnyPull) /\ OpenAtBranch' /\ DOMAIN pulls \subseteq DOMAIN pulls'
        BY <1>0, <1>6, AppendedPulls
    <2> QED
        BY <1>0, <1>1, <1>3, <1>6, <2>1 DEF Typed
<1>7. \/ UNCHANGED <<branch, pulls>> \/ MoveBranch(Candidate)
      \/ MayOpen /\ pulls' = NewPull(TRUE) /\ UNCHANGED branch
    BY DEF JobStep, LookUpBranch, PushCandidate, LookUpPulls, CreatePull, remoteVars
<1> QED
    BY <1>3, <1>4, <1>5, <1>6, <1>7

(* A step of the materializer, and the start of one.                       *)
MatStep == CheckPull \/ CommitPatch \/ PushMaterialized \/ VerifyLive
             \/ \E p \in DOMAIN pulls, m \in Corrections : RequestMaterialization(p, m)

LEMMA MatTypes ==
  ASSUME IInv, MatStep
  PROVE  /\ Typed' /\ OpenAtBranch' /\ UNCHANGED <<jobVars, observed>>
         /\ DOMAIN pulls \subseteq DOMAIN pulls'
         /\ ~quiet' \/ UNCHANGED <<branch, pulls, quiet>>
<1>0. Typed /\ OpenAtBranch
    BY DEF IInv
<1>1. UNCHANGED <<main, jobVars, observed, disturbances>>
    BY DEF MatStep, CheckPull, CommitPatch, PushMaterialized, VerifyLive,
       RequestMaterialization, remoteVars, boundVars
<1>2. mat' \in AnyMat
    <2>1. ASSUME NEW p \in DOMAIN pulls, NEW m \in Corrections, RequestMaterialization(p, m)
          PROVE  mat' \in AnyMat
        <3>1. pulls \in Seq(AnyPull) /\ p \in 1 .. Len(pulls)
            BY <1>0, LenProperties DEF Typed
        <3>2. pulls[p] \in AnyPull /\ p \in Nat
            BY <3>1, ElementOfSeq
        <3>3. pulls[p].head \in AnyCommit
            BY <3>2 DEF AnyPull
        <3> QED
            BY <2>1, <3>2, <3>3 DEF RequestMaterialization, AnyMat, MatRunning
    <2>2. ASSUME NEW pc \in MatEnded \cup MatRunning, MatTo(pc)
          PROVE  mat' \in AnyMat
        BY <1>0, <2>2 DEF MatTo, Typed, AnyMat
    <2>3. CASE CheckPull \/ CommitPatch \/ PushMaterialized \/ VerifyLive
        BY <2>2, <2>3 DEF CheckPull, CommitPatch, PushMaterialized, VerifyLive, MatEnded, MatRunning
    <2> QED
        BY <2>1, <2>3 DEF MatStep
<1>3. CASE UNCHANGED <<branch, pulls, quiet>>
    BY <1>0, <1>1, <1>2, <1>3 DEF Typed, OpenAtBranch, jobVars
<1>4. CASE MoveBranch(Materialized) /\ quiet' = FALSE
    <2>1. Materialized \in AnyCommit
        BY <1>0, AppendProperties DEF Materialized, Typed, AnyMat, AnyCommit, Trees
    <2>2. /\ branch' \in AnyCommit \cup {Nothing} /\ pulls' \in Seq(AnyPull) /\ OpenAtBranch'
          /\ DOMAIN pulls' = DOMAIN pulls
        BY <1>0, <1>4, <2>1, MovedPulls
    <2> QED
        BY <1>0, <1>1, <1>2, <1>4, <2>2 DEF Typed, jobVars
<1>5. UNCHANGED <<branch, pulls, quiet>> \/ (MoveBranch(Materialized) /\ quiet' = FALSE)
    BY DEF MatStep, CheckPull, CommitPatch, PushMaterialized, VerifyLive,
       RequestMaterialization, remoteVars, boundVars
<1> QED
    BY <1>1, <1>3, <1>4, <1>5

(* What people do, and what GitHub computes.                               *)
Human == \/ \E p \in DOMAIN pulls : PersonSettlesPull(p)
         \/ \E x \in PersonTrees : PersonPushes(x)
         \/ PersonDeletesBranch \/ PersonOpensPull \/ MainMoves

LEMMA HumanTypes ==
  ASSUME IInv, Human
  PROVE  /\ Typed' /\ OpenAtBranch' /\ ~quiet' /\ UNCHANGED <<jobVars, observed>>
         /\ DOMAIN pulls \subseteq DOMAIN pulls'
<1>0. /\ Typed /\ OpenAtBranch
      /\ pulls \in Seq(AnyPull) /\ DOMAIN pulls = 1 .. Len(pulls)
      /\ \A p \in DOMAIN pulls : pulls[p] \in AnyPull
    BY LenProperties, ElementOfSeq DEF IInv, Typed
<1>1. /\ disturbances' = disturbances + 1 /\ quiet' = FALSE
      /\ UNCHANGED <<jobVars, mat, observed, attempts>>
    BY DEF Human, PersonSettlesPull, PersonPushes, PersonDeletesBranch, PersonOpensPull,
       MainMoves, Disturb
<1>2. main' \in Nat /\ disturbances' \in Nat
    <2>1. main' = main \/ main' = main + 1
        BY Zenon DEF Human, PersonSettlesPull, PersonPushes, PersonDeletesBranch,
           PersonOpensPull, MainMoves
    <2>2. main \in Nat /\ disturbances \in Nat
        BY <1>0 DEF Typed
    <2> QED
        BY <1>1, <2>1, <2>2
<1> DEFINE Moved ==
      /\ branch' \in AnyCommit \cup {Nothing} /\ pulls' \in Seq(AnyPull) /\ OpenAtBranch'
      /\ DOMAIN pulls \subseteq DOMAIN pulls'
<1>3. ASSUME NEW p \in DOMAIN pulls, PersonSettlesPull(p)
      PROVE  Moved
    <2>1. UNCHANGED branch /\ p \in OpenPulls
        BY <1>3 DEF PersonSettlesPull
    <2>2. PICK q \in {[pulls[p] EXCEPT !.state = "closed"], [pulls[p] EXCEPT !.draft = FALSE],
                     [pulls[p] EXCEPT !.state = "merged"]} : pulls' = [pulls EXCEPT ![p] = q]
        BY <1>3 DEF PersonSettlesPull
    <2>3. q \in AnyPull /\ (q.state = "open" => q.head = branch)
        BY <1>0, <2>1, <2>2 DEF AnyPull, OpenAtBranch, OpenPulls
    <2> QED
        BY <1>0, <2>1, <2>2, <2>3, OnePull DEF Typed
<1>4. ASSUME NEW x \in PersonTrees, PersonPushes(x)
      PROVE  Moved
    <2>1. PICK c \in {Append(Source, x)} \cup
                (IF branch = Nothing THEN {} ELSE {Append(branch, x)}) \cup
                (IF branch = Nothing \/ Len(branch) < 2 THEN {} ELSE {Front(branch)}) :
              MoveBranch(c)
        BY <1>4 DEF PersonPushes
    <2>2. x \in Trees /\ Source \in AnyCommit
        BY EmptySeq DEF Trees, Source, AnyCommit
    <2>3. branch # Nothing => branch \in AnyCommit
        BY <1>0 DEF Typed
    <2>4. Append(Source, x) \in AnyCommit
        BY <2>2, AppendProperties DEF AnyCommit
    <2>5. branch # Nothing => Append(branch, x) \in AnyCommit
        BY <2>2, <2>3, AppendProperties DEF AnyCommit
    <2>6. branch # Nothing /\ ~(Len(branch) < 2) => Front(branch) \in AnyCommit
        BY <2>3, SubSeqProperties, LenProperties DEF AnyCommit, Front
    <2>7. c \in AnyCommit
        BY <2>1, <2>4, <2>5, <2>6
    <2> QED
        BY <1>0, <2>1, <2>7, MovedPulls
<1>5. ASSUME PersonDeletesBranch
      PROVE  Moved
    <2> DEFINE closed(p) == IF p \in OpenPulls THEN [pulls[p] EXCEPT !.state = "closed"]
                            ELSE pulls[p]
    <2>1. pulls' = [p \in 1 .. Len(pulls) |-> closed(p)] /\ branch' = Nothing
        BY <1>0, <1>5 DEF PersonDeletesBranch
    <2>2. \A p \in 1 .. Len(pulls) : closed(p) \in AnyPull /\ closed(p).state # "open"
        BY <1>0 DEF AnyPull, OpenPulls
    <2>3. Len(pulls) \in Nat
        BY <1>0, LenProperties
    <2> HIDE DEF closed
    <2>4. pulls' \in Seq(AnyPull) /\ DOMAIN pulls' = DOMAIN pulls
        BY <1>0, <2>1, <2>2, <2>3, IsASeq
    <2> QED
        BY <2>1, <2>2, <2>4 DEF OpenAtBranch
<1>6. ASSUME PersonOpensPull
      PROVE  Moved
    <2>1. MayOpen /\ pulls' = NewPull(FALSE) /\ UNCHANGED branch
        BY <1>6 DEF PersonOpensPull
    <2> QED
        BY <1>0, <2>1, AppendedPulls DEF Typed
<1>7. ASSUME MainMoves
      PROVE  Moved
    BY <1>0, <1>7 DEF MainMoves, Typed, OpenAtBranch
<1>8. Moved
    BY <1>3, <1>4, <1>5, <1>6, <1>7 DEF Human
<1>9. UNCHANGED <<jobVars, mat, observed>> /\ job \in AnyJob /\ mat \in AnyMat
    BY <1>0, <1>1 DEF Typed
<1>10. job' \in AnyJob /\ mat' \in AnyMat
    BY <1>9 DEF jobVars
<1> QED
    BY <1>1, <1>2, <1>8, <1>9, <1>10 DEF Typed

LEMMA RecomputeTypes ==
  ASSUME IInv, NEW p \in DOMAIN pulls, Recompute(p)
  PROVE  /\ Typed' /\ OpenAtBranch' /\ UNCHANGED <<jobVars, observed, branch, quiet>>
         /\ DOMAIN pulls' = DOMAIN pulls /\ Len(pulls') = Len(pulls)
         /\ \A r \in DOMAIN pulls : /\ pulls'[r].head = pulls[r].head
                                   /\ pulls'[r].state = pulls[r].state
<1> DEFINE now == [pulls[p] EXCEPT !.base = main,
                     !.synthetic = [base |-> main, head |-> pulls[p].head]]
<1>0. /\ Typed /\ OpenAtBranch
      /\ pulls \in Seq(AnyPull) /\ p \in 1 .. Len(pulls)
    BY LenProperties DEF IInv, Typed
<1>1. pulls[p] \in AnyPull
    BY <1>0, ElementOfSeq
<1>2. now \in AnyPull /\ now.head = pulls[p].head /\ now.state = pulls[p].state
    BY <1>0, <1>1 DEF Typed, AnyPull, AnyMerge
<1>3. /\ pulls' = [pulls EXCEPT ![p] = now] /\ p \in OpenPulls
      /\ UNCHANGED <<main, branch, jobVars, mat, observed, boundVars, quiet>>
    BY DEF Recompute
<1> HIDE DEF now
<1>4. now.state = "open" => now.head = branch
    BY <1>0, <1>2 DEF OpenAtBranch
<1>5. pulls' \in Seq(AnyPull) /\ OpenAtBranch' /\ Len(pulls') = Len(pulls)
    BY <1>0, <1>2, <1>3, <1>4, OnePull
<1>6. Typed'
    BY <1>0, <1>3, <1>5 DEF Typed, jobVars, boundVars
<1> QED
    BY <1>2, <1>3, <1>5, <1>6

-----------------------------------------------------------------------------
(* The publication job.                                                    *)
LEMMA JobQuiet ==
  ASSUME IInv, JobStep
  PROVE  Quiet'
<1>1. /\ Typed /\ OpenAtBranch /\ Quiet
      /\ job'.tree = job.tree /\ job'.began = job.began /\ job'.outcome = job.outcome
      /\ Candidate' = Candidate /\ Candidate # Nothing
    BY JobTypes, CandidateType DEF IInv
<1>2. quiet' = quiet
    BY DEF JobStep, LookUpBranch, PushCandidate, LookUpPulls, CreatePull
<1>3. \A pc \in {"push", "pulls", "create", "published", "failed"} : To(pc) => job'.pc = pc
    BY <1>1, JobTo DEF Running, JobEnded
<1> SUFFICES ASSUME quiet, job.outcome.gate PROVE Quiet'
    BY <1>1, <1>2 DEF Quiet
<1>4. CASE LookUpBranch
    <2>1. branch = job.began /\ UNCHANGED <<branch, pulls>>
        BY <1>1, <1>4 DEF LookUpBranch, Quiet, remoteVars
    <2>2. \/ branch = Nothing /\ To("push")
          \/ branch = Candidate /\ To("pulls")
          \/ branch \notin {Nothing, Candidate} /\ To("failed")
        BY <1>4, Zenon DEF LookUpBranch
    <2>3. \/ branch = Nothing /\ job'.pc = "push"
          \/ branch = Candidate /\ job'.pc = "pulls"
          \/ branch \notin {Nothing, Candidate} /\ job'.pc = "failed"
        BY <1>3, <2>2
    <2> QED
        BY <1>1, <2>1, <2>3 DEF Quiet
<1>5. CASE PushCandidate
    <2>1. branch = Nothing /\ job.began = Nothing
        BY <1>1, <1>5 DEF PushCandidate, Quiet
    <2>2. branch' = Candidate /\ job'.pc = "pulls"
        BY <1>3, <1>5, <2>1 DEF PushCandidate, FastForward, MoveBranch
    <2> QED
        BY <1>1, <2>1, <2>2 DEF Quiet
<1>6. CASE LookUpPulls
    <2>1. /\ branch = Candidate /\ job.began \in {Nothing, Candidate}
          /\ UNCHANGED <<branch, pulls>>
        BY <1>1, <1>6 DEF LookUpPulls, Quiet, remoteVars
    <2>2. CASE OpenPulls = {} /\ To("create")
        BY <1>1, <1>3, <2>1, <2>2 DEF Quiet, OpenPulls
    <2>3. ASSUME NEW p \in OpenPulls,
                 IF pulls[p].head = Candidate THEN Published(p) ELSE To("failed")
          PROVE  Quiet'
        <3>1. p \in DOMAIN pulls /\ pulls[p].head = Candidate
            BY <1>1, <2>1 DEF OpenPulls, OpenAtBranch
        <3>2. publication'.pull = p /\ job'.pc = "published"
            BY <1>3, <2>3, <3>1 DEF Published
        <3> QED
            BY <1>1, <2>1, <3>1, <3>2 DEF Quiet
    <2> QED
        BY <1>6, <2>2, <2>3 DEF LookUpPulls
<1>7. CASE CreatePull
    <2>1. branch = Candidate /\ job.began \in {Nothing, Candidate} /\ OpenPulls = {}
        BY <1>1, <1>7 DEF CreatePull, Quiet
    <2>2. CASE MayOpen
        <3>1. /\ pulls' = NewPull(TRUE) /\ UNCHANGED branch
              /\ publication'.pull = Len(pulls) + 1 /\ job'.pc = "published"
            BY <1>3, <1>7, <2>2 DEF CreatePull, Published
        <3>2. /\ Len(pulls) + 1 \in DOMAIN pulls'
              /\ pulls'[Len(pulls) + 1].head = branch
            BY <1>1, <2>2, <3>1, AppendedPulls
        <3> QED
            BY <1>1, <2>1, <3>1, <3>2 DEF Quiet
    <2>3. CASE ~MayOpen
        <3>1. UNCHANGED <<branch, pulls>> /\ job'.pc = "failed"
            BY <1>3, <1>7, <2>3 DEF CreatePull
        <3>2. NoRoom
            BY <1>1, <2>1, <2>3 DEF MayOpen, NoRoom
        <3>3. NoRoom'
            BY <3>1, <3>2 DEF NoRoom, EverMerged
        <3> QED
            BY <3>1, <3>3 DEF Quiet
    <2> QED
        BY <2>2, <2>3
<1> QED
    BY <1>4, <1>5, <1>6, <1>7 DEF JobStep

LEMMA JobReported ==
  ASSUME IInv, JobStep
  PROVE  Reported' /\ BindingExact'
<1>1. observed.binding = Nothing /\ UNCHANGED observed
    BY DEF JobStep, LookUpBranch, PushCandidate, LookUpPulls, CreatePull, IInv, Reported, JobEnded
<1>2. \/ publication' = publication
      \/ /\ publication'.head = Candidate
         /\ \/ publication'.pull \in DOMAIN pulls
            \/ publication'.pull \in DOMAIN pulls'
    <2>1. ASSUME CreatePull, MayOpen
          PROVE  publication'.head = Candidate /\ publication'.pull \in DOMAIN pulls'
        <3>1. /\ pulls' = NewPull(TRUE) /\ UNCHANGED branch
              /\ publication' = [pull |-> Len(pulls) + 1, head |-> Candidate]
            BY <2>1 DEF CreatePull, Published
        <3>2. Len(pulls) + 1 \in DOMAIN pulls'
            BY <2>1, <3>1, AppendedPulls DEF IInv
        <3> QED
            BY <3>1, <3>2
    <2>2. ASSUME LookUpPulls
          PROVE  \/ publication' = publication
                 \/ publication'.head = Candidate /\ publication'.pull \in DOMAIN pulls
        BY <2>2 DEF LookUpPulls, Published, OpenPulls
    <2>3. ASSUME LookUpBranch \/ PushCandidate \/ (CreatePull /\ ~MayOpen)
          PROVE  publication' = publication
        BY <2>3 DEF LookUpBranch, PushCandidate, CreatePull
    <2> QED
        BY <2>1, <2>2, <2>3, Zenon DEF JobStep
<1>3. Candidate' = Candidate /\ DOMAIN pulls \subseteq DOMAIN pulls'
    BY JobTypes
<1> QED
    BY <1>1, <1>2, <1>3 DEF IInv, Reported, BindingExact

(* A new worker's outcome starts a new job.                                *)
LEMMA WorkerEndsInv ==
  ASSUME IInv, NEW t \in Candidates, NEW o \in Outcomes, WorkerEnds(t, o)
  PROVE  IInv'
<1>0. Typed /\ OpenAtBranch
    BY DEF IInv
<1>1. PICK pc \in {"unpublished", "failed", "branch"} :
        /\ job' = [pc |-> pc, tree |-> t, began |-> branch, outcome |-> o]
        /\ pc = "failed" => ~o.gate
    <2>1. \/ o.status = "BLOCKED"
          \/ o.status = "READY" /\ ~o.gate
          \/ o.status = "READY" /\ o.gate
        BY DEF Outcomes
    <2> QED
        BY <2>1, Zenon DEF WorkerEnds
<1>2. /\ publication' = Nothing /\ quiet' = TRUE /\ observed'.binding = Nothing
      /\ UNCHANGED <<main, branch, pulls, mat, disturbances>>
    BY DEF WorkerEnds, remoteVars
<1>3. job' \in AnyJob
    BY <1>0, <1>1 DEF AnyJob, Typed, Running, JobEnded
<1>4. Typed' /\ OpenAtBranch'
    BY <1>0, <1>2, <1>3 DEF Typed, OpenAtBranch
<1>5. Quiet'
    BY <1>1, <1>2 DEF Quiet
<1>6. Reported' /\ BindingExact'
    BY <1>2 DEF Reported, BindingExact
<1> QED
    BY <1>4, <1>5, <1>6 DEF IInv

(* What the observer binds is the published candidate on the source.       *)
LEMMA ObserveInv ==
  ASSUME IInv, ObserveCodex
  PROVE  IInv'
<1>1. UNCHANGED <<remoteVars, jobVars, mat, boundVars, quiet>> /\ job.pc \in JobEnded
    BY DEF ObserveCodex
<1>2. Typed' /\ OpenAtBranch' /\ Quiet'
    BY <1>1 DEF IInv, Typed, OpenAtBranch, Quiet, NoRoom, EverMerged, OpenPulls, Candidate,
       remoteVars, jobVars, boundVars
<1>3. Reported'
    <2>1. UNCHANGED <<job, publication, pulls, Candidate>>
        BY <1>1 DEF jobVars, remoteVars, Candidate
    <2> QED
        BY <1>1, <2>1 DEF IInv, Reported
<1>4. ASSUME observed'.binding = Nothing
      PROVE  BindingExact'
    BY <1>4 DEF BindingExact
<1>5. ASSUME observed'.binding # Nothing
      PROVE  BindingExact'
    <2>1. /\ Observation(job.outcome) = "EXACT_QORE_CI_REQUIRED"
          /\ Bindable(publication.pull, 0, publication.head)
          /\ observed' = [action |-> "EXACT_QORE_CI_REQUIRED",
                          binding |-> Binding(publication.pull)]
        BY <1>5 DEF ObserveCodex
    <2>2. publication # Nothing
        <3>1. job.outcome \in Outcomes
            BY DEF IInv, Typed, AnyJob
        <3>2. job.outcome.status \in {"READY", "BLOCKED"}
            BY <3>1 DEF Outcomes
        <3>3. /\ "SOL_ADJUDICATION_REQUIRED" # "EXACT_QORE_CI_REQUIRED"
              /\ "ENGINEERING_RETRY_DECISION_REQUIRED" # "EXACT_QORE_CI_REQUIRED"
              /\ "EVIDENCE_REQUIRED" # "EXACT_QORE_CI_REQUIRED"
            OBVIOUS
        <3> QED
            BY <2>1, <3>2, <3>3, Zenon DEF Observation
    <2> DEFINE p == publication.pull
    <2>3. publication.head = Candidate /\ p \in DOMAIN pulls
        BY <2>2 DEF IInv, Reported
    <2>4. /\ pulls[p].base = 0 /\ pulls[p].head = Candidate
          /\ pulls[p].synthetic # Nothing
          /\ pulls[p].synthetic.base = 0 /\ pulls[p].synthetic.head = Candidate
        BY <2>1, <2>3 DEF Bindable
    <2>5. pulls[p].synthetic = [base |-> 0, head |-> Candidate]
        <3>1. pulls \in Seq(AnyPull) /\ p \in 1 .. Len(pulls)
            BY <2>3, LenProperties DEF IInv, Typed
        <3>2. pulls[p] \in AnyPull
            BY <3>1, ElementOfSeq
        <3>3. pulls[p].synthetic \in AnyMerge
            BY <2>4, <3>2 DEF AnyPull
        <3> QED
            BY <2>4, <3>3 DEF AnyMerge
    <2> QED
        BY <1>1, <2>1, <2>2, <2>3, <2>4, <2>5 DEF BindingExact, Binding, jobVars, Candidate
<1> QED
    BY <1>2, <1>3, <1>4, <1>5 DEF IInv

(* Steps that leave the job alone.                                         *)
LEMMA JobKept ==
  ASSUME IInv, UNCHANGED <<jobVars, observed>>, DOMAIN pulls \subseteq DOMAIN pulls'
  PROVE  Reported' /\ BindingExact'
  BY DEF IInv, Reported, BindingExact, jobVars, Candidate

LEMMA NextInv == IInv /\ [Next]_vars => IInv'
<1> SUFFICES ASSUME IInv, [Next]_vars PROVE IInv'
    OBVIOUS
<1>1. CASE JobStep
    BY <1>1, JobTypes, JobQuiet, JobReported DEF IInv
<1>2. CASE MatStep
    <2>1. /\ Typed' /\ OpenAtBranch' /\ UNCHANGED <<jobVars, observed>>
          /\ DOMAIN pulls \subseteq DOMAIN pulls'
          /\ ~quiet' \/ UNCHANGED <<branch, pulls, quiet>>
        BY <1>2, MatTypes
    <2>2. Quiet'
        BY <2>1 DEF IInv, Quiet, NoRoom, EverMerged, OpenPulls, Candidate, jobVars
    <2> QED
        BY <2>1, <2>2, JobKept DEF IInv
<1>3. CASE Human
    <2>1. /\ Typed' /\ OpenAtBranch' /\ UNCHANGED <<jobVars, observed>> /\ ~quiet'
          /\ DOMAIN pulls \subseteq DOMAIN pulls'
        BY <1>3, HumanTypes
    <2> QED
        BY <2>1, JobKept DEF IInv, Quiet
<1>4. ASSUME NEW p \in DOMAIN pulls, Recompute(p)
      PROVE  IInv'
    <2>1. /\ Typed' /\ OpenAtBranch' /\ UNCHANGED <<jobVars, observed, branch, quiet>>
          /\ DOMAIN pulls' = DOMAIN pulls /\ Len(pulls') = Len(pulls)
          /\ \A r \in DOMAIN pulls : /\ pulls'[r].head = pulls[r].head
                                    /\ pulls'[r].state = pulls[r].state
        BY <1>4, RecomputeTypes
    <2>2. OpenPulls' = OpenPulls /\ NoRoom' = NoRoom /\ Candidate' = Candidate
        BY <2>1 DEF OpenPulls, NoRoom, EverMerged, Candidate, jobVars
    <2>3. Quiet'
        BY <2>1, <2>2 DEF IInv, Quiet, jobVars
    <2> QED
        BY <2>1, <2>3, JobKept DEF IInv
<1>5. CASE LoseJob
    <2>1. /\ quiet' = FALSE /\ disturbances' = disturbances + 1
          /\ UNCHANGED <<remoteVars, publication, observed>>
        BY <1>5 DEF LoseJob
    <2>2. \/ job' = [job EXCEPT !.pc = "failed"] /\ mat' = mat
          \/ job' = job /\ mat' = [mat EXCEPT !.pc = "stopped"]
        BY <1>5 DEF LoseJob, To, MatTo
    <2>3. /\ job' \in AnyJob /\ job'.tree = job.tree /\ mat' \in AnyMat
          /\ job'.pc \in {job.pc, "failed"}
        BY <2>2 DEF IInv, Typed, AnyJob, AnyMat, JobEnded, MatEnded
    <2>4. Typed' /\ OpenAtBranch'
        <3>0. disturbances' \in Nat
            BY <2>1 DEF IInv, Typed
        <3>1. disturbances' \in Nat /\ quiet' \in BOOLEAN /\ UNCHANGED <<main, branch, pulls>>
            BY <2>1, <3>0, Zenon DEF remoteVars
        <3>2. OpenAtBranch'
            BY <3>1 DEF IInv, OpenAtBranch
        <3>3. /\ main' \in Nat /\ branch' \in AnyCommit \cup {Nothing}
              /\ pulls' \in Seq(AnyPull)
            BY <3>1 DEF IInv, Typed
        <3> QED
            BY <2>3, <3>1, <3>2, <3>3 DEF Typed
    <2>5. Quiet'
        BY <2>1 DEF Quiet
    <2>6. Reported' /\ BindingExact'
        BY <2>1, <2>3 DEF IInv, Reported, BindingExact, Candidate, remoteVars, JobEnded
    <2> QED
        BY <2>4, <2>5, <2>6 DEF IInv
<1>6. CASE UNCHANGED vars
    BY <1>6 DEF vars, remoteVars, jobVars, boundVars, IInv, Typed, OpenAtBranch, Quiet, NoRoom,
       EverMerged, OpenPulls, Candidate, Reported, BindingExact
<1>7. ASSUME NEW t \in Candidates, NEW o \in Outcomes, WorkerEnds(t, o)
      PROVE  IInv'
    BY <1>7, WorkerEndsInv
<1>8. CASE ObserveCodex
    BY <1>8, ObserveInv
<1>9. CASE Next
    BY <1>1, <1>2, <1>3, <1>4, <1>5, <1>7, <1>8, <1>9 DEF Next, Controllers, JobStep, MatStep, Human
<1> QED
    BY <1>6, <1>9

LEMMA Invariance == Spec => []IInv
<1>1. IInv /\ [Next]_vars => IInv'
    BY NextInv
<1> QED
    BY InitInv, <1>1, PTL DEF Spec

(* What the completion observer reports as bound is the candidate that the *)
(* job published, merged onto the source commit.                           *)
THEOREM ObservedCandidate == Spec => []BindingExact
<1>1. IInv => BindingExact
    BY DEF IInv
<1> QED
    BY Invariance, <1>1, PTL

(* A publication job that nobody interferes with publishes its candidate   *)
(* if the branch was absent or at it, and otherwise leaves it alone.       *)
THEOREM QuietJobs == Spec => []QuietJobResumes
<1>1. IInv => QuietJobResumes
    BY DEF IInv, Quiet, QuietJobResumes, NoRoom
<1> QED
    BY Invariance, <1>1, PTL

(* The controllers only ever add to the branch, in any order with what     *)
(* people do to it.                                                        *)
THEOREM BranchGrows == Spec => NoWorkLost
<1> DEFINE Grows == (branch' # branch /\ disturbances' = disturbances) =>
                      branch = Nothing \/ IsStrictPrefix(branch, branch')
<1>1. ASSUME IInv, Next, branch' # branch, disturbances' = disturbances, branch # Nothing
      PROVE  IsStrictPrefix(branch, branch')
    <2>1. PushCandidate \/ PushMaterialized
        <3>1. disturbances + 1 # disturbances
            BY <1>1 DEF IInv, Typed
        <3>2. ~Human /\ ~LoseJob
            BY <1>1, <3>1 DEF Human, PersonSettlesPull, PersonPushes, PersonDeletesBranch,
               PersonOpensPull, MainMoves, Disturb, LoseJob
        <3>3. \A p \in DOMAIN pulls : ~Recompute(p)
            BY <1>1 DEF Recompute
        <3>4. /\ \A t \in Candidates, o \in Outcomes : ~WorkerEnds(t, o)
              /\ \A p \in DOMAIN pulls, m \in Corrections : ~RequestMaterialization(p, m)
            BY <1>1 DEF WorkerEnds, RequestMaterialization, remoteVars
        <3>5. ~(\/ ObserveCodex \/ LookUpBranch \/ LookUpPulls \/ CreatePull
                \/ CheckPull \/ CommitPatch \/ VerifyLive)
            BY <1>1 DEF ObserveCodex, LookUpBranch, LookUpPulls, CreatePull, CheckPull,
               CommitPatch, VerifyLive, remoteVars
        <3> QED
            BY <1>1, <3>2, <3>3, <3>4, <3>5 DEF Next, Controllers, Human
    <2>2. CASE PushCandidate
        BY <1>1, <2>2 DEF PushCandidate, FastForward, MoveBranch, IsStrictPrefix
    <2>3. CASE PushMaterialized
        <3>1. branch = mat.expected /\ branch' = Append(mat.expected, mat.tree)
            BY <1>1, <2>3 DEF PushMaterialized, Lease, MoveBranch, Materialized
        <3>2. mat.expected \in Seq(Trees) /\ mat.tree \in Trees
            BY <1>1 DEF IInv, Typed, AnyMat, AnyCommit, Trees
        <3> QED
            BY <3>1, <3>2, OnTop
    <2> QED
        BY <2>1, <2>2, <2>3
<1>2. IInv /\ [Next]_vars => [Grows]_vars
    BY <1>1
<1>3. Spec => [][Grows]_vars
    <2> HIDE DEF Grows
    <2> QED
        BY Invariance, <1>2, PTL DEF Spec
<1> QED
    BY <1>3 DEF NoWorkLost

-----------------------------------------------------------------------------
(* The types of the checked instance.  Its bounds follow from counting:    *)
(* a commit is never longer than the jobs and the acts that made it, and   *)
(* main never moved but by an act.                                         *)
Short == {c \in AnyCommit : Len(c) <= attempts + disturbances}
ShortMerge == [base : 0 .. disturbances, head : Short]
ShortPull == [state : {"open", "closed", "merged"}, draft : BOOLEAN, head : Short,
              base : 0 .. disturbances, synthetic : ShortMerge \cup {Nothing}]

RemoteCounted ==
  /\ main \in 0 .. disturbances /\ branch \in Short \cup {Nothing}
  /\ Len(pulls) <= MaxPulls
  /\ \A p \in DOMAIN pulls : pulls[p] \in ShortPull

(* A job that started has made its own commit one of those counted, and so *)
(* has a materialization that runs.                                        *)
JobsCounted ==
  /\ job.began \in Short \cup {Nothing}
  /\ job.pc # "idle" => attempts > 0
  /\ mat.expected \in Short /\ mat.pull <= MaxPulls
  /\ mat.pc \in MatRunning => Len(mat.expected) < attempts + disturbances

ReportsCounted ==
  /\ publication = Nothing \/ publication \in [pull : DOMAIN pulls, head : Short]
  /\ \/ observed.binding = Nothing
     \/ observed.binding \in [base : 0 .. disturbances, head : Short, synthetic : ShortMerge]

ActsCounted == attempts \in 0 .. MaxAttempts /\ disturbances \in 0 .. MaxDisturbances

Counted == ActsCounted /\ RemoteCounted /\ JobsCounted /\ ReportsCounted

Later == /\ attempts \in Nat /\ attempts' \in Nat /\ attempts <= attempts'
         /\ disturbances \in Nat /\ disturbances' \in Nat /\ disturbances <= disturbances'

(* What was short enough stays so.                                         *)
LEMMA ShortLater ==
  ASSUME Later
  PROVE  /\ Short \subseteq Short' /\ ShortMerge \subseteq ShortMerge'
         /\ ShortPull \subseteq ShortPull' /\ 0 .. disturbances \subseteq 0 .. disturbances'
<1>1. 0 .. disturbances \subseteq 0 .. disturbances'
    BY DEF Later
<1>2. Short \subseteq Short'
    <2>1. ASSUME NEW c \in AnyCommit, Len(c) <= attempts + disturbances
          PROVE  Len(c) <= attempts' + disturbances'
        BY <2>1, LenProperties DEF Later, AnyCommit
    <2> QED
        BY <2>1 DEF Short
<1>3. ShortMerge \subseteq ShortMerge'
    BY <1>1, <1>2 DEF ShortMerge
<1>4. ShortPull \subseteq ShortPull'
    BY <1>1, <1>2, <1>3 DEF ShortPull
<1> QED
    BY <1>1, <1>2, <1>3, <1>4

(* The branch moves to a commit that is counted.                           *)
LEMMA CountedMove ==
  ASSUME Typed, RemoteCounted, Later, NEW c \in Short', MoveBranch(c)
  PROVE  /\ branch' \in Short' /\ Len(pulls') <= MaxPulls
         /\ \A p \in DOMAIN pulls' : pulls'[p] \in ShortPull'
<1>1. \A p \in DOMAIN pulls : pulls[p] \in ShortPull'
    BY ShortLater DEF RemoteCounted
<1>2. ASSUME NEW q \in ShortPull'
      PROVE  [q EXCEPT !.head = c] \in ShortPull'
    BY <1>2 DEF ShortPull
<1>3. branch' = c /\ pulls' = [p \in DOMAIN pulls |->
        IF p \in OpenPulls THEN [pulls[p] EXCEPT !.head = c] ELSE pulls[p]]
    BY DEF MoveBranch
<1>4. \A p \in DOMAIN pulls' : pulls'[p] \in ShortPull'
    BY <1>1, <1>2, <1>3
<1>5. c \in AnyCommit
    BY DEF Short
<1>6. Len(pulls') = Len(pulls)
    BY <1>5, MovedPulls
<1> QED
    BY <1>3, <1>4, <1>6 DEF RemoteCounted

(* A pull request is opened.                                               *)
LEMMA CountedOpening ==
  ASSUME Typed, OpenAtBranch, RemoteCounted, Later, MayOpen, NEW draft \in BOOLEAN,
         pulls' = NewPull(draft), UNCHANGED branch
  PROVE  /\ Len(pulls') <= MaxPulls
         /\ \A p \in DOMAIN pulls' : pulls'[p] \in ShortPull'
<1> DEFINE new == [state |-> "open", draft |-> draft, head |-> branch,
                   base |-> main, synthetic |-> Nothing]
<1>1. new \in ShortPull' /\ pulls' = Append(pulls, new)
    <2>1. branch \in Short' /\ main \in 0 .. disturbances'
        BY ShortLater DEF RemoteCounted, MayOpen
    <2> QED
        BY <2>1 DEF NewPull, ShortPull
<1> HIDE DEF new
<1>2. \A p \in DOMAIN pulls : pulls[p] \in ShortPull'
    BY ShortLater DEF RemoteCounted
<1>3. pulls \in Seq(AnyPull)
    BY DEF Typed
<1>4. Len(pulls) \in Nat /\ DOMAIN pulls = 1 .. Len(pulls) /\ MaxPulls \in Nat
    BY <1>3, LenProperties, PublicationAssumption
<1>5. /\ DOMAIN pulls' = 1 .. Len(pulls) + 1 /\ Len(pulls') = Len(pulls) + 1
      /\ \A p \in 1 .. Len(pulls) : pulls'[p] = pulls[p]
      /\ pulls'[Len(pulls) + 1] = new
    <2>1. pulls' \in Seq(AnyPull)
        BY AppendedPulls
    <2> QED
        BY <1>1, <1>3, <1>4, <2>1
<1>6. \A p \in DOMAIN pulls' : p \in 1 .. Len(pulls) \/ p = Len(pulls) + 1
    BY <1>4, <1>5
<1> QED
    BY <1>1, <1>2, <1>4, <1>5, <1>6 DEF MayOpen

(* One pull request becomes another one that is counted.                   *)
LEMMA CountedPull ==
  ASSUME Typed, RemoteCounted, Later, NEW p \in DOMAIN pulls, NEW q \in ShortPull',
         pulls' = [pulls EXCEPT ![p] = q]
  PROVE  /\ Len(pulls') <= MaxPulls
         /\ \A r \in DOMAIN pulls' : pulls'[r] \in ShortPull'
<1>1. \A r \in DOMAIN pulls : pulls[r] \in ShortPull'
    BY ShortLater DEF RemoteCounted
<1>2. pulls \in Seq(AnyPull) /\ Len(pulls) \in Nat /\ DOMAIN pulls = 1 .. Len(pulls)
    BY LenProperties DEF Typed
<1>3. Len(pulls') = Len(pulls)
    BY <1>2
<1> QED
    BY <1>1, <1>3 DEF RemoteCounted

(* What a step leaves alone stays counted.                                 *)
LEMMA JobsKept ==
  ASSUME Typed, JobsCounted, Later, UNCHANGED <<job, mat>>
  PROVE  JobsCounted'
<1>1. job.began \in Short' \cup {Nothing} /\ mat.expected \in Short'
    BY ShortLater DEF JobsCounted
<1>2. attempts > 0 => attempts' > 0
    BY DEF Later
<1>3. Len(mat.expected) < attempts + disturbances
        => Len(mat.expected) < attempts' + disturbances'
    BY LenProperties DEF Later, Typed, AnyMat, AnyCommit
<1> QED
    BY <1>1, <1>2, <1>3 DEF JobsCounted

LEMMA ReportsKept ==
  ASSUME ReportsCounted, Later, DOMAIN pulls \subseteq DOMAIN pulls',
         UNCHANGED <<publication, observed>>
  PROVE  ReportsCounted'
  BY ShortLater DEF ReportsCounted

LEMMA RemoteKept ==
  ASSUME RemoteCounted, Later, UNCHANGED <<main, branch, pulls>>
  PROVE  RemoteCounted'
  BY ShortLater DEF RemoteCounted

LEMMA CandidateCounted ==
  ASSUME Typed, ActsCounted, JobsCounted, job.pc # "idle"
  PROVE  Candidate \in Short
<1>1. attempts > 0 /\ attempts \in Nat /\ disturbances \in Nat
    BY PublicationAssumption DEF ActsCounted, JobsCounted
<1>2. Len(Candidate) = 1
    BY DEF Candidate
<1> QED
    BY <1>1, <1>2, CandidateType DEF Short

(* A step of the publication job.                                          *)
LEMMA JobCounted ==
  ASSUME IInv, Counted, JobStep
  PROVE  Counted'
<1>1. UNCHANGED <<main, mat, observed, attempts, disturbances>>
    BY DEF JobStep, LookUpBranch, PushCandidate, LookUpPulls, CreatePull, remoteVars, boundVars
<1>2. ActsCounted' /\ Later /\ Typed /\ OpenAtBranch
    BY <1>1 DEF Counted, ActsCounted, Later, IInv, Typed
<1>3. /\ Candidate \in Short /\ Short' = Short /\ ShortMerge' = ShortMerge
      /\ job.pc # "idle"
    <2>1. job.pc # "idle"
        BY DEF JobStep, LookUpBranch, PushCandidate, LookUpPulls, CreatePull
    <2> QED
        BY <1>1, <1>2, <2>1, CandidateCounted DEF Counted, Short, ShortMerge
<1>4. DOMAIN pulls \subseteq DOMAIN pulls' /\ job'.began = job.began
    BY JobTypes
<1>5. RemoteCounted'
    <2>1. CASE UNCHANGED <<branch, pulls>>
        BY <1>1, <1>2, <2>1, RemoteKept DEF Counted
    <2>2. CASE MoveBranch(Candidate)
        BY <1>1, <1>2, <1>3, <2>2, CountedMove DEF Counted, RemoteCounted
    <2>3. CASE MayOpen /\ pulls' = NewPull(TRUE) /\ UNCHANGED branch
        <3>1. /\ Len(pulls') <= MaxPulls
              /\ \A p \in DOMAIN pulls' : pulls'[p] \in ShortPull'
            BY <1>2, <2>3, CountedOpening DEF Counted
        <3> QED
            BY <1>1, <1>3, <2>3, <3>1 DEF Counted, RemoteCounted
    <2> QED
        BY <2>1, <2>2, <2>3 DEF JobStep, LookUpBranch, PushCandidate, LookUpPulls, CreatePull,
           remoteVars
<1>6. JobsCounted'
    BY <1>1, <1>3, <1>4 DEF Counted, JobsCounted
<1>7. ReportsCounted'
    <2>1. CASE UNCHANGED publication
        BY <1>1, <1>2, <1>4, <2>1, ReportsKept DEF Counted
    <2>2. ASSUME NEW p \in DOMAIN pulls', publication' = [pull |-> p, head |-> Candidate]
          PROVE  ReportsCounted'
        BY <1>1, <1>3, <2>2 DEF Counted, ReportsCounted
    <2>3. CASE CreatePull /\ MayOpen
        <3>1. /\ pulls' = NewPull(TRUE) /\ UNCHANGED branch
              /\ publication' = [pull |-> Len(pulls) + 1, head |-> Candidate]
            BY <2>3 DEF CreatePull, Published
        <3>2. Len(pulls) + 1 \in DOMAIN pulls'
            BY <1>2, <2>3, <3>1, AppendedPulls
        <3> QED
            BY <2>2, <3>1, <3>2
    <2>4. CASE LookUpPulls
        <3>1. \/ UNCHANGED publication
              \/ \E p \in DOMAIN pulls : publication' = [pull |-> p, head |-> Candidate]
            BY <2>4 DEF LookUpPulls, Published, OpenPulls
        <3> QED
            BY <1>4, <2>1, <2>2, <3>1
    <2>5. CASE LookUpBranch \/ PushCandidate \/ (CreatePull /\ ~MayOpen)
        BY <2>1, <2>5 DEF LookUpBranch, PushCandidate, CreatePull
    <2> QED
        BY <2>3, <2>4, <2>5, Zenon DEF JobStep
<1> QED
    BY <1>2, <1>5, <1>6, <1>7 DEF Counted

LEMMA WorkerEndsCounted ==
  ASSUME IInv, Counted, NEW t \in Candidates, NEW o \in Outcomes, WorkerEnds(t, o)
  PROVE  Counted'
<1>1. /\ attempts' = attempts + 1 /\ attempts < MaxAttempts
      /\ UNCHANGED <<main, branch, pulls, mat, disturbances>>
      /\ publication' = Nothing /\ observed'.binding = Nothing
    BY DEF WorkerEnds, remoteVars
<1>2. ActsCounted' /\ Later /\ Typed /\ attempts' > 0
    BY <1>1, PublicationAssumption DEF Counted, ActsCounted, Later, IInv
<1>3. RemoteCounted' /\ ReportsCounted'
    BY <1>1, <1>2, RemoteKept DEF Counted, ReportsCounted
<1>4. job'.began = branch
    BY DEF WorkerEnds
<1>5. JobsCounted'
    <2>1. branch \in Short' \cup {Nothing} /\ mat.expected \in Short'
        BY <1>2, ShortLater DEF Counted, RemoteCounted, JobsCounted
    <2>2. mat.expected \in Seq(Trees)
        BY DEF IInv, Typed, AnyMat, AnyCommit
    <2>3. Len(mat.expected) < attempts + disturbances
            => Len(mat.expected) < attempts' + disturbances'
        BY <1>2, <2>2, LenProperties DEF Later
    <2> QED
        BY <1>1, <1>2, <1>4, <2>1, <2>3 DEF Counted, JobsCounted
<1> QED
    BY <1>2, <1>3, <1>5 DEF Counted

(* The start of a materialization, and its steps.                          *)
LEMMA MatCounted ==
  ASSUME IInv, Counted, MatStep
  PROVE  Counted'
<1>1. UNCHANGED <<main, job, publication, observed, disturbances>>
    BY DEF MatStep, CheckPull, CommitPatch, PushMaterialized, VerifyLive,
       RequestMaterialization, remoteVars, boundVars, jobVars
<1>2. DOMAIN pulls \subseteq DOMAIN pulls'
    BY MatTypes
<1>3. ASSUME NEW p \in DOMAIN pulls, NEW m \in Corrections, RequestMaterialization(p, m)
      PROVE  Counted'
    <2>1. /\ attempts' = attempts + 1 /\ attempts < MaxAttempts
          /\ UNCHANGED <<branch, pulls>>
          /\ mat'.pull = p /\ mat'.expected = pulls[p].head
        BY <1>3 DEF RequestMaterialization, remoteVars
    <2>2. ActsCounted' /\ Later /\ Typed
        BY <1>1, <2>1, PublicationAssumption DEF Counted, ActsCounted, Later, IInv
    <2>3. RemoteCounted' /\ ReportsCounted'
        BY <1>1, <1>2, <2>1, <2>2, RemoteKept, ReportsKept DEF Counted
    <2>4. /\ pulls[p].head \in AnyCommit
          /\ Len(pulls[p].head) <= attempts + disturbances
        BY DEF Counted, RemoteCounted, ShortPull, Short
    <2>5. pulls[p].head \in Short' /\ Len(pulls[p].head) < attempts' + disturbances'
        <3>1. Len(pulls[p].head) \in Nat
            BY <2>4, LenProperties DEF AnyCommit
        <3> QED
            BY <1>1, <2>1, <2>2, <2>4, <3>1 DEF Short, Later
    <2>6. p <= MaxPulls
        <3>1. pulls \in Seq(AnyPull) /\ Len(pulls) <= MaxPulls
            BY DEF Counted, RemoteCounted, IInv, Typed
        <3> QED
            BY <3>1, LenProperties, PublicationAssumption
    <2>7. job.began \in Short' \cup {Nothing} /\ attempts' > 0
        BY <2>1, <2>2, ShortLater DEF Counted, JobsCounted, Later
    <2>8. JobsCounted'
        BY <1>1, <2>1, <2>5, <2>6, <2>7 DEF JobsCounted
    <2> QED
        BY <2>2, <2>3, <2>8 DEF Counted
<1>4. CASE CheckPull \/ CommitPatch \/ PushMaterialized \/ VerifyLive
    <2>1. /\ UNCHANGED attempts /\ mat.pc \in MatRunning
          /\ \E pc \in MatRunning \cup MatEnded : MatTo(pc)
        BY <1>4 DEF CheckPull, CommitPatch, PushMaterialized, VerifyLive, boundVars,
           MatRunning, MatEnded
    <2>2. ActsCounted' /\ Later /\ Typed
        BY <1>1, <2>1, PublicationAssumption DEF Counted, ActsCounted, Later, IInv
    <2>3. mat'.expected = mat.expected /\ mat'.pull = mat.pull
        BY <2>1 DEF MatTo, IInv, Typed, AnyMat
    <2>4. JobsCounted'
        BY <1>1, <2>1, <2>3 DEF Counted, JobsCounted, Short
    <2>5. ReportsCounted'
        BY <1>1, <1>2, <2>2, ReportsKept DEF Counted
    <2>6. Materialized \in Short'
        <3>1. mat.expected \in Seq(Trees) /\ mat.tree \in Trees
            BY DEF IInv, Typed, AnyMat, AnyCommit, Trees
        <3>2. Materialized \in Seq(Trees) /\ Len(Materialized) = Len(mat.expected) + 1
            BY <3>1, AppendProperties DEF Materialized
        <3>3. Len(mat.expected) < attempts + disturbances /\ Len(mat.expected) \in Nat
            BY <2>1, <3>1, LenProperties DEF Counted, JobsCounted
        <3>4. Len(Materialized) <= attempts' + disturbances'
            BY <1>1, <2>1, <2>2, <3>2, <3>3 DEF Later
        <3> QED
            BY <3>2, <3>4 DEF Short, AnyCommit
    <2>7. RemoteCounted'
        <3>1. CASE UNCHANGED <<branch, pulls>>
            BY <1>1, <2>2, <3>1, RemoteKept DEF Counted
        <3>2. CASE MoveBranch(Materialized)
            BY <1>1, <2>1, <2>2, <2>6, <3>2, CountedMove DEF Counted, RemoteCounted
        <3> QED
            BY <1>4, <3>1, <3>2 DEF CheckPull, CommitPatch, PushMaterialized, VerifyLive, remoteVars
    <2> QED
        BY <2>2, <2>4, <2>5, <2>7 DEF Counted
<1> QED
    BY <1>3, <1>4 DEF MatStep

(* What people do.                                                         *)
LEMMA HumanCounted ==
  ASSUME IInv, Counted, Human
  PROVE  Counted'
<1>1. /\ disturbances' = disturbances + 1 /\ disturbances < MaxDisturbances
      /\ UNCHANGED <<jobVars, mat, observed, attempts>>
    BY DEF Human, PersonSettlesPull, PersonPushes, PersonDeletesBranch, PersonOpensPull,
       MainMoves, Disturb
<1>2. ActsCounted' /\ Later /\ Typed /\ OpenAtBranch
    BY <1>1, PublicationAssumption DEF Counted, ActsCounted, Later, IInv
<1>3. JobsCounted' /\ ReportsCounted'
    BY <1>1, <1>2, HumanTypes, JobsKept, ReportsKept DEF Counted, jobVars
<1>4. main' \in 0 .. disturbances'
    <2>1. main' = main \/ main' = main + 1
        BY Zenon DEF Human, PersonSettlesPull, PersonPushes, PersonDeletesBranch,
           PersonOpensPull, MainMoves
    <2>2. main \in 0 .. disturbances /\ disturbances \in Nat
        BY <1>2 DEF Counted, RemoteCounted, Later
    <2> QED
        BY <1>1, <2>1, <2>2
<1>5. /\ pulls \in Seq(AnyPull) /\ branch \in Short' \cup {Nothing}
      /\ Len(pulls) <= MaxPulls
      /\ \A p \in DOMAIN pulls : pulls[p] \in ShortPull'
    BY <1>2, ShortLater DEF Counted, RemoteCounted, Typed
<1> DEFINE Done ==
      /\ branch' \in Short' \cup {Nothing} /\ Len(pulls') <= MaxPulls
      /\ \A p \in DOMAIN pulls' : pulls'[p] \in ShortPull'
<1>6. ASSUME NEW p \in DOMAIN pulls, PersonSettlesPull(p)
      PROVE  Done
    <2>1. PICK q \in {[pulls[p] EXCEPT !.state = "closed"], [pulls[p] EXCEPT !.draft = FALSE],
                     [pulls[p] EXCEPT !.state = "merged"]} : pulls' = [pulls EXCEPT ![p] = q]
        BY <1>6 DEF PersonSettlesPull
    <2>2. q \in ShortPull'
        BY <1>5, <2>1 DEF ShortPull
    <2>3. branch' = branch
        BY <1>6 DEF PersonSettlesPull
    <2> QED
        BY <1>2, <1>5, <2>1, <2>2, <2>3, CountedPull DEF Counted
<1>7. ASSUME NEW x \in PersonTrees, PersonPushes(x)
      PROVE  Done
    <2>1. PICK c \in {Append(Source, x)} \cup
                (IF branch = Nothing THEN {} ELSE {Append(branch, x)}) \cup
                (IF branch = Nothing \/ Len(branch) < 2 THEN {} ELSE {Front(branch)}) :
              MoveBranch(c)
        BY <1>7 DEF PersonPushes
    <2>2. /\ x \in Trees /\ Source \in Seq(Trees) /\ Len(Source) = 0
          /\ attempts \in Nat /\ disturbances \in Nat
          /\ attempts' + disturbances' = attempts + disturbances + 1
        BY <1>1, <1>2, EmptySeq DEF Trees, Source, Later
    <2>3. branch # Nothing => /\ branch \in Seq(Trees) /\ Len(branch) \in Nat
                              /\ Len(branch) <= attempts + disturbances
        BY LenProperties DEF Counted, RemoteCounted, Short, AnyCommit
    <2>4. Append(Source, x) \in Short'
        BY <2>2, AppendProperties DEF Short, AnyCommit
    <2>5. branch # Nothing => Append(branch, x) \in Short'
        <3>1. branch # Nothing => /\ Append(branch, x) \in Seq(Trees)
                                  /\ Len(Append(branch, x)) = Len(branch) + 1
            BY <2>2, <2>3, AppendProperties
        <3> QED
            BY <2>2, <2>3, <3>1 DEF Short, AnyCommit
    <2>6. branch # Nothing /\ ~(Len(branch) < 2) => Front(branch) \in Short'
        <3> SUFFICES ASSUME branch # Nothing, ~(Len(branch) < 2)
                     PROVE  Front(branch) \in Short'
            OBVIOUS
        <3>1. /\ Front(branch) \in Seq(Trees) /\ Len(Front(branch)) = Len(branch) - 1
            BY <2>3, SubSeqProperties DEF Front
        <3> QED
            BY <2>2, <2>3, <3>1 DEF Short, AnyCommit
    <2>7. c \in Short'
        BY <2>1, <2>4, <2>5, <2>6
    <2> QED
        BY <1>2, <2>1, <2>7, CountedMove DEF Counted
<1>8. ASSUME PersonDeletesBranch
      PROVE  Done
    <2>1. /\ branch' = Nothing
          /\ pulls' = [p \in DOMAIN pulls |->
                IF p \in OpenPulls THEN [pulls[p] EXCEPT !.state = "closed"] ELSE pulls[p]]
        BY <1>8 DEF PersonDeletesBranch
    <2>2. \A q \in ShortPull' : [q EXCEPT !.state = "closed"] \in ShortPull'
        BY DEF ShortPull
    <2>3. \A p \in DOMAIN pulls' : pulls'[p] \in ShortPull'
        BY <1>5, <2>1, <2>2
    <2>4. pulls \in Seq(AnyPull) /\ DOMAIN pulls = 1 .. Len(pulls) /\ Len(pulls) \in Nat
        BY <1>5, LenProperties
    <2>5. Len(pulls') = Len(pulls)
        BY <2>1, <2>4
    <2> QED
        BY <1>5, <2>1, <2>3, <2>5
<1>9. ASSUME PersonOpensPull
      PROVE  Done
    <2>1. MayOpen /\ pulls' = NewPull(FALSE) /\ UNCHANGED branch
        BY <1>9 DEF PersonOpensPull
    <2> QED
        BY <1>2, <1>5, <2>1, CountedOpening DEF Counted
<1>10. ASSUME MainMoves
      PROVE  Done
    BY <1>5, <1>10 DEF MainMoves
<1>11. Done
    BY <1>6, <1>7, <1>8, <1>9, <1>10 DEF Human
<1>12. RemoteCounted'
    BY <1>4, <1>11 DEF RemoteCounted
<1> QED
    BY <1>2, <1>3, <1>12 DEF Counted

(* What GitHub computes.                                                   *)
LEMMA RecomputeCounted ==
  ASSUME IInv, Counted, NEW p \in DOMAIN pulls, Recompute(p)
  PROVE  Counted'
<1> DEFINE now == [pulls[p] EXCEPT !.base = main,
                     !.synthetic = [base |-> main, head |-> pulls[p].head]]
<1>1. /\ UNCHANGED <<main, branch, job, publication, mat, observed, attempts, disturbances>>
      /\ pulls' = [pulls EXCEPT ![p] = now]
    BY DEF Recompute, jobVars, boundVars
<1>2. ActsCounted' /\ Later /\ Typed
    BY <1>1, PublicationAssumption DEF Counted, ActsCounted, Later, IInv
<1>3. JobsCounted' /\ ReportsCounted'
    BY <1>1, <1>2, RecomputeTypes, JobsKept, ReportsKept DEF Counted
<1>4. now \in ShortPull
    <2>1. pulls[p] \in ShortPull /\ main \in 0 .. disturbances
        BY DEF Counted, RemoteCounted
    <2> QED
        BY <2>1 DEF ShortPull, ShortMerge
<1>5. now \in ShortPull'
    BY <1>2, <1>4, ShortLater
<1> HIDE DEF now
<1>6. RemoteCounted'
    <2>1. /\ Len(pulls') <= MaxPulls
          /\ \A r \in DOMAIN pulls' : pulls'[r] \in ShortPull'
        BY <1>1, <1>2, <1>5, CountedPull DEF Counted
    <2>2. main' \in 0 .. disturbances' /\ branch' \in Short' \cup {Nothing}
        BY <1>1, <1>2, ShortLater DEF Counted, RemoteCounted
    <2> QED
        BY <2>1, <2>2 DEF RemoteCounted
<1> QED
    BY <1>2, <1>3, <1>6 DEF Counted

(* A job is lost.                                                          *)
LEMMA LossCounted ==
  ASSUME IInv, Counted, LoseJob
  PROVE  Counted'
<1>1. /\ disturbances' = disturbances + 1 /\ disturbances < MaxDisturbances
      /\ UNCHANGED <<main, branch, pulls, publication, observed, attempts>>
    BY DEF LoseJob, remoteVars
<1>2. \/ job.pc \in Running /\ job' = [job EXCEPT !.pc = "failed"] /\ mat' = mat
      \/ job' = job /\ mat' = [mat EXCEPT !.pc = "stopped"]
    BY DEF LoseJob, To, MatTo
<1>3. /\ job'.began = job.began /\ (job'.pc # "idle" => job.pc # "idle")
      /\ mat'.expected = mat.expected /\ mat'.pull = mat.pull
      /\ (mat'.pc \in MatRunning => mat.pc \in MatRunning)
    BY <1>2 DEF IInv, Typed, AnyJob, AnyMat, Running, MatRunning
<1>4. ActsCounted' /\ Later /\ Typed
    BY <1>1, PublicationAssumption DEF Counted, ActsCounted, Later, IInv
<1>5. RemoteCounted' /\ ReportsCounted'
    BY <1>1, <1>4, RemoteKept, ReportsKept DEF Counted
<1>6. JobsCounted'
    <2>1. job.began \in Short' \cup {Nothing} /\ mat.expected \in Short'
        BY <1>4, ShortLater DEF Counted, JobsCounted
    <2>2. Len(mat.expected) \in Nat
        BY LenProperties DEF IInv, Typed, AnyMat, AnyCommit
    <2>3. Len(mat.expected) < attempts + disturbances
            => Len(mat.expected) < attempts' + disturbances'
        BY <1>1, <1>4, <2>2 DEF Later
    <2> QED
        BY <1>1, <1>3, <2>1, <2>3 DEF Counted, JobsCounted
<1> QED
    BY <1>4, <1>5, <1>6 DEF Counted

(* What is observed was published, and GitHub's merge commit was counted.  *)
LEMMA ObserveCounted ==
  ASSUME IInv, Counted, ObserveCodex
  PROVE  Counted'
<1>1. /\ UNCHANGED <<main, branch, pulls, job, publication, mat, attempts, disturbances>>
      /\ job.pc \in JobEnded
    BY DEF ObserveCodex, remoteVars, jobVars, boundVars
<1>2. ActsCounted' /\ Later /\ RemoteCounted' /\ JobsCounted'
    <2>1. ActsCounted' /\ Later /\ Typed
        BY <1>1, PublicationAssumption DEF Counted, ActsCounted, Later, IInv
    <2> QED
        BY <1>1, <2>1, RemoteKept, JobsKept DEF Counted
<1>3. ASSUME observed'.binding # Nothing
      PROVE  observed'.binding \in [base : 0 .. disturbances, head : Short,
                                     synthetic : ShortMerge]
    <2> DEFINE p == publication.pull
    <2>1. observed'.binding = Binding(p) /\ Bindable(p, 0, publication.head)
        BY <1>3 DEF ObserveCodex
    <2>2. publication # Nothing
        <3>1. BindingExact' /\ UNCHANGED publication
            BY <1>1, ObserveInv DEF IInv
        <3> QED
            BY <1>3, <3>1 DEF BindingExact
    <2>3. p \in DOMAIN pulls
        BY <2>2 DEF IInv, Reported
    <2>4. pulls[p] \in ShortPull /\ pulls[p].synthetic # Nothing
        BY <2>1, <2>3 DEF Counted, RemoteCounted, Bindable
    <2> HIDE DEF p
    <2> QED
        BY <2>1, <2>4 DEF Binding, ShortPull
<1>4. ReportsCounted'
    <2>1. Short' = Short /\ ShortMerge' = ShortMerge /\ DOMAIN pulls' = DOMAIN pulls
        BY <1>1 DEF Short, ShortMerge
    <2> QED
        BY <1>1, <1>3, <2>1 DEF Counted, ReportsCounted
<1> QED
    BY <1>2, <1>4 DEF Counted

LEMMA InitCounted == Init => Counted
<1> SUFFICES ASSUME Init PROVE Counted
    OBVIOUS
<1>1. /\ main = 0 /\ branch = Nothing /\ pulls = << >> /\ attempts = 0 /\ disturbances = 0
      /\ job.pc = "idle" /\ job.began = Nothing /\ publication = Nothing
      /\ observed.binding = Nothing
      /\ mat.pc = "idle" /\ mat.pull = 0 /\ mat.expected = << >>
    BY DEF Init, Source
<1>2. << >> \in Short
    BY <1>1, EmptySeq DEF Short, AnyCommit
<1> QED
    BY <1>1, <1>2, PublicationAssumption DEF Counted, ActsCounted, RemoteCounted, JobsCounted,
       ReportsCounted, MatRunning

LEMMA NextCounted == IInv /\ Counted /\ [Next]_vars => Counted'
<1> SUFFICES ASSUME IInv, Counted, [Next]_vars PROVE Counted'
    OBVIOUS
<1>1. CASE UNCHANGED vars
    BY <1>1 DEF vars, remoteVars, jobVars, boundVars, Counted, ActsCounted, RemoteCounted,
       JobsCounted, ReportsCounted, ShortPull, ShortMerge, Short
<1>2. CASE Next
    BY <1>2, JobCounted, MatCounted, HumanCounted, LossCounted, ObserveCounted,
       WorkerEndsCounted, RecomputeCounted DEF Next, Controllers, JobStep, MatStep, Human
<1> QED
    BY <1>1, <1>2

LEMMA CountedTypes == IInv /\ Counted => TypeOK
<1> SUFFICES ASSUME IInv, Counted PROVE TypeOK
    OBVIOUS
<1>1. /\ attempts \in 0 .. MaxAttempts /\ disturbances \in 0 .. MaxDisturbances
      /\ attempts \in Nat /\ disturbances \in Nat
      /\ attempts + disturbances <= MaxAttempts + MaxDisturbances
    BY PublicationAssumption DEF Counted, ActsCounted
<1>2. 0 .. disturbances \subseteq 0 .. MaxDisturbances
    BY <1>1, PublicationAssumption
<1>3. Short \subseteq Commit
    <2>1. \A c \in AnyCommit : Len(c) <= attempts + disturbances
            => Len(c) <= MaxAttempts + MaxDisturbances
        BY <1>1, LenProperties, PublicationAssumption DEF AnyCommit
    <2> QED
        BY <2>1 DEF Short, Commit, AnyCommit
<1>4. ShortMerge \subseteq Merge
    BY <1>2, <1>3 DEF ShortMerge, Merge
<1>5. ShortPull \subseteq Pull
    BY <1>2, <1>3, <1>4 DEF ShortPull, Pull
<1>6. pulls \in Seq(Pull) /\ Len(pulls) <= MaxPulls
    <2>1. pulls \in Seq(AnyPull)
        BY DEF IInv, Typed
    <2>2. Len(pulls) \in Nat /\ DOMAIN pulls = 1 .. Len(pulls)
          /\ pulls = [p \in 1 .. Len(pulls) |-> pulls[p]]
        BY <2>1, LenProperties
    <2>3. \A p \in 1 .. Len(pulls) : pulls[p] \in Pull
        BY <1>5, <2>2 DEF Counted, RemoteCounted
    <2>4. [p \in 1 .. Len(pulls) |-> pulls[p]] \in Seq(Pull)
        BY <2>2, <2>3, IsASeq
    <2> QED
        BY <2>2, <2>4 DEF Counted, RemoteCounted
<1>7. main \in 0 .. MaxDisturbances /\ branch \in Commit \cup {Nothing}
    BY <1>2, <1>3 DEF Counted, RemoteCounted
<1>8. /\ job.pc \in {"idle"} \cup Running \cup JobEnded /\ job.tree \in Candidates
      /\ job.outcome \in Outcomes /\ job.began \in Commit \cup {Nothing}
    BY <1>3 DEF IInv, Typed, AnyJob, Counted, JobsCounted
<1>9. /\ mat.pc \in MatEnded \cup MatRunning /\ mat.tree \in Corrections
      /\ mat.pull \in 0 .. MaxPulls /\ mat.expected \in Commit
    BY <1>3, PublicationAssumption DEF IInv, Typed, AnyMat, Counted, JobsCounted
<1>10. /\ publication = Nothing \/ publication \in [pull : DOMAIN pulls, head : Commit]
       /\ observed.binding = Nothing \/ observed.binding \in [base : 0 .. MaxDisturbances,
            head : Commit, synthetic : Merge]
    BY <1>2, <1>3, <1>4 DEF Counted, ReportsCounted
<1>11. quiet \in BOOLEAN
    BY DEF IInv, Typed
<1> QED
    BY <1>1, <1>6, <1>7, <1>8, <1>9, <1>10, <1>11 DEF TypeOK

(* Type correctness, with every bound: no commit of the branch is longer   *)
(* than the jobs, materializations and human acts that made it, a pull     *)
(* request and its merge commit name a version of main that was there, and *)
(* a publication names a pull request that exists.                         *)
THEOREM PublicationTypes == Spec => []TypeOK
<1>1. IInv /\ Counted /\ [Next]_vars => Counted'
    BY NextCounted
<1> QED
    BY Invariance, InitCounted, <1>1, CountedTypes, PTL DEF Spec

-----------------------------------------------------------------------------
(* A job and a materialization that are in progress are only moved on by   *)
(* their own calls, by LoseJob, and by nothing else.                       *)
LEMMA JobCalls ==
  ASSUME [Next]_vars, job.pc \in Running
  PROVE  \/ UNCHANGED job
         \/ LookUpBranch \/ PushCandidate \/ LookUpPulls \/ CreatePull
         \/ job.pc \in Running /\ To("failed")
<1>1. \A t \in Candidates, o \in Outcomes : ~WorkerEnds(t, o)
    BY DEF WorkerEnds, Running, JobEnded
<1>2. LoseJob => UNCHANGED job \/ To("failed")
    BY DEF LoseJob
<1>3. CheckPull \/ CommitPatch \/ PushMaterialized \/ VerifyLive => UNCHANGED job
    BY DEF CheckPull, CommitPatch, PushMaterialized, VerifyLive, jobVars
<1>4. ObserveCodex \/ PersonDeletesBranch \/ PersonOpensPull \/ MainMoves => UNCHANGED job
    BY DEF ObserveCodex, PersonDeletesBranch, PersonOpensPull, MainMoves, Disturb, jobVars
<1>5. /\ \A p \in DOMAIN pulls, m \in Corrections :
           RequestMaterialization(p, m) => UNCHANGED job
      /\ \A p \in DOMAIN pulls : Recompute(p) \/ PersonSettlesPull(p) => UNCHANGED job
      /\ \A x \in PersonTrees : PersonPushes(x) => UNCHANGED job
    BY DEF RequestMaterialization, Recompute, PersonSettlesPull, PersonPushes, Disturb,
           jobVars
<1> QED
    BY <1>1, <1>2, <1>3, <1>4, <1>5 DEF Next, Controllers, vars, jobVars

LEMMA MatCalls ==
  ASSUME [Next]_vars, mat.pc \in MatRunning
  PROVE  \/ UNCHANGED mat
         \/ CheckPull \/ CommitPatch \/ PushMaterialized \/ VerifyLive
         \/ mat.pc \in MatRunning /\ MatTo("stopped")
<1>1. \A p \in DOMAIN pulls, m \in Corrections : ~RequestMaterialization(p, m)
    BY DEF RequestMaterialization, MatRunning, MatEnded
<1>2. LoseJob => UNCHANGED mat \/ MatTo("stopped")
    BY DEF LoseJob
<1>3. LookUpBranch \/ PushCandidate \/ LookUpPulls \/ CreatePull => UNCHANGED mat
    BY DEF LookUpBranch, PushCandidate, LookUpPulls, CreatePull
<1>4. ObserveCodex \/ PersonDeletesBranch \/ PersonOpensPull \/ MainMoves => UNCHANGED mat
    BY DEF ObserveCodex, PersonDeletesBranch, PersonOpensPull, MainMoves, Disturb
<1>5. /\ \A t \in Candidates, o \in Outcomes : WorkerEnds(t, o) => UNCHANGED mat
      /\ \A p \in DOMAIN pulls : Recompute(p) \/ PersonSettlesPull(p) => UNCHANGED mat
      /\ \A x \in PersonTrees : PersonPushes(x) => UNCHANGED mat
    BY DEF WorkerEnds, Recompute, PersonSettlesPull, PersonPushes, Disturb
<1> QED
    BY <1>1, <1>2, <1>3, <1>4, <1>5 DEF Next, Controllers, vars

(* A job in progress makes at most four calls and a materialization five   *)
(* steps, with the candidate they began with, whatever happens to the      *)
(* branch, the pull requests and main between them.                        *)
THEOREM PublicationAdvances == Spec => JobsAdvance
<1> DEFINE JobMoves == job.pc \in Running /\ job' # job =>
                         /\ CallsAhead[job'.pc] < CallsAhead[job.pc]
                         /\ job' = [job EXCEPT !.pc = job'.pc]
           MatMoves == mat.pc \in MatRunning /\ mat' # mat =>
                         /\ StepsAhead[mat'.pc] < StepsAhead[mat.pc]
                         /\ mat' = [mat EXCEPT !.pc = mat'.pc]
<1>1. ASSUME IInv, [Next]_vars PROVE JobMoves
    <2> SUFFICES ASSUME job.pc \in Running, job' # job
                 PROVE  /\ CallsAhead[job'.pc] < CallsAhead[job.pc]
                        /\ job' = [job EXCEPT !.pc = job'.pc]
        OBVIOUS
    <2>1. \E next \in Running \cup JobEnded :
             /\ To(next)
             /\ \/ job.pc = "branch" /\ next \in {"push", "pulls", "failed"}
                \/ job.pc = "push" /\ next \in {"pulls", "failed"}
                \/ job.pc = "pulls" /\ next \in {"create", "published", "failed"}
                \/ job.pc = "create" /\ next \in {"published", "failed"}
        BY <1>1, JobCalls DEF LookUpBranch, PushCandidate, LookUpPulls, CreatePull,
           Published, Running, JobEnded
    <2>2. PICK next \in Running \cup JobEnded :
             /\ To(next)
             /\ \/ job.pc = "branch" /\ next \in {"push", "pulls", "failed"}
                \/ job.pc = "push" /\ next \in {"pulls", "failed"}
                \/ job.pc = "pulls" /\ next \in {"create", "published", "failed"}
                \/ job.pc = "create" /\ next \in {"published", "failed"}
        BY <2>1
    <2>3. job'.pc = next /\ job' = [job EXCEPT !.pc = next]
        BY <1>1, <2>2 DEF IInv, Typed, AnyJob, To
    <2>4. CallsAhead[next] < CallsAhead[job.pc]
        BY <2>2 DEF CallsAhead
    <2> QED
        BY <2>3, <2>4
<1>2. ASSUME IInv, [Next]_vars PROVE MatMoves
    <2> SUFFICES ASSUME mat.pc \in MatRunning, mat' # mat
                 PROVE  /\ StepsAhead[mat'.pc] < StepsAhead[mat.pc]
                        /\ mat' = [mat EXCEPT !.pc = mat'.pc]
        OBVIOUS
    <2>1. PICK next \in MatRunning \cup MatEnded :
             /\ MatTo(next)
             /\ \/ mat.pc = "check" /\ next \in {"commit", "stopped"}
                \/ mat.pc = "commit" /\ next \in {"recheck", "stopped"}
                \/ mat.pc = "recheck" /\ next \in {"push", "stopped"}
                \/ mat.pc = "push" /\ next \in {"verify", "stopped"}
                \/ mat.pc = "verify" /\ next \in {"materialized", "stopped"}
        BY <1>2, MatCalls DEF CheckPull, CommitPatch, PushMaterialized, VerifyLive,
           MatRunning, MatEnded
    <2>2. mat'.pc = next /\ mat' = [mat EXCEPT !.pc = next]
        BY <1>2, <2>1 DEF IInv, Typed, AnyMat, MatTo
    <2>3. StepsAhead[next] < StepsAhead[mat.pc]
        BY <2>1 DEF StepsAhead
    <2> QED
        BY <2>2, <2>3
<1> QED
    BY Invariance, <1>1, <1>2, PTL DEF Spec, JobsAdvance
=============================================================================
