----------------------------- MODULE ReviewChain -----------------------------
(***************************************************************************)
(* How a candidate goes through the preauthorized chain of reviews, and    *)
(* what the completion observer says of each review.                       *)
(*                                                                         *)
(* An architect run authorizes a chain for one exact candidate.  For each  *)
(* stage the package builder reads the pull request, and then the quality  *)
(* gate and the reviews; a reviewer's run may end in any way and be run    *)
(* again; the observer reads the pull request and then the verdict of a run*)
(* that has completed.  Between these reads the branch, main and the merge *)
(* commit may change.  (Gate and reviews are one read: a review is         *)
(* published only while the candidate is live, so one that comes between   *)
(* the two could as well have come before.)  Other architect runs ask for  *)
(* a review themselves, on the snapshot they made before they asked Sol.   *)
(*                                                                         *)
(* A head is a number, the versions of main are numbers, and a merge       *)
(* commit is known by its two parents.  A head has the tree of its merge   *)
(* commit only with the main it was built on.                              *)
(***************************************************************************)
EXTENDS EconomicPolicies, FiniteSets

CONSTANTS
  Ends,         \* how a reviewer's run may end: what it publishes, and whether
                \* it succeeds; a text is the set of the markers it holds
  ChainRuns,    \* architect runs that authorize a chain
  OrdinaryRuns, \* architect runs that ask for one review themselves
  MaxMoves, MaxRequests, MaxReruns  \* bounds

ASSUME ChainAssumption ==
  /\ MaxMoves \in Nat /\ MaxRequests \in Nat /\ MaxReruns \in Nat
  /\ ChainRuns \cap OrdinaryRuns = {}
  /\ \A end \in Ends : /\ DOMAIN end = {"texts", "success"}
                       /\ end.texts \in Seq(SUBSET STRING) /\ Len(end.texts) <= 1
                       /\ end.success \in BOOLEAN

VARIABLES
  main,      \* the version of main
  head,      \* the head of the pull request
  builtOn,   \* builtOn[h]: the version of main that head h contains
  merge,     \* the merge commit that GitHub shows, by its parents
  gates,     \* the merge commits on which QORE CI passed
  builder,   \* the run of build_preauthorized_reviewer_package.py
  drafts,    \* the architect runs on their way to a review they ask for
  requests,  \* the packages the reviewers were given, in their order
  runs,      \* runs[r]: the attempts of the run for request r, and the last end
  reviews,   \* reviews[r]: the texts published for request r
  observer,  \* the run of observe_completion_shadow.py
  advice     \* advice[r]: what the last observer of request r said

candidateVars == <<main, head, builtOn, merge, gates>>
reviewVars == <<requests, runs, reviews>>
vars == <<candidateVars, builder, drafts, reviewVars, observer, advice>>

Stages == {"DEEPSEEK_EXPERT", "DEEPSEEK_CODER", "CLAUDE"}
Heads == 0 .. MaxMoves
Mains == 0 .. MaxMoves
Attempts == 0 .. MaxReruns + 1
Freeze == [base : Mains, head : Heads]
Chain == [run : ChainRuns, freeze : Freeze]
Package == [main : Mains, stage : Stages, run : ChainRuns \cup OrdinaryRuns]
\* What an architect run saw, and the review it is building a package for.
Snapshot == [main : Mains, pull : Freeze, summaries : SUBSET Freeze,
             experts : SUBSET Heads]
Draft == [run : OrdinaryRuns, seen : Snapshot,
          review : SUBSET [stage : Stages, freeze : Freeze]]
\* marker: the chain the prompt names, if any.
Request == [package : Package, freeze : Freeze, marker : SUBSET Chain]
\* What a decision of decide_review_sequence() may say.
Words == {None, Raises, "WAIT", "EVIDENCE_REQUIRED", "SOL_ADJUDICATION_REQUIRED",
          "COMPLETE_FOR_FINAL_SOL", "ADVANCE_PREAUTHORIZED", "SOL_FINAL",
          "DEEPSEEK_CODER", "CLAUDE"}
Advice == [attempt : Attempts, action : Words, next : Words]

NoAdvice == [attempt |-> 0, action |-> None, next |-> None]
IdleObserver == [pc |-> "idle", request |-> 0, attempt |-> 0, success |-> FALSE]

TypeOK ==
  /\ main \in Mains /\ head \in Heads /\ builtOn \in [0 .. head -> 0 .. main]
  /\ merge \in [base : 0 .. main, head : 0 .. head]
  /\ gates \subseteq Freeze
  /\ Cardinality(builder) <= 1 /\ builder \subseteq [chain : Chain, stage : Stages]
  /\ drafts \subseteq Draft
  /\ \A d, e \in drafts : d.run = e.run => d = e
  /\ \A d \in drafts : Cardinality(d.review) <= 1
  /\ requests \in Seq(Request)
  /\ \A r, q \in DOMAIN requests : requests[r].package = requests[q].package => r = q
  /\ runs \in [DOMAIN requests -> [attempt : Attempts, success : BOOLEAN]]
  /\ \A r \in DOMAIN requests : \A k \in DOMAIN reviews[r] :
       \E end \in Ends : end.texts = <<reviews[r][k]>>
  /\ observer \in [pc : {"idle", "verdict"}, request : 0 .. Len(requests),
                   attempt : Attempts, success : BOOLEAN]
  /\ advice \in [DOMAIN requests -> Advice]
  /\ \A r \in DOMAIN requests :
       /\ Len(reviews[r]) <= runs[r].attempt
       /\ advice[r].attempt <= runs[r].attempt
       /\ advice[r].attempt = 0 => advice[r] = NoAdvice

Init ==
  /\ main = 0 /\ head = 0 /\ builtOn = [h \in {0} |-> 0] /\ gates = {}
  /\ merge = [base |-> 0, head |-> 0]
  /\ builder = {} /\ drafts = {}
  /\ requests = << >> /\ runs = << >> /\ reviews = << >>
  /\ observer = IdleObserver /\ advice = << >>

-----------------------------------------------------------------------------
(* The candidate.                                                          *)

Pushes ==
  /\ main + head < MaxMoves /\ head' = head + 1
  /\ builtOn' = [h \in 0 .. head + 1 |-> IF h <= head THEN builtOn[h] ELSE main]
  /\ UNCHANGED <<main, merge, gates>>

MainMoves ==
  /\ main + head < MaxMoves /\ main' = main + 1
  /\ UNCHANGED <<head, builtOn, merge, gates>>

(* GitHub computes the merge commit again: the base is main as it is now.  *)
Recomputes ==
  /\ merge # [base |-> main, head |-> head]
  /\ merge' = [base |-> main, head |-> head]
  /\ UNCHANGED <<main, head, builtOn, gates>>

GatePasses ==
  /\ merge.head = head /\ merge \notin gates /\ gates' = gates \cup {merge}
  /\ UNCHANGED <<main, head, builtOn, merge>>

CandidateChanges ==
  /\ Pushes \/ MainMoves \/ Recomputes \/ GatePasses
  /\ UNCHANGED <<builder, drafts, reviewVars, observer, advice>>

-----------------------------------------------------------------------------
(* What the scripts read of it.                                            *)

(* resolve_freeze(): a merge commit whose parents are the base and the head*)
(* of the pull request, with the tree of the head.  (It stays open here:   *)
(* closing it stops only what a push stops too.)                           *)
Coherent == merge.head = head /\ builtOn[head] = merge.base

Live(freeze) == Coherent /\ merge = freeze

(* The newest successful run of QORE CI on this head, and no older one,    *)
(* must have checked out this merge commit.  Of two runs on one head, the  *)
(* newer is the one that had the newer main.                               *)
QualityGate(freeze) ==
  /\ freeze \in gates
  /\ \A g \in gates : g.head = freeze.head => g.base <= freeze.base

Classify_CleanWins(markers) ==
  IF "CLEAN" \in markers THEN "CLEAN"
  ELSE IF \E m \in markers : markers = {m}
  THEN CHOOSE m \in markers : TRUE ELSE "AMBIGUOUS"

(* Exactly one class of markers, or the text is ambiguous.                 *)
Classify(markers) ==
  IF \E m \in markers : markers = {m}
  THEN CHOOSE m \in markers : TRUE ELSE "AMBIGUOUS"

DeepSeekReviews_AnyHead(package, h) ==
  [r \in {q \in DOMAIN requests : requests[q].package = package} |-> reviews[r]]

(* The reviews on the pull request that name this package and this head.   *)
DeepSeekReviews(package, h) ==
  [r \in {q \in DOMAIN requests : requests[q].package = package
                                    /\ requests[q].freeze.head = h} |-> reviews[r]]

TheOne_Newest(found) ==
  {found[r][Len(found[r])] : r \in {q \in DOMAIN found : found[q] # << >>}}

(* More or less than one is an error, and the script ends.                 *)
TheOne(found) == {found[r][1] : r \in {q \in DOMAIN found : Len(found[q]) = 1}}

CleanOnHead(package, h) ==
  \E text \in TheOne(DeepSeekReviews(package, h)) : Classify(text) = "CLEAN"

-----------------------------------------------------------------------------
(* Chains, and the packages of their stages.                               *)

StagePackage(chain, stage) ==
  [main |-> chain.freeze.base, stage |-> stage, run |-> chain.run]

Given(package) == \E r \in DOMAIN requests : requests[r].package = package

(* An architect run that delegated an engineering contract has the chain   *)
(* of any binding of its candidate.  The builder of a stage begins, and    *)
(* finds the candidate of its chain live: it is the candidate of now.      *)
(* Otherwise it ends without an effect.  A package that a reviewer was     *)
(* given already is refused at the end: its builder is left out.           *)
StartStage(run, stage) ==
  LET chain == [run |-> run, freeze |-> merge]
  IN  /\ builder = {} /\ Live(chain.freeze) /\ ~Given(StagePackage(chain, stage))
      /\ builder' = {[chain |-> chain, stage |-> stage]}
  /\ UNCHANGED <<candidateVars, drafts, reviewVars, observer, advice>>

(* The DeepSeek stages that must be clean before a package is built.       *)
Required(stage) ==
  CASE stage = "DEEPSEEK_EXPERT" -> {}
    [] stage = "DEEPSEEK_CODER" -> {"DEEPSEEK_EXPERT"}
    [] stage = "CLAUDE" -> {"DEEPSEEK_EXPERT", "DEEPSEEK_CODER"}

PreviousClean(chain, stage) ==
  \A s \in Required(stage) : CleanOnHead(StagePackage(chain, s), chain.freeze.head)

Dispatch_WritesOver(request) ==
  /\ Len(requests) < MaxRequests
  /\ requests' = Append(requests, request)
  /\ runs' = Append(runs, [attempt |-> 0, success |-> FALSE])
  /\ reviews' = Append(reviews, << >>) /\ advice' = Append(advice, NoAdvice)

(* The dispatcher writes a package once and refuses it afterwards.  (It    *)
(* refuses the stage and the candidate of the reviewer's current request,  *)
(* too, unless it recovers that request: more may be given here.)          *)
Dispatch(request) ==
  /\ Len(requests) < MaxRequests /\ ~Given(request.package)
  /\ requests' = Append(requests, request)
  /\ runs' = Append(runs, [attempt |-> 0, success |-> FALSE])
  /\ reviews' = Append(reviews, << >>) /\ advice' = Append(advice, NoAdvice)

BuilderStops ==
  /\ builder # {} /\ builder' = {}
  /\ UNCHANGED <<candidateVars, drafts, reviewVars, observer, advice>>

(* With a gate on the merge commit of the chain, and every earlier review  *)
(* clean, the package is built and given to the reviewer.                  *)
BuildStage(chain, stage) ==
  /\ QualityGate(chain.freeze) /\ PreviousClean(chain, stage)
  /\ Dispatch([package |-> StagePackage(chain, stage), freeze |-> chain.freeze,
               marker |-> {chain}])
  /\ builder' = {} /\ UNCHANGED <<candidateVars, drafts, observer>>

-----------------------------------------------------------------------------
(* The packages that architect runs ask for themselves.                    *)

(* Only DeepSeek's requests carry a quality summary; the one to be seen is *)
(* that of its current request.                                            *)
Summaries ==
  LET deepseek == {r \in DOMAIN requests : requests[r].package.stage # "CLAUDE"}
  IN  {requests[r].freeze : r \in {q \in deepseek : \A p \in deepseek : p <= q}}

(* The heads on which the Expert has published something, clean or not.    *)
ExpertHeads ==
  {requests[r].freeze.head : r \in {q \in DOMAIN requests :
     requests[q].package.stage = "DEEPSEEK_EXPERT" /\ reviews[q] # << >>}}

(* The snapshot Sol is asked with.  main is read first, and may have moved *)
(* before the rest is read.  (A pull request whose head is not the one of  *)
(* its merge commit is of no use later: neither comes back.)               *)
Collects(run) ==
  /\ \A d \in drafts : d.run # run
  /\ \E then \in 0 .. main :
       drafts' = drafts \cup
         {[run |-> run, review |-> {},
           seen |-> [main |-> then, pull |-> merge, summaries |-> Summaries,
                     experts |-> ExpertHeads]]}
  /\ UNCHANGED <<candidateVars, builder, reviewVars, observer, advice>>

(* Sol asks for a review, and resolve_freeze() reads the live candidate.   *)
ResolvesFreeze(d, stage) ==
  /\ d.review = {} /\ Coherent
  /\ drafts' = (drafts \ {d}) \cup
                 {[d EXCEPT !.review = {[stage |-> stage, freeze |-> merge]}]}
  /\ UNCHANGED <<candidateVars, builder, reviewVars, observer, advice>>

FrozenQuality_LiveOnly(seen, freeze) ==
  seen.pull = freeze /\ \E g \in gates : g.head = freeze.head

(* frozen_resolve_quality(): the candidate is the one of the snapshot, and *)
(* the quality summary that of a request of the snapshot for exactly this  *)
(* candidate.  The run it names is read again, and need only be of this    *)
(* head.                                                                   *)
FrozenQuality(seen, freeze) ==
  /\ seen.pull = freeze /\ freeze \in seen.summaries
  /\ \E g \in gates : g.head = freeze.head

(* A run of qore-architect-autonomous-v2, or the recovery of its request,  *)
(* takes the summary of the snapshot; one of qore-architect-readonly reads *)
(* the newest log.  Both name the main of the snapshot in the package, and *)
(* ask for a Coder review only on a head that had an Expert's there.       *)
OrdinaryPackage(d, stage, freeze) ==
  /\ FrozenQuality(d.seen, freeze) \/ QualityGate(freeze)
  /\ stage = "DEEPSEEK_CODER" => freeze.head \in d.seen.experts
  /\ Dispatch([package |-> [main |-> d.seen.main, stage |-> stage, run |-> d.run],
               freeze |-> freeze, marker |-> {}])
  /\ drafts' = drafts \ {d} /\ UNCHANGED <<candidateVars, builder, observer>>

(* Sol decides something else, or a step of the run fails.  It may be run  *)
(* again, and makes another snapshot then.                                 *)
DraftStops(d) ==
  /\ drafts' = drafts \ {d}
  /\ UNCHANGED <<candidateVars, builder, reviewVars, observer, advice>>

-----------------------------------------------------------------------------
(* The reviewers.  A DeepSeek run looks at the pull request again before   *)
(* it publishes; any run may fail before or after it has published, and    *)
(* may be run again.                                                       *)

MayPublish(request) ==
  request.package.stage = "CLAUDE" \/ Live(request.freeze)

\* The attempts after the first of its request.
Reruns ==
  Cardinality({a \in (DOMAIN runs) \X Attempts : 1 < a[2] /\ a[2] <= runs[a[1]].attempt})

ReviewEnds(r, end) ==
  /\ runs[r].attempt > 0 => Reruns < MaxReruns
  /\ end.texts # << >> => MayPublish(requests[r])
  /\ runs' = [runs EXCEPT ![r] = [attempt |-> @.attempt + 1, success |-> end.success]]
  /\ reviews' = [reviews EXCEPT ![r] = @ \o end.texts]
  /\ UNCHANGED <<candidateVars, builder, drafts, requests, observer, advice>>

-----------------------------------------------------------------------------
(* The observer.                                                           *)

(* parse_reviewer_event(): the run has completed, and its last attempt is  *)
(* the one the event names.                                                *)
Completed(r, attempt) == runs[r].attempt = attempt /\ attempt > 0

(* The event is checked, and then that the candidate of the request is     *)
(* live; otherwise the observer ends without a word.                       *)
ObserveEvent(r, attempt) ==
  /\ observer = IdleObserver /\ Completed(r, attempt) /\ Live(requests[r].freeze)
  /\ observer' = [pc |-> "verdict", request |-> r, attempt |-> attempt,
                  success |-> runs[r].success]
  /\ UNCHANGED <<candidateVars, builder, drafts, reviewVars, advice>>

(* Claude's review is the artifact of the run that is observed, a DeepSeek *)
(* review any that names the package and the head.                         *)
ReviewsSeen(r) ==
  TheOne(IF requests[r].package.stage = "CLAUDE" THEN [q \in {r} |-> reviews[q]]
         ELSE DeepSeekReviews(requests[r].package, requests[r].freeze.head))

ObservationOf(stage, success, class) ==
  [stage |-> stage, verdict |-> IF class = "CLEAN" THEN "CLEAN" ELSE "OTHER",
   completed |-> TRUE, success |-> success, unchanged |-> TRUE,
   evidence |-> class # "AMBIGUOUS",
   anomaly |-> class \in {"AMBIGUOUS", "MECHANICAL_FAILURE"},
   finding |-> class = "FINDINGS", blocked |-> class = "BLOCKED"]

(* The plan is that of every risk tier: they are the same.                 *)
StepFor(stage, success, text) ==
  DecideReviewSequence(ReviewPlan(0), ObservationOf(stage, success, Classify(text)))

ReadVerdict(r) ==
  /\ observer.pc = "verdict" /\ observer' = IdleObserver
  /\ \/ ReviewsSeen(r) = {} /\ UNCHANGED advice
     \/ \E text \in ReviewsSeen(r) :
          LET step == StepFor(requests[r].package.stage, observer.success, text)
          IN  advice' = [advice EXCEPT ![r] = [attempt |-> observer.attempt,
                                               action |-> step.action, next |-> step.next]]
  /\ UNCHANGED <<candidateVars, builder, drafts, reviewVars>>

Recomputed_PackageOnly(request, binding) ==
  LET chain == [run |-> request.package.run, freeze |-> binding]
  IN  /\ request.marker # {}
      /\ request.package = StagePackage(chain, request.package.stage)

(* validate_chain_callback(): the chain is computed again, from a binding  *)
(* of the candidate and the run that the package names.                    *)
Recomputed(request, binding) ==
  LET chain == [run |-> request.package.run, freeze |-> binding]
  IN  /\ request.marker = {chain}
      /\ request.package = StagePackage(chain, request.package.stage)

-----------------------------------------------------------------------------
Next ==
  \/ CandidateChanges
  \/ \E b \in builder : BuildStage(b.chain, b.stage)
  \/ BuilderStops
  \/ \E run \in ChainRuns, stage \in Stages : StartStage(run, stage)
  \/ \E run \in OrdinaryRuns : Collects(run)
  \/ \E d \in drafts :
        \/ \E stage \in Stages : ResolvesFreeze(d, stage)
        \/ \E review \in d.review : OrdinaryPackage(d, review.stage, review.freeze)
        \/ DraftStops(d)
  \/ \E r \in DOMAIN requests :
        \/ \E end \in Ends : ReviewEnds(r, end)
        \/ \E attempt \in Attempts : ObserveEvent(r, attempt)
  \/ observer # IdleObserver /\ ReadVerdict(observer.request)

Spec == Init /\ [][Next]_vars

-----------------------------------------------------------------------------
Chained(r) == requests[r].marker # {}

(* A text that says that the candidate is clean, and nothing else, was     *)
(* published for this stage of the chain of r on the very candidate of r.  *)
CleanFor(r, stage) ==
  \E q \in DOMAIN requests :
     /\ requests[q].freeze = requests[r].freeze
     /\ requests[q].marker = requests[r].marker
     /\ requests[q].package.stage = stage
     /\ \E k \in DOMAIN reviews[q] : reviews[q][k] = {"CLEAN"}

(* A package of the chain is given to a reviewer only after every earlier  *)
(* stage of the same chain was reviewed clean on the same candidate, wherever*)
(* the pull request moved while the package was built.                     *)
StagesInOrder ==
  \A r \in DOMAIN requests : Chained(r) =>
     \A i, j \in DOMAIN ReviewPlan(0) :
        (requests[r].package.stage = ReviewPlan(0)[j] /\ i < j
           /\ ReviewPlan(0)[i] \in Stages) => CleanFor(r, ReviewPlan(0)[i])

(* The observer sends a chain to Sol's final adjudication only when all    *)
(* three reviews of that chain are clean on the same candidate.            *)
FinalOnWholeChain ==
  \A r \in DOMAIN requests : advice[r].action = "COMPLETE_FOR_FINAL_SOL" /\ Chained(r) =>
     \A stage \in Stages : CleanFor(r, stage)

(* No reviewer is given a candidate whose own merge commit has not passed  *)
(* QORE CI, whatever passed on the same head before or after, and though   *)
(* the gate of an ordinary package may be one that an earlier request has  *)
(* named, and is checked again by its head only.                           *)
GatedFreezes ==
  \A r \in DOMAIN requests : requests[r].freeze \in gates

(* However often, and however late, a completion is observed, the advice is*)
(* the same: a review that was run again never changes what was said.      *)
OneAdvicePerCompletion ==
  [][\A r \in DOMAIN advice :
       advice[r] # NoAdvice /\ advice'[r].attempt = advice[r].attempt
          => advice'[r] = advice[r]]_vars

(* A callback is accepted for the live candidate only if its reviewer was  *)
(* given that candidate, though the package id names neither the head nor  *)
(* the merge commit, and the candidate passed QORE CI.                     *)
AcceptedIsReviewed ==
  \A r \in DOMAIN requests :
     Coherent /\ Recomputed(requests[r], merge)
        => requests[r].freeze = merge /\ merge \in gates
===============================================================================
