------------------------- MODULE ReviewChain_proofs -------------------------
(***************************************************************************)
(* Proofs about the preauthorized chain of reviews, for every number of    *)
(* heads, requests and attempts, and whatever the reviews say.             *)
(***************************************************************************)
EXTENDS ReviewChain, FiniteSetTheorems, SequenceTheorems, TLAPS

(* The shapes of the data, without the bounds of the checked instance.     *)
AnyFreeze == [base : Nat, head : Nat]
AnyChain == [run : ChainRuns, freeze : AnyFreeze]
AnyPackage == [main : Nat, stage : Stages, run : ChainRuns \cup OrdinaryRuns]
AnySnapshot == [main : Nat, pull : AnyFreeze, summaries : SUBSET AnyFreeze,
                experts : SUBSET Nat]
AnyReview == [stage : Stages, freeze : AnyFreeze]
AnyDraft == [run : OrdinaryRuns, seen : AnySnapshot, review : SUBSET AnyReview]
AnyRequest == [package : AnyPackage, freeze : AnyFreeze, marker : SUBSET AnyChain]
Texts == Seq(SUBSET STRING)
AnyRun == [attempt : Nat, success : BOOLEAN]
AnyAdvice == [attempt : Nat, action : Words, next : Words]
AnyObserver == [pc : {"idle", "verdict"}, request : Nat, attempt : Nat,
                success : BOOLEAN]

Typed ==
  /\ main \in Nat /\ head \in Nat /\ merge \in AnyFreeze
  /\ builder \subseteq [chain : AnyChain, stage : Stages]
  /\ requests \in Seq(AnyRequest)
  /\ reviews \in Seq(Texts) /\ Len(reviews) = Len(requests)
  /\ runs \in Seq(AnyRun) /\ Len(runs) = Len(requests)
  /\ advice \in Seq(AnyAdvice) /\ Len(advice) = Len(requests)
  /\ observer \in AnyObserver
  /\ observer # IdleObserver => observer.request \in DOMAIN requests

(* The prompt of a chained package names the chain of its own candidate.   *)
Marked(r) ==
  \/ r.marker = {} /\ r.package.run \in OrdinaryRuns
  \/ /\ r.package.run \in ChainRuns
     /\ r.marker = {[run |-> r.package.run, freeze |-> r.freeze]}
     /\ r.package.main = r.freeze.base

AllMarked == \A r \in DOMAIN requests : Marked(requests[r])

InOrder ==
  \A r \in DOMAIN requests : Chained(r) =>
     \A s \in Required(requests[r].package.stage) : CleanFor(r, s)

FinalIsClean ==
  \A r \in DOMAIN requests : advice[r].action = "COMPLETE_FOR_FINAL_SOL" =>
     /\ requests[r].package.stage = "CLAUDE"
     /\ \E k \in DOMAIN reviews[r] : reviews[r][k] = {"CLEAN"}

(* The candidate of every quality summary in a snapshot has passed.        *)
Drafted ==
  /\ drafts \subseteq AnyDraft
  /\ \A d \in drafts : d.seen.summaries \subseteq gates

IInv ==
  Typed /\ AllMarked /\ InOrder /\ FinalIsClean /\ GatedFreezes /\ Drafted

-----------------------------------------------------------------------------
(* Only a text with one marker, the clean one, is classified clean.        *)
LEMMA CleanText ==
  ASSUME NEW markers, Classify(markers) = "CLEAN"
  PROVE  markers = {"CLEAN"}
  BY DEF Classify

LEMMA InitInv == Init => IInv
<1> SUFFICES ASSUME Init PROVE IInv
    OBVIOUS
<1>1. Typed
    <2>1. /\ << >> \in Seq(AnyRequest) /\ << >> \in Seq(Texts)
          /\ << >> \in Seq(AnyRun) /\ << >> \in Seq(AnyAdvice)
        OBVIOUS
    <2>2. merge \in AnyFreeze /\ observer = IdleObserver /\ builder = {}
        BY DEF Init, AnyFreeze
    <2> QED
        BY <2>1, <2>2 DEF Init, Typed, IdleObserver, AnyObserver
<1>2. DOMAIN requests = {}
    BY DEF Init
<1> QED
    BY <1>1, <1>2 DEF Init, IInv, AllMarked, InOrder, FinalIsClean, GatedFreezes, Drafted

-----------------------------------------------------------------------------
(* What no step takes back: requests, reviews and passed gates.            *)
Grows ==
  /\ DOMAIN requests \subseteq DOMAIN requests'
  /\ \A r \in DOMAIN requests : requests'[r] = requests[r]
  /\ \A r \in DOMAIN requests : \A k \in DOMAIN reviews[r] :
       k \in DOMAIN reviews'[r] /\ reviews'[r][k] = reviews[r][k]
  /\ gates \subseteq gates'

LEMMA CleanStays ==
  ASSUME Grows, NEW r \in DOMAIN requests, NEW s, CleanFor(r, s)
  PROVE  CleanFor(r, s)'
<1>1. PICK q \in DOMAIN requests :
         /\ requests[q].freeze = requests[r].freeze
         /\ requests[q].marker = requests[r].marker
         /\ requests[q].package.stage = s
         /\ \E k \in DOMAIN reviews[q] : reviews[q][k] = {"CLEAN"}
    BY DEF CleanFor
<1>2. PICK k \in DOMAIN reviews[q] : reviews[q][k] = {"CLEAN"}
    BY <1>1
<1>3. /\ q \in DOMAIN requests' /\ requests'[q] = requests[q]
      /\ requests'[r] = requests[r]
      /\ k \in DOMAIN reviews'[q] /\ reviews'[q][k] = {"CLEAN"}
    BY <1>2 DEF Grows
<1> QED
    BY <1>1, <1>3 DEF CleanFor

(* The steps that give no reviewer a package keep what was established of  *)
(* the packages.                                                           *)
LEMMA OldRequests ==
  ASSUME IInv, Grows, requests' = requests
  PROVE  AllMarked' /\ InOrder' /\ GatedFreezes'
<1>1. AllMarked'
    BY DEF IInv, AllMarked
<1>2. InOrder'
    <2> SUFFICES ASSUME NEW r \in DOMAIN requests, Chained(r),
                        NEW s \in Required(requests[r].package.stage)
                 PROVE  CleanFor(r, s)'
        BY DEF InOrder, Chained
    <2> QED
        BY CleanStays DEF IInv, InOrder
<1>3. GatedFreezes'
    BY DEF IInv, GatedFreezes, Grows
<1> QED
    BY <1>1, <1>2, <1>3

LEMMA OldAdvice ==
  ASSUME IInv, Grows, UNCHANGED <<requests, advice>>
  PROVE  FinalIsClean'
<1> SUFFICES ASSUME NEW r \in DOMAIN requests,
                    advice[r].action = "COMPLETE_FOR_FINAL_SOL"
             PROVE  /\ requests[r].package.stage = "CLAUDE"
                    /\ \E k \in DOMAIN reviews'[r] : reviews'[r][k] = {"CLEAN"}
    BY DEF FinalIsClean
<1>1. /\ requests[r].package.stage = "CLAUDE"
      /\ \E k \in DOMAIN reviews[r] : reviews[r][k] = {"CLEAN"}
    BY DEF IInv, FinalIsClean
<1> QED
    BY <1>1 DEF Grows

LEMMA OldDrafts ==
  ASSUME IInv, Grows, drafts' \subseteq drafts
  PROVE  Drafted'
  BY DEF IInv, Drafted, Grows

LEMMA DraftsLeft ==
  ASSUME IInv, UNCHANGED <<candidateVars, drafts>>
  PROVE  Drafted'
  BY DEF IInv, Drafted, candidateVars

-----------------------------------------------------------------------------
(* The steps that leave requests, reviews and advice alone.                *)
LEMMA CandidateInv == ASSUME IInv, CandidateChanges PROVE IInv'
<1>1. /\ main' \in Nat /\ head' \in Nat /\ merge' \in AnyFreeze
      /\ gates \subseteq gates'
    BY DEF IInv, Typed, CandidateChanges, Pushes, MainMoves, Recomputes,
           GatePasses, AnyFreeze
<1>2. UNCHANGED <<builder, drafts, requests, runs, reviews, observer, advice>>
    BY DEF CandidateChanges, reviewVars
<1>3. Typed'
    BY <1>1, <1>2 DEF IInv, Typed, IdleObserver
<1>4. Grows
    BY <1>1, <1>2 DEF Grows
<1> QED
    BY <1>2, <1>3, <1>4, OldRequests, OldAdvice, OldDrafts DEF IInv

LEMMA QuietInv ==
  ASSUME IInv, UNCHANGED <<candidateVars, reviewVars, advice>>,
         builder' \subseteq [chain : AnyChain, stage : Stages],
         observer' \in AnyObserver,
         observer' # IdleObserver => observer'.request \in DOMAIN requests,
         Drafted'
  PROVE  IInv'
<1>1. Typed'
    BY DEF IInv, Typed, candidateVars, reviewVars, IdleObserver
<1>2. Grows
    BY DEF Grows, candidateVars, reviewVars
<1> QED
    BY <1>1, <1>2, OldRequests, OldAdvice DEF IInv, reviewVars

LEMMA StartStageInv ==
  ASSUME IInv, NEW run \in ChainRuns, NEW stage \in Stages, StartStage(run, stage)
  PROVE  IInv'
<1>1. builder' \subseteq [chain : AnyChain, stage : Stages]
    BY DEF IInv, Typed, StartStage, AnyChain
<1> QED
    BY <1>1, QuietInv, DraftsLeft DEF IInv, Typed, StartStage, reviewVars, IdleObserver

LEMMA BuilderStopsInv == ASSUME IInv, BuilderStops PROVE IInv'
  BY QuietInv, DraftsLeft DEF IInv, Typed, BuilderStops, reviewVars, IdleObserver

LEMMA ObserveEventInv ==
  ASSUME IInv, NEW r \in DOMAIN requests, NEW attempt \in Attempts,
         ObserveEvent(r, attempt)
  PROVE  IInv'
<1>1. observer' \in AnyObserver /\ observer'.request = r
    <2>1. runs[r] \in AnyRun /\ r \in Nat /\ attempt \in Nat
        BY ElementOfSeq, ChainAssumption DEF IInv, Typed, Attempts
    <2> QED
        BY <2>1 DEF ObserveEvent, AnyObserver, AnyRun
<1> QED
    BY <1>1, QuietInv, DraftsLeft DEF IInv, Typed, ObserveEvent, reviewVars

-----------------------------------------------------------------------------
(* What is appended to leaves the elements where they were.                *)
LEMMA Extends ==
  ASSUME NEW S, NEW s \in Seq(S), NEW t \in Seq(S)
  PROVE  /\ s \o t \in Seq(S)
         /\ \A k \in DOMAIN s : k \in DOMAIN (s \o t) /\ (s \o t)[k] = s[k]
<1> DEFINE u == s \o t
<1>1. /\ u \in Seq(S) /\ Len(u) = Len(s) + Len(t)
      /\ \A i \in 1 .. Len(s) + Len(t) :
           u[i] = IF i <= Len(s) THEN s[i] ELSE t[i - Len(s)]
    BY ConcatProperties
<1>2. /\ Len(s) \in Nat /\ Len(t) \in Nat
      /\ DOMAIN u = 1 .. Len(u) /\ DOMAIN s = 1 .. Len(s)
    BY <1>1, LenProperties
<1> HIDE DEF u
<1>3. ASSUME NEW k \in DOMAIN s PROVE k \in DOMAIN u /\ u[k] = s[k]
    BY <1>1, <1>2
<1> QED
    BY <1>1, <1>3 DEF u

(* A run of a reviewer only adds to its reviews.                           *)
LEMMA ReviewEndsInv ==
  ASSUME IInv, NEW r \in DOMAIN requests, NEW end \in Ends, ReviewEnds(r, end)
  PROVE  IInv'
<1>1. /\ UNCHANGED <<candidateVars, builder, drafts, requests, observer, advice>>
      /\ reviews' = [reviews EXCEPT ![r] = @ \o end.texts]
      /\ runs' = [runs EXCEPT ![r] = [attempt |-> @.attempt + 1,
                                      success |-> end.success]]
    BY DEF ReviewEnds
<1>2. /\ reviews \in Seq(Texts) /\ r \in 1 .. Len(reviews)
      /\ reviews[r] \in Seq(SUBSET STRING) /\ end.texts \in Seq(SUBSET STRING)
    <2>1. DOMAIN requests = 1 .. Len(requests) /\ Len(reviews) = Len(requests)
        BY DEF IInv, Typed
    <2>2. reviews \in Seq(Texts) /\ end.texts \in Seq(SUBSET STRING)
        BY ChainAssumption DEF IInv, Typed
    <2> QED
        BY <2>1, <2>2, ElementOfSeq DEF Texts
<1> DEFINE more == reviews[r] \o end.texts
<1>3. /\ more \in Texts
      /\ \A k \in DOMAIN reviews[r] : k \in DOMAIN more /\ more[k] = reviews[r][k]
    <2> DEFINE s == reviews[r]
               t == end.texts
    <2>1. s \in Seq(SUBSET STRING) /\ t \in Seq(SUBSET STRING)
        BY <1>2
    <2> HIDE DEF s, t
    <2>2. /\ s \o t \in Seq(SUBSET STRING)
          /\ \A k \in DOMAIN s : k \in DOMAIN (s \o t) /\ (s \o t)[k] = s[k]
        BY <2>1, Extends
    <2> QED
        BY <2>2 DEF s, t, Texts
<1> HIDE DEF more
<1>4. /\ reviews' \in Seq(Texts) /\ Len(reviews') = Len(reviews)
      /\ \A q \in 1 .. Len(reviews) :
           reviews'[q] = IF q = r THEN more ELSE reviews[q]
    BY <1>1, <1>2, <1>3, ExceptSeq DEF more
<1>5. Typed'
    <2>1. /\ runs \in Seq(AnyRun) /\ r \in 1 .. Len(runs) /\ runs[r] \in AnyRun
        BY ElementOfSeq DEF IInv, Typed
    <2>2. [attempt |-> runs[r].attempt + 1, success |-> end.success] \in AnyRun
        BY <2>1, ChainAssumption DEF AnyRun
    <2>3. runs' \in Seq(AnyRun) /\ Len(runs') = Len(runs)
        BY <1>1, <2>1, <2>2, ExceptSeq
    <2> QED
        BY <1>1, <1>4, <2>3 DEF IInv, Typed, candidateVars, IdleObserver
<1>6. Grows
    <2>1. \A q \in DOMAIN requests : q \in 1 .. Len(reviews)
        BY DEF IInv, Typed
    <2> QED
        BY <1>1, <1>3, <1>4, <2>1 DEF Grows, candidateVars
<1> QED
    BY <1>1, <1>5, <1>6, OldRequests, OldAdvice, OldDrafts DEF IInv

-----------------------------------------------------------------------------
(* What the observer saw was published for the request it observed.        *)
LEMMA SeenIsPublished ==
  ASSUME IInv, NEW r \in DOMAIN requests, NEW text \in ReviewsSeen(r)
  PROVE  \/ \E k \in DOMAIN reviews[r] : reviews[r][k] = text
         \/ requests[r].package.stage # "CLAUDE"
<1> SUFFICES ASSUME requests[r].package.stage = "CLAUDE"
             PROVE  \E k \in DOMAIN reviews[r] : reviews[r][k] = text
    OBVIOUS
<1>1. text = reviews[r][1] /\ Len(reviews[r]) = 1
    BY DEF ReviewsSeen, TheOne
<1>2. DOMAIN reviews[r] = 1 .. Len(reviews[r])
    <2>1. r \in 1 .. Len(reviews) /\ reviews \in Seq(Texts)
        BY DEF IInv, Typed
    <2>2. reviews[r] \in Seq(SUBSET STRING)
        BY <2>1, ElementOfSeq DEF Texts
    <2> QED
        BY <2>2, LenProperties
<1> QED
    BY <1>1, <1>2

LEMMA PlanOfStages ==
  /\ Len(ReviewPlan(0)) = 5 /\ DOMAIN ReviewPlan(0) = 1 .. 5
  /\ ReviewPlan(0)[1] = "QG" /\ ReviewPlan(0)[2] = "DEEPSEEK_EXPERT"
  /\ ReviewPlan(0)[3] = "DEEPSEEK_CODER" /\ ReviewPlan(0)[4] = "CLAUDE"
  /\ ReviewPlan(0)[5] = "SOL_FINAL"
  /\ StageIndex(ReviewPlan(0), "DEEPSEEK_EXPERT") = 2
  /\ StageIndex(ReviewPlan(0), "DEEPSEEK_CODER") = 3
  /\ StageIndex(ReviewPlan(0), "CLAUDE") = 4
<1> DEFINE plan == ReviewPlan(0)
<1>1. plan = <<"QG", "DEEPSEEK_EXPERT", "DEEPSEEK_CODER", "CLAUDE", "SOL_FINAL">>
    BY DEF ReviewPlan
<1> HIDE DEF plan
<1>2. /\ Len(plan) = 5 /\ DOMAIN plan = 1 .. 5
      /\ plan[1] = "QG" /\ plan[2] = "DEEPSEEK_EXPERT" /\ plan[3] = "DEEPSEEK_CODER"
      /\ plan[4] = "CLAUDE" /\ plan[5] = "SOL_FINAL"
    <2>1. DOMAIN plan = 1 .. 5
        BY <1>1
    <2>2. Len(plan) = 5
        BY <1>1
    <2>3. /\ plan[1] = "QG" /\ plan[2] = "DEEPSEEK_EXPERT" /\ plan[3] = "DEEPSEEK_CODER"
          /\ plan[4] = "CLAUDE" /\ plan[5] = "SOL_FINAL"
        BY <1>1
    <2> QED
        BY <2>1, <2>2, <2>3
<1>3. /\ StageIndex(plan, "DEEPSEEK_EXPERT") = 2 /\ StageIndex(plan, "DEEPSEEK_CODER") = 3
      /\ StageIndex(plan, "CLAUDE") = 4
    BY <1>2 DEF StageIndex
<1> QED
    BY <1>2, <1>3 DEF plan

LEMMA StepIsWord ==
  ASSUME NEW stage \in Stages, NEW success, NEW text
  PROVE  /\ StepFor(stage, success, text).action \in Words
         /\ StepFor(stage, success, text).next \in Words
<1> DEFINE o == ObservationOf(stage, success, Classify(text))
           plan == ReviewPlan(0)
           i == StageIndex(plan, stage)
<1>1. o.stage = stage
    BY DEF ObservationOf
<1>2. plan[i + 1] \in {"DEEPSEEK_CODER", "CLAUDE", "SOL_FINAL"}
    BY PlanOfStages DEF Stages
<1> HIDE DEF o, plan
<1>3. /\ DecideReviewSequence(plan, o).action \in Words
      /\ DecideReviewSequence(plan, o).next \in Words
    <2> DEFINE d == DecideReviewSequence(plan, o)
    <2>1. \/ d = Step(Raises, None) \/ d = Step("WAIT", None)
          \/ d = Step("EVIDENCE_REQUIRED", None)
          \/ d = Step("SOL_ADJUDICATION_REQUIRED", "SOL_FINAL")
          \/ d = Step("SOL_ADJUDICATION_REQUIRED", None)
          \/ d = Step("COMPLETE_FOR_FINAL_SOL", "SOL_FINAL")
          \/ d = Step("ADVANCE_PREAUTHORIZED", plan[i + 1])
        BY <1>1, ZenonT(30) DEF DecideReviewSequence
    <2> HIDE DEF d
    <2>2. d.action \in Words /\ d.next \in Words
        BY <1>2, <2>1 DEF Step, Words
    <2> QED
        BY <2>2 DEF d
<1> QED
    BY <1>3 DEF StepFor, o, plan

LEMMA FinalStep ==
  ASSUME NEW stage \in Stages, NEW success, NEW text,
         StepFor(stage, success, text).action = "COMPLETE_FOR_FINAL_SOL"
  PROVE  stage = "CLAUDE" /\ text = {"CLEAN"}
<1> DEFINE o == ObservationOf(stage, success, Classify(text))
           plan == ReviewPlan(0)
<1>1. /\ o.stage = stage /\ o.verdict = IF Classify(text) = "CLEAN" THEN "CLEAN" ELSE "OTHER"
    BY DEF ObservationOf
<1>3. DecideReviewSequence(plan, o).action = "COMPLETE_FOR_FINAL_SOL"
    BY DEF StepFor
<1>4. /\ o.verdict = "CLEAN"
      /\ \/ o.stage = "CLAUDE" \/ StageIndex(plan, o.stage) + 1 > Len(plan)
         \/ plan[StageIndex(plan, o.stage) + 1] = "SOL_FINAL"
    <2> HIDE DEF o, plan
    <2> QED
        BY <1>3 DEF DecideReviewSequence, Step, Raises, None
<1>6. stage = "CLAUDE"
    <2> HIDE DEF o
    <2> QED
        BY <1>1, <1>4, PlanOfStages DEF Stages
<1>7. Classify(text) = "CLEAN"
    BY <1>1, <1>4
<1> QED
    BY <1>6, <1>7, CleanText

LEMMA ReadVerdictInv ==
  ASSUME IInv, observer # IdleObserver, ReadVerdict(observer.request)
  PROVE  IInv'
<1> DEFINE r == observer.request
<1>1. r \in DOMAIN requests /\ DOMAIN requests = 1 .. Len(requests)
      /\ DOMAIN advice = DOMAIN requests
    BY DEF IInv, Typed
<1>2. UNCHANGED <<candidateVars, builder, drafts, requests, runs, reviews>>
      /\ observer' = IdleObserver
    BY DEF ReadVerdict, reviewVars
<1>3. Grows
    BY <1>2 DEF Grows, candidateVars
<1> HIDE DEF r
<1>4. CASE UNCHANGED advice
    BY <1>2, <1>4, QuietInv, DraftsLeft DEF IInv, Typed, reviewVars, IdleObserver, AnyObserver
<1>5. ASSUME NEW text \in ReviewsSeen(r), NEW step, NEW said,
             step = StepFor(requests[r].package.stage, observer.success, text),
             said = [attempt |-> observer.attempt, action |-> step.action,
                     next |-> step.next],
             advice' = [advice EXCEPT ![r] = said]
      PROVE  IInv'
    <2>1. requests[r].package.stage \in Stages
        <3>1. requests \in Seq(AnyRequest) /\ r \in 1 .. Len(requests)
            BY <1>1 DEF IInv, Typed
        <3>2. requests[r] \in AnyRequest
            BY <3>1, ElementOfSeq
        <3> QED
            BY <3>2 DEF AnyRequest, AnyPackage
    <2>2. said \in AnyAdvice
        BY <2>1, <1>5, StepIsWord DEF AnyAdvice, IInv, Typed, AnyObserver
    <2>5. advice' \in Seq(AnyAdvice) /\ Len(advice') = Len(advice)
        BY <2>2, <1>1, <1>5, ExceptSeq DEF IInv, Typed
    <2>3. Typed'
        BY <1>2, <2>5 DEF IInv, Typed, candidateVars, IdleObserver, AnyObserver
    <2>4. FinalIsClean'
        <3> SUFFICES ASSUME NEW q \in DOMAIN requests,
                            advice'[q].action = "COMPLETE_FOR_FINAL_SOL"
                     PROVE  /\ requests[q].package.stage = "CLAUDE"
                            /\ \E k \in DOMAIN reviews[q] : reviews[q][k] = {"CLEAN"}
            BY <1>2 DEF FinalIsClean
        <3>1. CASE q # r
            <4>1. advice'[q] = advice[q]
                BY <3>1, <1>1, <1>5
            <4> QED
                BY <4>1 DEF IInv, FinalIsClean
        <3>2. CASE q = r
            <4>1. step.action = "COMPLETE_FOR_FINAL_SOL"
                BY <3>2, <1>1, <1>5
            <4>3. requests[r].package.stage = "CLAUDE" /\ text = {"CLEAN"}
                BY <4>1, <2>1, <1>5, FinalStep
            <4> QED
                BY <3>2, <4>3, <1>1, <1>5, SeenIsPublished
        <3> QED
            BY <3>1, <3>2
    <2> QED
        BY <1>2, <1>3, <2>3, <2>4, OldRequests, OldDrafts DEF IInv
<1> QED
    BY <1>4, <1>5 DEF ReadVerdict, r

-----------------------------------------------------------------------------
(* A new package.                                                          *)
LEMMA DispatchInv ==
  ASSUME IInv, NEW request \in AnyRequest, Dispatch(request),
         UNCHANGED <<candidateVars, observer>>, drafts' \subseteq drafts,
         builder' \subseteq [chain : AnyChain, stage : Stages],
         Marked(request), request.freeze \in gates,
         request.marker # {} =>
           \A s \in Required(request.package.stage) :
             \E q \in DOMAIN requests :
                /\ requests[q].freeze = request.freeze
                /\ requests[q].marker = request.marker
                /\ requests[q].package.stage = s
                /\ \E k \in DOMAIN reviews[q] : reviews[q][k] = {"CLEAN"}
  PROVE  IInv'
<1> DEFINE new == Len(requests) + 1
<1>1. /\ requests \in Seq(AnyRequest) /\ reviews \in Seq(Texts)
      /\ Len(reviews) = Len(requests) /\ Len(advice) = Len(requests)
      /\ runs \in Seq(AnyRun) /\ Len(runs) = Len(requests)
      /\ Len(requests) \in Nat /\ advice \in Seq(AnyAdvice)
    BY LenProperties DEF IInv, Typed
<1>2. /\ requests' = Append(requests, request) /\ reviews' = Append(reviews, << >>)
      /\ advice' = Append(advice, NoAdvice)
      /\ runs' = Append(runs, [attempt |-> 0, success |-> FALSE])
    BY DEF Dispatch
<1>3. /\ << >> \in Texts /\ NoAdvice \in AnyAdvice
      /\ [attempt |-> 0, success |-> FALSE] \in AnyRun
    <2>1. << >> \in Texts
        BY DEF Texts
    <2>2. NoAdvice \in AnyAdvice
        BY DEF NoAdvice, None, AnyAdvice, Words
    <2> QED
        BY <2>1, <2>2 DEF AnyRun
<1>4. /\ requests' \in Seq(AnyRequest) /\ Len(requests') = new
      /\ DOMAIN requests' = 1 .. new /\ DOMAIN requests = 1 .. Len(requests)
      /\ requests'[new] = request
      /\ \A r \in 1 .. Len(requests) : requests'[r] = requests[r]
    BY <1>1, <1>2
<1>5. /\ reviews' \in Seq(Texts) /\ Len(reviews') = new
      /\ \A r \in 1 .. Len(requests) : reviews'[r] = reviews[r]
    BY <1>1, <1>2, <1>3
<1>6. /\ advice' \in Seq(AnyAdvice) /\ Len(advice') = new
      /\ runs' \in Seq(AnyRun) /\ Len(runs') = new
      /\ advice'[new] = NoAdvice
      /\ \A r \in 1 .. Len(requests) : advice'[r] = advice[r]
    BY <1>1, <1>2, <1>3
<1>7. Typed'
    BY <1>4, <1>5, <1>6 DEF IInv, Typed, candidateVars
<1>8. Grows
    BY <1>1, <1>4, <1>5 DEF Grows, candidateVars
<1>9. \A r \in DOMAIN requests' : r \in DOMAIN requests \/ r = new
    BY <1>1, <1>4
<1>10. AllMarked'
    BY <1>4, <1>9 DEF IInv, AllMarked, Marked
<1>11. GatedFreezes'
    BY <1>4, <1>9 DEF IInv, GatedFreezes, candidateVars
<1>12. InOrder'
    <2> SUFFICES ASSUME NEW r \in DOMAIN requests', Chained(r)',
                        NEW s \in Required(requests'[r].package.stage)
                 PROVE  CleanFor(r, s)'
        BY DEF InOrder
    <2>1. CASE r \in DOMAIN requests
        BY <2>1, <1>4, <1>8, CleanStays DEF IInv, InOrder, Chained
    <2>2. CASE r = new
        <3>1. PICK q \in DOMAIN requests :
                 /\ requests[q].freeze = request.freeze
                 /\ requests[q].marker = request.marker
                 /\ requests[q].package.stage = s
                 /\ \E k \in DOMAIN reviews[q] : reviews[q][k] = {"CLEAN"}
            BY <2>2, <1>4 DEF Chained
        <3>2. /\ q \in DOMAIN requests' /\ requests'[q] = requests[q]
              /\ \E k \in DOMAIN reviews'[q] : reviews'[q][k] = {"CLEAN"}
            BY <3>1, <1>8 DEF Grows
        <3> QED
            BY <2>2, <1>4, <3>1, <3>2 DEF CleanFor
    <2> QED
        BY <2>1, <2>2, <1>9
<1>13. FinalIsClean'
    <2> SUFFICES ASSUME NEW r \in DOMAIN requests',
                        advice'[r].action = "COMPLETE_FOR_FINAL_SOL"
                 PROVE  /\ requests'[r].package.stage = "CLAUDE"
                        /\ \E k \in DOMAIN reviews'[r] : reviews'[r][k] = {"CLEAN"}
        BY DEF FinalIsClean
    <2>1. r # new
        BY <1>6 DEF NoAdvice, None
    <2>2. r \in DOMAIN requests /\ advice'[r] = advice[r]
        BY <2>1, <1>4, <1>6, <1>9
    <2>3. /\ requests[r].package.stage = "CLAUDE"
          /\ \E k \in DOMAIN reviews[r] : reviews[r][k] = {"CLEAN"}
        BY <2>2 DEF IInv, FinalIsClean
    <2> QED
        BY <2>2, <2>3, <1>8 DEF Grows
<1> QED
    BY <1>7, <1>8, <1>10, <1>11, <1>12, <1>13, OldDrafts DEF IInv

(* The package and the head that PreviousClean asks for belong to the very *)
(* chain that is built.                                                    *)
LEMMA FoundIsOfChain ==
  ASSUME IInv, NEW chain \in AnyChain, NEW stage \in Stages,
         NEW s \in Required(stage), PreviousClean(chain, stage)
  PROVE  \E q \in DOMAIN requests :
            /\ requests[q].freeze = chain.freeze
            /\ requests[q].marker = {chain}
            /\ requests[q].package.stage = s
            /\ \E k \in DOMAIN reviews[q] : reviews[q][k] = {"CLEAN"}
<1>1. CleanOnHead(StagePackage(chain, s), chain.freeze.head)
    BY DEF PreviousClean
<1>2. PICK q \in DOMAIN requests :
         /\ requests[q].package = StagePackage(chain, s)
         /\ requests[q].freeze.head = chain.freeze.head
         /\ Len(reviews[q]) = 1
         /\ Classify(reviews[q][1]) = "CLEAN"
    BY <1>1 DEF CleanOnHead, DeepSeekReviews, TheOne
<1>3. \E k \in DOMAIN reviews[q] : reviews[q][k] = {"CLEAN"}
    <2>1. q \in 1 .. Len(reviews) /\ reviews \in Seq(Texts)
        BY DEF IInv, Typed
    <2>2. reviews[q] \in Seq(SUBSET STRING)
        BY <2>1, ElementOfSeq DEF Texts
    <2>3. 1 \in DOMAIN reviews[q]
        BY <1>2, <2>2, LenProperties
    <2> QED
        BY <1>2, <2>3, CleanText
<1>4. requests[q] \in AnyRequest
    BY ElementOfSeq DEF IInv, Typed
<1>5. /\ requests[q].package.run = chain.run /\ requests[q].package.main = chain.freeze.base
      /\ requests[q].package.stage = s
    BY <1>2 DEF StagePackage
<1>6. /\ requests[q].marker = {[run |-> chain.run, freeze |-> requests[q].freeze]}
      /\ requests[q].freeze.base = chain.freeze.base
    BY <1>5, ChainAssumption DEF IInv, AllMarked, Marked, AnyChain
<1>7. requests[q].freeze = chain.freeze
    BY <1>2, <1>4, <1>6 DEF AnyRequest, AnyChain, AnyFreeze
<1>8. requests[q].marker = {chain}
    BY <1>6, <1>7 DEF AnyChain
<1> QED
    BY <1>3, <1>5, <1>7, <1>8

LEMMA BuildStageInv ==
  ASSUME IInv, NEW b \in builder, BuildStage(b.chain, b.stage)
  PROVE  IInv'
<1> DEFINE request == [package |-> StagePackage(b.chain, b.stage),
                       freeze |-> b.chain.freeze, marker |-> {b.chain}]
<1>1. b.chain \in AnyChain /\ b.stage \in Stages
    BY DEF IInv, Typed
<1>2. request \in AnyRequest
    BY <1>1 DEF AnyRequest, AnyPackage, AnyChain, AnyFreeze, StagePackage
<1>3. Marked(request)
    BY <1>1 DEF Marked, AnyChain, StagePackage
<1>4. request.freeze \in gates
    BY DEF BuildStage, QualityGate
<1>5. \A s \in Required(request.package.stage) :
        \E q \in DOMAIN requests :
           /\ requests[q].freeze = request.freeze
           /\ requests[q].marker = request.marker
           /\ requests[q].package.stage = s
           /\ \E k \in DOMAIN reviews[q] : reviews[q][k] = {"CLEAN"}
    <2>1. request.package.stage = b.stage /\ request.freeze = b.chain.freeze
          /\ request.marker = {b.chain}
        BY DEF StagePackage
    <2>2. PreviousClean(b.chain, b.stage)
        BY DEF BuildStage
    <2> HIDE DEF request
    <2> SUFFICES ASSUME NEW s \in Required(b.stage)
                 PROVE  \E q \in DOMAIN requests :
                           /\ requests[q].freeze = b.chain.freeze
                           /\ requests[q].marker = {b.chain}
                           /\ requests[q].package.stage = s
                           /\ \E k \in DOMAIN reviews[q] : reviews[q][k] = {"CLEAN"}
        BY <2>1
    <2> QED
        BY <1>1, <2>2, FoundIsOfChain
<1>6. /\ Dispatch(request) /\ UNCHANGED <<candidateVars, drafts, observer>> /\ builder' = {}
    BY DEF BuildStage
<1> HIDE DEF request
<1> QED
    BY <1>2, <1>3, <1>4, <1>5, <1>6, DispatchInv

LEMMA OrdinaryPackageInv ==
  ASSUME IInv, NEW d \in drafts, NEW review \in d.review,
         OrdinaryPackage(d, review.stage, review.freeze)
  PROVE  IInv'
<1> DEFINE request == [package |-> [main |-> d.seen.main, stage |-> review.stage,
                                    run |-> d.run],
                       freeze |-> review.freeze, marker |-> {}]
<1>1. /\ d.run \in OrdinaryRuns /\ d.seen.main \in Nat
      /\ review.stage \in Stages /\ review.freeze \in AnyFreeze
      /\ d.seen.summaries \subseteq gates
    BY DEF IInv, Drafted, AnyDraft, AnySnapshot, AnyReview
<1>2. request \in AnyRequest
    BY <1>1 DEF AnyRequest, AnyPackage
<1>3. Marked(request) /\ request.marker = {}
    BY <1>1 DEF Marked
<1>4. request.freeze \in gates
    BY <1>1 DEF OrdinaryPackage, QualityGate, FrozenQuality
<1>5. /\ Dispatch(request) /\ UNCHANGED <<candidateVars, builder, observer>>
      /\ drafts' \subseteq drafts
    BY DEF OrdinaryPackage
<1> HIDE DEF request
<1>6. builder' \subseteq [chain : AnyChain, stage : Stages]
    BY <1>5 DEF IInv, Typed
<1> QED
    BY <1>2, <1>3, <1>4, <1>5, <1>6, DispatchInv

(* An architect run collects its snapshot, resolves the candidate, or stops.*)
LEMMA CollectsInv ==
  ASSUME IInv, NEW run \in OrdinaryRuns, Collects(run)
  PROVE  IInv'
<1>1. /\ requests \in Seq(AnyRequest) /\ \A r \in DOMAIN requests : requests[r] \in AnyRequest
    BY ElementOfSeq DEF IInv, Typed
<1>2. Summaries \subseteq AnyFreeze /\ Summaries \subseteq gates
    BY <1>1 DEF Summaries, AnyRequest, IInv, GatedFreezes
<1>3. ExpertHeads \subseteq Nat
    BY <1>1 DEF ExpertHeads, AnyRequest, AnyFreeze
<1>4. PICK then \in 0 .. main :
        drafts' = drafts \cup
          {[run |-> run, review |-> {},
            seen |-> [main |-> then, pull |-> merge, summaries |-> Summaries,
                      experts |-> ExpertHeads]]}
    BY DEF Collects
<1> DEFINE seen == [main |-> then, pull |-> merge, summaries |-> Summaries,
                    experts |-> ExpertHeads]
           new == [run |-> run, review |-> {}, seen |-> seen]
<1>5. then \in Nat /\ merge \in AnyFreeze /\ UNCHANGED gates
    BY DEF IInv, Typed, Collects, candidateVars
<1>6. seen \in AnySnapshot /\ seen.summaries \subseteq gates
    BY <1>2, <1>3, <1>5 DEF AnySnapshot
<1>7. drafts' = drafts \cup {new}
    BY <1>4
<1> HIDE DEF seen
<1>8. new \in AnyDraft /\ new.seen.summaries \subseteq gates
    BY <1>6 DEF AnyDraft
<1> HIDE DEF new
<1>9. Drafted'
    BY <1>5, <1>7, <1>8 DEF IInv, Drafted
<1> QED
    BY <1>9, QuietInv DEF Collects, IInv, Typed, reviewVars, IdleObserver

LEMMA ResolvesFreezeInv ==
  ASSUME IInv, NEW d \in drafts, NEW stage \in Stages, ResolvesFreeze(d, stage)
  PROVE  IInv'
<1> DEFINE review == [stage |-> stage, freeze |-> merge]
           new == [d EXCEPT !.review = {review}]
<1>1. review \in AnyReview /\ d \in AnyDraft /\ UNCHANGED gates
    BY DEF IInv, Typed, Drafted, AnyReview, ResolvesFreeze, candidateVars
<1>2. drafts' = (drafts \ {d}) \cup {new}
    BY DEF ResolvesFreeze
<1> HIDE DEF review
<1>3. new \in AnyDraft /\ new.seen = d.seen
    BY <1>1 DEF AnyDraft
<1> HIDE DEF new
<1>4. Drafted'
    BY <1>1, <1>2, <1>3 DEF IInv, Drafted
<1> QED
    BY <1>4, QuietInv DEF ResolvesFreeze, IInv, Typed, reviewVars, IdleObserver

LEMMA DraftStopsInv ==
  ASSUME IInv, NEW d \in drafts, DraftStops(d)
  PROVE  IInv'
<1>1. Drafted'
    BY DEF IInv, Drafted, DraftStops, candidateVars
<1> QED
    BY <1>1, QuietInv DEF DraftStops, IInv, Typed, reviewVars, IdleObserver

-----------------------------------------------------------------------------
LEMMA StepInv == IInv /\ [Next]_vars => IInv'
<1> SUFFICES ASSUME IInv, [Next]_vars PROVE IInv'
    OBVIOUS
<1>1. CASE CandidateChanges
    BY <1>1, CandidateInv
<1>2. ASSUME NEW b \in builder, BuildStage(b.chain, b.stage) PROVE IInv'
    BY <1>2, BuildStageInv
<1>3. CASE BuilderStops
    BY <1>3, BuilderStopsInv
<1>4. ASSUME NEW run \in ChainRuns, NEW stage \in Stages, StartStage(run, stage)
      PROVE  IInv'
    BY <1>4, StartStageInv
<1>5. ASSUME NEW d \in drafts,
             \/ \E stage \in Stages : ResolvesFreeze(d, stage)
             \/ \E review \in d.review : OrdinaryPackage(d, review.stage, review.freeze)
             \/ DraftStops(d)
      PROVE  IInv'
    BY <1>5, ResolvesFreezeInv, OrdinaryPackageInv, DraftStopsInv
<1>6. ASSUME NEW r \in DOMAIN requests, NEW end \in Ends, ReviewEnds(r, end)
      PROVE  IInv'
    BY <1>6, ReviewEndsInv
<1>7. ASSUME NEW r \in DOMAIN requests, NEW attempt \in Attempts,
             ObserveEvent(r, attempt)
      PROVE  IInv'
    BY <1>7, ObserveEventInv
<1>8. CASE observer # IdleObserver /\ ReadVerdict(observer.request)
    BY <1>8, ReadVerdictInv
<1>9. CASE UNCHANGED vars
    BY <1>9, QuietInv, DraftsLeft DEF vars, candidateVars, reviewVars, IInv, Typed
<1>10. ASSUME NEW run \in OrdinaryRuns, Collects(run) PROVE IInv'
    BY <1>10, CollectsInv
<1> QED
    BY <1>1, <1>2, <1>3, <1>4, <1>5, <1>6, <1>7, <1>8, <1>9, <1>10 DEF Next

LEMMA Invariance == Spec => []IInv
  BY InitInv, StepInv, PTL DEF Spec

-----------------------------------------------------------------------------
(* A later stage of a chain is given to a reviewer only after each earlier *)
(* stage of the same chain was reviewed clean on the same candidate        *)
(* (build_stage_package() and the dispatch of what it builds).             *)
THEOREM ChainInOrder == Spec => []StagesInOrder
<1>1. IInv => StagesInOrder
    <2> SUFFICES ASSUME IInv, NEW r \in DOMAIN requests, Chained(r),
                        NEW i \in 1 .. 5, NEW j \in 1 .. 5, i < j,
                        requests[r].package.stage = ReviewPlan(0)[j],
                        ReviewPlan(0)[i] \in Stages
                 PROVE  CleanFor(r, ReviewPlan(0)[i])
        BY PlanOfStages DEF StagesInOrder
    <2>1. requests[r].package.stage \in Stages
        <3>1. requests[r] \in AnyRequest
            BY ElementOfSeq DEF IInv, Typed
        <3> QED
            BY <3>1 DEF AnyRequest, AnyPackage
    <2>2. ReviewPlan(0)[i] \in Required(ReviewPlan(0)[j])
        <3>1. i \in {2, 3, 4} /\ j \in {2, 3, 4}
            BY <2>1, PlanOfStages DEF Stages
        <3> QED
            BY <3>1, PlanOfStages DEF Required
    <2> QED
        BY <2>2 DEF IInv, InOrder
<1> QED
    BY <1>1, Invariance, PTL

(* The completion observer sends a chain to Sol's final adjudication only  *)
(* when all three reviews of that chain are clean on the same candidate    *)
(* (decide_review_sequence() on what read_verdict() found).                *)
THEOREM FinalAdviceOnWholeChain == Spec => []FinalOnWholeChain
<1>1. IInv => FinalOnWholeChain
    <2> SUFFICES ASSUME IInv, NEW r \in DOMAIN requests, Chained(r),
                        advice[r].action = "COMPLETE_FOR_FINAL_SOL",
                        NEW stage \in Stages
                 PROVE  CleanFor(r, stage)
        BY DEF FinalOnWholeChain
    <2>1. /\ requests[r].package.stage = "CLAUDE"
          /\ \E k \in DOMAIN reviews[r] : reviews[r][k] = {"CLEAN"}
        BY DEF IInv, FinalIsClean
    <2>2. CASE stage = "CLAUDE"
        BY <2>1, <2>2 DEF CleanFor
    <2>3. CASE stage # "CLAUDE"
        <3>1. stage \in Required(requests[r].package.stage)
            BY <2>1, <2>3 DEF Stages, Required
        <3> QED
            BY <3>1 DEF IInv, InOrder
    <2> QED
        BY <2>2, <2>3
<1> QED
    BY <1>1, Invariance, PTL

(* A reviewer is given a candidate only when QORE CI passed on its own     *)
(* merge commit (validate_exact_quality_gate()).                           *)
THEOREM OnlyGatedCandidates == Spec => []GatedFreezes
<1>1. IInv => GatedFreezes
    BY DEF IInv
<1> QED
    BY <1>1, Invariance, PTL

(* A callback that validate_chain_callback() accepts for the live candidate*)
(* belongs to a request for that very candidate, which passed QORE CI.     *)
THEOREM CallbackIsForLiveCandidate == Spec => []AcceptedIsReviewed
<1>1. IInv => AcceptedIsReviewed
    <2> SUFFICES ASSUME IInv, NEW r \in DOMAIN requests, Recomputed(requests[r], merge)
                 PROVE  requests[r].freeze = merge /\ merge \in gates
        BY DEF AcceptedIsReviewed
    <2>1. requests[r].marker = {[run |-> requests[r].package.run, freeze |-> merge]}
        BY DEF Recomputed
    <2>2. requests[r].marker
            = {[run |-> requests[r].package.run, freeze |-> requests[r].freeze]}
        BY <2>1 DEF IInv, AllMarked, Marked
    <2>3. requests[r].freeze = merge
        <3> DEFINE a == [run |-> requests[r].package.run, freeze |-> merge]
                   b == [run |-> requests[r].package.run, freeze |-> requests[r].freeze]
        <3>1. a = b
            BY <2>1, <2>2
        <3>2. a.freeze = merge /\ b.freeze = requests[r].freeze
            OBVIOUS
        <3> HIDE DEF a, b
        <3> QED
            BY <3>1, <3>2
    <2> QED
        BY <2>3 DEF IInv, GatedFreezes
<1> QED
    BY <1>1, Invariance, PTL
-----------------------------------------------------------------------------
(* What the observer says of a run: it is determined by the attempt, its   *)
(* end and the first review of the request.                                *)
Said(r, run) ==
  LET step == StepFor(requests[r].package.stage, run.success, reviews[r][1])
  IN  [attempt |-> run.attempt, action |-> step.action, next |-> step.next]

OnePerPackage ==
  \A r, q \in DOMAIN requests : requests[r].package = requests[q].package => r = q

(* What was said of the last attempt is what would be said of it again.    *)
Settled(r) ==
  advice[r] # NoAdvice =>
    /\ 1 \in DOMAIN reviews[r] /\ advice[r].attempt <= runs[r].attempt
    /\ advice[r].attempt = runs[r].attempt => advice[r] = Said(r, runs[r])

(* And so is what was said of the attempt that the observer looks at, which*)
(* need not be the last one any more.                                      *)
Observed(r) ==
  /\ observer.attempt <= runs[r].attempt
  /\ observer.attempt = runs[r].attempt => observer.success = runs[r].success
  /\ advice[r] # NoAdvice /\ advice[r].attempt = observer.attempt
       => advice[r] = Said(r, observer)

AdviceInv ==
  /\ OnePerPackage
  /\ \A r \in DOMAIN requests : Settled(r)
  /\ observer # IdleObserver => Observed(observer.request)

JInv == IInv /\ AdviceInv

(* The observer sees one review of its request or none: no other request   *)
(* has the same package.                                                   *)
LEMMA SeenIsFirst ==
  ASSUME JInv, NEW r \in DOMAIN requests, NEW text \in ReviewsSeen(r)
  PROVE  text = reviews[r][1] /\ 1 \in DOMAIN reviews[r]
<1>1. text = reviews[r][1] /\ Len(reviews[r]) = 1
    <2>1. CASE requests[r].package.stage = "CLAUDE"
        BY <2>1 DEF ReviewsSeen, TheOne
    <2>2. CASE requests[r].package.stage # "CLAUDE"
        <3>1. PICK q \in DOMAIN requests :
                 /\ requests[q].package = requests[r].package
                 /\ text = reviews[q][1] /\ Len(reviews[q]) = 1
            BY <2>2 DEF ReviewsSeen, TheOne, DeepSeekReviews
        <3>2. q = r
            BY <3>1 DEF JInv, AdviceInv, OnePerPackage
        <3> QED
            BY <3>1, <3>2
    <2> QED
        BY <2>1, <2>2
<1>2. reviews[r] \in Seq(SUBSET STRING)
    <2>1. r \in 1 .. Len(reviews) /\ reviews \in Seq(Texts)
        BY DEF JInv, IInv, Typed
    <2> QED
        BY <2>1, ElementOfSeq DEF Texts
<1> QED
    BY <1>1, <1>2, LenProperties

LEMMA AttemptsAreNumbers ==
  ASSUME JInv, NEW r \in DOMAIN requests
  PROVE  runs[r].attempt \in Nat /\ advice[r].attempt \in Nat
<1>1. /\ runs \in Seq(AnyRun) /\ r \in 1 .. Len(runs)
      /\ advice \in Seq(AnyAdvice) /\ r \in 1 .. Len(advice)
    BY DEF JInv, IInv, Typed
<1>2. runs[r] \in AnyRun /\ advice[r] \in AnyAdvice
    BY <1>1, ElementOfSeq
<1> QED
    BY <1>2 DEF AnyRun, AnyAdvice

LEMMA StillAdvice ==
  ASSUME JInv, UNCHANGED <<requests, runs, reviews, advice>>,
         observer' = observer \/ observer' = IdleObserver
  PROVE  AdviceInv'
<1>1. OnePerPackage'
    BY DEF JInv, AdviceInv, OnePerPackage
<1>2. ASSUME NEW r \in DOMAIN requests PROVE Settled(r)'
    <2>1. Settled(r)
        BY DEF JInv, AdviceInv
    <2> QED
        BY <2>1 DEF Settled, Said, NoAdvice
<1>3. ASSUME observer' # IdleObserver PROVE Observed(observer.request)'
    <2>1. observer' = observer /\ Observed(observer.request)
        BY <1>3 DEF JInv, AdviceInv
    <2> QED
        BY <2>1 DEF Observed, Said, NoAdvice
<1> QED
    BY <1>1, <1>2, <1>3 DEF AdviceInv, IdleObserver

LEMMA DispatchAdvice ==
  ASSUME JInv, NEW request, Dispatch(request), observer' = observer
  PROVE  AdviceInv' /\ \A r \in DOMAIN requests : advice'[r] = advice[r]
<1> DEFINE new == Len(requests) + 1
<1>1. /\ requests \in Seq(AnyRequest) /\ reviews \in Seq(Texts)
      /\ Len(reviews) = Len(requests) /\ Len(advice) = Len(requests)
      /\ runs \in Seq(AnyRun) /\ Len(runs) = Len(requests)
      /\ Len(requests) \in Nat /\ advice \in Seq(AnyAdvice)
      /\ DOMAIN requests = 1 .. Len(requests)
    BY LenProperties DEF JInv, IInv, Typed
<1>2. /\ DOMAIN requests' = 1 .. new /\ requests'[new] = request
      /\ advice'[new] = NoAdvice
      /\ \A r \in DOMAIN requests :
            /\ requests'[r] = requests[r] /\ reviews'[r] = reviews[r]
            /\ runs'[r] = runs[r] /\ advice'[r] = advice[r]
    BY <1>1 DEF Dispatch
<1>3. \A r \in DOMAIN requests' : r \in DOMAIN requests \/ r = new
    BY <1>1, <1>2
<1> HIDE DEF new
<1>4. OnePerPackage'
    <2>1. \A r \in DOMAIN requests : requests[r].package # request.package
        BY DEF Dispatch, Given
    <2> QED
        BY <1>2, <1>3, <2>1 DEF JInv, AdviceInv, OnePerPackage
<1>5. ASSUME NEW r \in DOMAIN requests' PROVE Settled(r)'
    <2>1. CASE r \in DOMAIN requests
        <3>1. Settled(r)
            BY <2>1 DEF JInv, AdviceInv
        <3> QED
            BY <1>2, <2>1, <3>1 DEF Settled, Said, NoAdvice
    <2>2. CASE r = new
        BY <2>2, <1>2 DEF Settled, NoAdvice
    <2> QED
        BY <1>3, <2>1, <2>2
<1>6. ASSUME observer # IdleObserver PROVE Observed(observer.request)'
    <2>1. observer.request \in DOMAIN requests /\ Observed(observer.request)
        BY <1>6 DEF JInv, IInv, Typed, AdviceInv
    <2> QED
        BY <1>2, <2>1 DEF Observed, Said, NoAdvice
<1> QED
    BY <1>2, <1>4, <1>5, <1>6 DEF AdviceInv, IdleObserver

(* A new attempt: what was said is no longer of the last attempt, and the  *)
(* first review stays the first.                                           *)
LEMMA ReviewEndsAdvice ==
  ASSUME JInv, NEW r \in DOMAIN requests, NEW end \in Ends, ReviewEnds(r, end)
  PROVE  AdviceInv'
<1>1. /\ UNCHANGED <<requests, observer, advice>>
      /\ reviews' = [reviews EXCEPT ![r] = @ \o end.texts]
      /\ runs' = [runs EXCEPT ![r] = [attempt |-> @.attempt + 1,
                                      success |-> end.success]]
    BY DEF ReviewEnds
<1>2. /\ reviews \in Seq(Texts) /\ runs \in Seq(AnyRun)
      /\ DOMAIN requests = 1 .. Len(requests)
      /\ Len(reviews) = Len(requests) /\ Len(runs) = Len(requests)
      /\ end.texts \in Seq(SUBSET STRING)
    BY ChainAssumption DEF JInv, IInv, Typed
<1>3. reviews[r] \in Seq(SUBSET STRING)
    BY <1>2, ElementOfSeq DEF Texts
<1>4. /\ DOMAIN reviews = DOMAIN requests /\ DOMAIN runs = DOMAIN requests
      /\ runs'[r].attempt = runs[r].attempt + 1
    BY <1>1, <1>2
<1>5. 1 \in DOMAIN reviews[r] => 1 \in DOMAIN reviews'[r] /\ reviews'[r][1] = reviews[r][1]
    <2> DEFINE s == reviews[r]
               t == end.texts
               u == s \o t
    <2>1. s \in Seq(SUBSET STRING) /\ t \in Seq(SUBSET STRING)
        BY <1>2, <1>3
    <2>2. reviews'[r] = u
        BY <1>1, <1>4
    <2> HIDE DEF s, t
    <2>3. \A k \in DOMAIN s : k \in DOMAIN u /\ u[k] = s[k]
        BY <2>1, Extends
    <2> HIDE DEF u
    <2> QED
        BY <2>2, <2>3 DEF s
<1>6. \A q \in DOMAIN requests : q # r => reviews'[q] = reviews[q] /\ runs'[q] = runs[q]
    BY <1>1, <1>4
<1>7. ASSUME NEW q \in DOMAIN requests PROVE Settled(q)'
    <2>1. Settled(q)
        BY DEF JInv, AdviceInv
    <2>2. CASE q # r
        BY <1>1, <1>6, <2>1, <2>2 DEF Settled, Said, NoAdvice
    <2>3. CASE q = r
        <3> SUFFICES ASSUME advice[r] # NoAdvice
                     PROVE  /\ 1 \in DOMAIN reviews'[r]
                            /\ advice[r].attempt <= runs'[r].attempt
                            /\ advice[r].attempt # runs'[r].attempt
            BY <1>1, <2>3 DEF Settled, NoAdvice
        <3>1. 1 \in DOMAIN reviews[r] /\ advice[r].attempt <= runs[r].attempt
            BY <2>1, <2>3 DEF Settled
        <3>2. runs[r].attempt \in Nat /\ advice[r].attempt \in Nat
            BY AttemptsAreNumbers
        <3>3. /\ advice[r].attempt <= runs'[r].attempt
              /\ advice[r].attempt # runs'[r].attempt
            BY <1>4, <3>1, <3>2
        <3> QED
            BY <1>5, <3>1, <3>3
    <2> QED
        BY <2>2, <2>3
<1>8. ASSUME observer # IdleObserver PROVE Observed(observer.request)'
    <2> DEFINE q == observer.request
    <2>1. q \in DOMAIN requests /\ Observed(q) /\ Settled(q) /\ observer.attempt \in Nat
        BY <1>8 DEF JInv, IInv, Typed, AdviceInv, AnyObserver
    <2>2. CASE q # r
        BY <1>1, <1>6, <2>1, <2>2 DEF Observed, Said, NoAdvice
    <2>3. CASE q = r
        <3>1. observer.attempt <= runs'[r].attempt /\ observer.attempt # runs'[r].attempt
            BY <1>4, <2>1, <2>3, AttemptsAreNumbers DEF Observed
        <3>2. ASSUME advice[r] # NoAdvice, advice[r].attempt = observer.attempt
              PROVE  advice[r] = [attempt |-> observer.attempt,
                       action |-> StepFor(requests[r].package.stage, observer.success,
                                          reviews'[r][1]).action,
                       next |-> StepFor(requests[r].package.stage, observer.success,
                                        reviews'[r][1]).next]
            <4>1. reviews'[r][1] = reviews[r][1]
                BY <1>5, <2>1, <2>3, <3>2 DEF Settled
            <4>2. advice[r] = Said(r, observer)
                BY <2>1, <2>3, <3>2 DEF Observed
            <4> QED
                BY <4>1, <4>2 DEF Said
        <3>3. /\ observer' = observer /\ advice' = advice /\ requests' = requests
              /\ q = r /\ observer'.request = r
            BY <1>1, <2>3
        <3> HIDE DEF q
        <3>4. Observed(r)'
            BY <3>1, <3>2, <3>3 DEF Observed, Said, NoAdvice
        <3> QED
            BY <3>3, <3>4 DEF q
    <2> QED
        BY <2>2, <2>3
<1> QED
    BY <1>1, <1>7, <1>8 DEF AdviceInv, JInv, OnePerPackage, IdleObserver

LEMMA ObserveEventAdvice ==
  ASSUME JInv, NEW r \in DOMAIN requests, NEW attempt \in Attempts,
         ObserveEvent(r, attempt)
  PROVE  AdviceInv'
<1>1. /\ observer' = [pc |-> "verdict", request |-> r, attempt |-> runs[r].attempt,
                      success |-> runs[r].success]
      /\ UNCHANGED <<requests, runs, reviews, advice>>
    BY DEF ObserveEvent, Completed, reviewVars
<1>2. /\ observer'.request = r /\ observer'.attempt = runs[r].attempt
      /\ observer'.success = runs[r].success
    BY <1>1
<1>3. ASSUME NEW q \in DOMAIN requests PROVE Settled(q)'
    <2>1. Settled(q)
        BY DEF JInv, AdviceInv
    <2> QED
        BY <1>1, <2>1 DEF Settled, Said, NoAdvice
<1>4. Observed(observer.request)'
    <2>1. Settled(r)
        BY DEF JInv, AdviceInv
    <2>2. runs[r].attempt \in Nat
        BY AttemptsAreNumbers
    <2>3. ASSUME advice[r] # NoAdvice, advice[r].attempt = runs[r].attempt
          PROVE  advice[r] = Said(r, runs[r])
        BY <2>1, <2>3 DEF Settled
    <2> QED
        BY <1>1, <1>2, <2>2, <2>3 DEF Observed, Said, NoAdvice
<1> QED
    BY <1>1, <1>3, <1>4 DEF AdviceInv, JInv, OnePerPackage

LEMMA ReadVerdictAdvice ==
  ASSUME JInv, observer # IdleObserver, ReadVerdict(observer.request)
  PROVE  /\ AdviceInv'
         /\ \A r \in DOMAIN requests :
              advice[r] # NoAdvice /\ advice'[r].attempt = advice[r].attempt
                => advice'[r] = advice[r]
<1> DEFINE r == observer.request
<1>1. /\ r \in DOMAIN requests /\ Observed(r)
      /\ observer' = IdleObserver /\ UNCHANGED <<requests, runs, reviews>>
      /\ DOMAIN advice = DOMAIN requests
    BY DEF JInv, IInv, Typed, AdviceInv, ReadVerdict, reviewVars
<1>2. CASE UNCHANGED advice
    BY <1>1, <1>2, StillAdvice
<1>3. CASE /\ advice' = [advice EXCEPT ![r] = Said(r, observer)]
           /\ 1 \in DOMAIN reviews[r]
    <2> DEFINE said == Said(r, observer)
    <2>1. /\ advice'[r] = said /\ said.attempt = observer.attempt
          /\ \A q \in DOMAIN requests : q # r => advice'[q] = advice[q]
        BY <1>1, <1>3 DEF Said
    <2>2. ASSUME NEW q \in DOMAIN requests PROVE Settled(q)'
        <3>1. Settled(q)
            BY DEF JInv, AdviceInv
        <3>2. CASE q # r
            BY <1>1, <2>1, <3>1, <3>2 DEF Settled, Said, NoAdvice
        <3>3. CASE q = r
            <4>1. said.attempt <= runs[r].attempt
                BY <1>1, <2>1 DEF Observed
            <4>2. ASSUME said.attempt = runs[r].attempt PROVE said = Said(r, runs[r])
                <5>1. /\ observer.attempt = runs[r].attempt
                      /\ observer.success = runs[r].success
                    BY <1>1, <2>1, <4>2 DEF Observed
                <5> QED
                    BY <5>1 DEF Said
            <4>3. Said(r, runs[r]) = [attempt |-> runs'[r].attempt,
                       action |-> StepFor(requests'[r].package.stage, runs'[r].success,
                                          reviews'[r][1]).action,
                       next |-> StepFor(requests'[r].package.stage, runs'[r].success,
                                        reviews'[r][1]).next]
                BY <1>1 DEF Said
            <4> HIDE DEF said
            <4> QED
                BY <1>1, <1>3, <2>1, <3>3, <4>1, <4>2, <4>3 DEF Settled, Said
        <3> QED
            BY <3>2, <3>3
    <2>3. ASSUME NEW q \in DOMAIN requests, advice[q] # NoAdvice,
                 advice'[q].attempt = advice[q].attempt
          PROVE  advice'[q] = advice[q]
        <3>1. CASE q # r
            BY <2>1, <3>1
        <3>2. CASE q = r
            BY <1>1, <2>1, <2>3, <3>2 DEF Observed
        <3> QED
            BY <3>1, <3>2
    <2> QED
        BY <1>1, <2>2, <2>3 DEF AdviceInv, JInv, OnePerPackage, IdleObserver
<1>4. ASSUME NEW text \in ReviewsSeen(r),
             advice' = [advice EXCEPT ![r] =
               [attempt |-> observer.attempt,
                action |-> StepFor(requests[r].package.stage, observer.success, text).action,
                next |-> StepFor(requests[r].package.stage, observer.success, text).next]]
      PROVE  /\ advice' = [advice EXCEPT ![r] = Said(r, observer)]
             /\ 1 \in DOMAIN reviews[r]
    <2>1. text = reviews[r][1] /\ 1 \in DOMAIN reviews[r]
        BY <1>1, SeenIsFirst
    <2> QED
        BY <1>4, <2>1 DEF Said
<1> QED
    BY <1>2, <1>3, <1>4 DEF ReadVerdict, r

LEMMA InitAdvice == Init => JInv
<1> SUFFICES ASSUME Init PROVE JInv
    OBVIOUS
<1>1. DOMAIN requests = {} /\ observer = IdleObserver
    BY DEF Init
<1> QED
    BY <1>1, InitInv DEF JInv, AdviceInv, OnePerPackage

(* One step: the invariant stays, and so does what was said of an attempt. *)
LEMMA StepAdvice ==
  ASSUME JInv, [Next]_vars
  PROVE  /\ AdviceInv'
         /\ \A r \in DOMAIN requests :
              advice[r] # NoAdvice /\ advice'[r].attempt = advice[r].attempt
                => advice'[r] = advice[r]
<1>1. CASE CandidateChanges
    BY <1>1, StillAdvice DEF CandidateChanges, reviewVars
<1>2. ASSUME NEW b \in builder, BuildStage(b.chain, b.stage)
      PROVE  AdviceInv' /\ \A r \in DOMAIN requests : advice'[r] = advice[r]
    BY <1>2, DispatchAdvice DEF BuildStage
<1>3. CASE BuilderStops
    BY <1>3, StillAdvice DEF BuilderStops, reviewVars
<1>4. ASSUME NEW run \in ChainRuns, NEW stage \in Stages, StartStage(run, stage)
      PROVE  AdviceInv' /\ advice' = advice
    BY <1>4, StillAdvice DEF StartStage, reviewVars
<1>5. ASSUME NEW d \in drafts,
             \E review \in d.review : OrdinaryPackage(d, review.stage, review.freeze)
      PROVE  AdviceInv' /\ \A r \in DOMAIN requests : advice'[r] = advice[r]
    BY <1>5, DispatchAdvice DEF OrdinaryPackage
<1>6. ASSUME NEW r \in DOMAIN requests, NEW end \in Ends, ReviewEnds(r, end)
      PROVE  AdviceInv' /\ advice' = advice
    BY <1>6, ReviewEndsAdvice DEF ReviewEnds
<1>7. ASSUME NEW r \in DOMAIN requests, NEW attempt \in Attempts,
             ObserveEvent(r, attempt)
      PROVE  AdviceInv' /\ advice' = advice
    BY <1>7, ObserveEventAdvice DEF ObserveEvent
<1>8. CASE observer # IdleObserver /\ ReadVerdict(observer.request)
    BY <1>8, ReadVerdictAdvice
<1>9. CASE UNCHANGED vars
    BY <1>9, StillAdvice DEF vars, reviewVars
<1>10. ASSUME \/ \E run \in OrdinaryRuns : Collects(run)
              \/ \E d \in drafts : DraftStops(d) \/ \E stage \in Stages : ResolvesFreeze(d, stage)
       PROVE  AdviceInv' /\ advice' = advice
    BY <1>10, StillAdvice DEF Collects, DraftStops, ResolvesFreeze, reviewVars
<1> QED
    BY <1>1, <1>2, <1>3, <1>4, <1>5, <1>6, <1>7, <1>8, <1>9, <1>10 DEF Next

(* However often a completion is observed, and however late, the same is   *)
(* said of it: run() of observe_completion_shadow.py reads the verdict of  *)
(* the run after its event, and a person may have run the review again in  *)
(* between.                                                                *)
THEOREM SameAdvice == Spec => OneAdvicePerCompletion
<1>1. JInv /\ [Next]_vars => JInv'
    BY StepInv, StepAdvice DEF JInv
<1>2. JInv /\ [Next]_vars =>
        [\A r \in DOMAIN advice :
           advice[r] # NoAdvice /\ advice'[r].attempt = advice[r].attempt
              => advice'[r] = advice[r]]_vars
    <2>1. JInv => DOMAIN advice = DOMAIN requests
        BY DEF JInv, IInv, Typed
    <2> QED
        BY <2>1, StepAdvice
<1> QED
    BY <1>1, <1>2, InitAdvice, PTL DEF Spec, OneAdvicePerCompletion

-----------------------------------------------------------------------------
(* The types of the checked instance.  A run is only repeated while there  *)
(* are re-runs left, so no run has more attempts than all re-runs and one; *)
(* a run publishes at most one text in an attempt.                         *)
CandidateBounded ==
  /\ main + head <= MaxMoves
  /\ builtOn \in [0 .. head -> 0 .. main]
  /\ merge \in [base : 0 .. main, head : 0 .. head]
  /\ gates \subseteq Freeze

BuilderBounded == builder = {} \/ \E b \in [chain : Chain, stage : Stages] : builder = {b}

DraftsBounded ==
  /\ drafts \subseteq Draft
  /\ \A d, e \in drafts : d.run = e.run => d = e
  /\ \A d \in drafts : d.review = {} \/ \E x : d.review = {x}

RequestsBounded == \A r \in DOMAIN requests : requests[r] \in Request

(* The texts of a request, and the attempts that published them.           *)
Published(r) ==
  /\ runs[r].attempt <= MaxReruns + 1 /\ Len(reviews[r]) <= runs[r].attempt
  /\ \A k \in DOMAIN reviews[r] : \E end \in Ends : end.texts = <<reviews[r][k]>>

AttemptsBounded ==
  /\ \A r \in DOMAIN requests :
       Published(r) /\ (advice[r].attempt = 0 => advice[r] = NoAdvice)
  /\ observer # IdleObserver => observer.attempt > 0

Bounded ==
  /\ CandidateBounded /\ BuilderBounded /\ DraftsBounded
  /\ RequestsBounded /\ AttemptsBounded

(* The number of a run's attempts after its first is one of all re-runs.   *)
LEMMA RerunsCount ==
  ASSUME JInv, AttemptsBounded, NEW r \in DOMAIN requests, runs[r].attempt > 0
  PROVE  Reruns \in Nat /\ runs[r].attempt - 1 <= Reruns
<1> DEFINE all == {a \in (DOMAIN runs) \X Attempts : 1 < a[2] /\ a[2] <= runs[a[1]].attempt}
           mine == 2 .. runs[r].attempt
           f == [k \in mine |-> <<r, k>>]
<1>1. /\ runs \in Seq(AnyRun) /\ DOMAIN runs = 1 .. Len(runs) /\ Len(runs) \in Nat
      /\ r \in DOMAIN runs
    BY LenProperties DEF JInv, IInv, Typed
<1>2. runs[r].attempt \in Nat /\ runs[r].attempt <= MaxReruns + 1 /\ MaxReruns \in Nat
    BY AttemptsAreNumbers, ChainAssumption DEF AttemptsBounded, Published
<1>3. IsFiniteSet(all)
    <2>1. IsFiniteSet(DOMAIN runs) /\ IsFiniteSet(Attempts)
        BY <1>1, <1>2, FS_Interval DEF Attempts
    <2>2. IsFiniteSet((DOMAIN runs) \X Attempts)
        BY <2>1, FS_Product
    <2>3. all \subseteq (DOMAIN runs) \X Attempts
        OBVIOUS
    <2> HIDE DEF all
    <2> QED
        BY <2>2, <2>3, FS_Subset
<1>4. f \in Injection(mine, all)
    <2>1. \A k \in mine : <<r, k>> \in all
        BY <1>1, <1>2 DEF Attempts
    <2>2. \A j, k \in mine : <<r, j>> = <<r, k>> => j = k
        OBVIOUS
    <2> HIDE DEF all, mine
    <2>3. f \in [mine -> all] /\ \A j, k \in mine : f[j] = f[k] => j = k
        BY <2>1, <2>2
    <2> HIDE DEF f
    <2> QED
        BY <2>3 DEF Injection, IsInjective
<1>5. Cardinality(mine) <= Cardinality(all)
    <2> HIDE DEF all, mine, f
    <2> QED
        BY <1>3, <1>4, FS_Injection
<1>6. Cardinality(mine) = runs[r].attempt - 1
    <2> DEFINE n == runs[r].attempt
    <2>1. n \in Int /\ n > 0 /\ 2 \in Int
        BY <1>2
    <2> HIDE DEF n
    <2>2. Cardinality(2 .. n) = IF 2 > n THEN 0 ELSE n - 2 + 1
        BY <2>1, FS_Interval
    <2>3. Cardinality(2 .. n) = n - 1
        BY <2>1, <2>2
    <2> QED
        BY <2>3 DEF n
<1>7. Cardinality(all) \in Nat /\ Reruns = Cardinality(all)
    BY <1>3, FS_CardinalityType DEF Reruns
<1> QED
    BY <1>5, <1>6, <1>7

(* At most one element is added: the others are those that were there.     *)
LEMMA OneMore ==
  ASSUME NEW S, NEW s \in Seq(S), NEW t \in Seq(S), Len(t) <= 1
  PROVE  /\ Len(s \o t) <= Len(s) + 1
         /\ \A k \in DOMAIN (s \o t) :
              \/ k \in DOMAIN s /\ (s \o t)[k] = s[k]
              \/ t = <<(s \o t)[k]>>
<1> DEFINE u == s \o t
<1>1. /\ u \in Seq(S) /\ Len(u) = Len(s) + Len(t)
      /\ \A i \in 1 .. Len(s) + Len(t) :
           u[i] = IF i <= Len(s) THEN s[i] ELSE t[i - Len(s)]
    BY ConcatProperties
<1>2. /\ Len(s) \in Nat /\ Len(t) \in Nat /\ DOMAIN u = 1 .. Len(u)
      /\ DOMAIN s = 1 .. Len(s) /\ DOMAIN t = 1 .. Len(t)
    BY <1>1, LenProperties
<1> HIDE DEF u
<1>3. ASSUME NEW k \in DOMAIN u, k \notin DOMAIN s PROVE t = <<u[k]>>
    <2>1. Len(t) = 1 /\ k = Len(s) + 1
        BY <1>1, <1>2, <1>3
    <2>2. u[k] = t[1]
        BY <1>1, <1>2, <2>1
    <2>3. t = <<t[1]>>
        BY <2>1
    <2> QED
        BY <2>2, <2>3
<1>4. \A k \in DOMAIN s : u[k] = s[k]
    BY <1>1, <1>2
<1>5. Len(u) <= Len(s) + 1
    BY <1>1, <1>2
<1>6. \A k \in DOMAIN u : (k \in DOMAIN s /\ u[k] = s[k]) \/ t = <<u[k]>>
    BY <1>3, <1>4
<1> QED
    BY <1>5, <1>6 DEF u

LEMMA LiveInBounds ==
  ASSUME Typed, CandidateBounded
  PROVE  main \in Mains /\ head \in Heads /\ merge \in Freeze
<1>1. main \in Nat /\ head \in Nat /\ MaxMoves \in Nat /\ main + head <= MaxMoves
    BY ChainAssumption DEF Typed, CandidateBounded
<1>2. main <= MaxMoves /\ head <= MaxMoves
    BY <1>1
<1>3. 0 .. main \subseteq Mains /\ 0 .. head \subseteq Heads
    BY <1>1, <1>2 DEF Mains, Heads
<1>4. merge \in Freeze
    BY <1>3 DEF CandidateBounded, Freeze
<1> QED
    BY <1>1, <1>2, <1>4 DEF Mains, Heads

LEMMA CandidateStep ==
  ASSUME JInv, Bounded, CandidateChanges
  PROVE  Bounded'
<1>1. /\ main \in Nat /\ head \in Nat /\ MaxMoves \in Nat /\ CandidateBounded
      /\ merge \in Freeze
    BY ChainAssumption, LiveInBounds DEF JInv, IInv, Typed, Bounded
<1>2. UNCHANGED <<builder, drafts, requests, runs, reviews, observer, advice>>
    BY DEF CandidateChanges, reviewVars
<1>3. BuilderBounded' /\ DraftsBounded' /\ RequestsBounded' /\ AttemptsBounded'
    <2>1. BuilderBounded' /\ DraftsBounded' /\ RequestsBounded'
        BY <1>2 DEF Bounded, BuilderBounded, DraftsBounded, RequestsBounded
    <2>2. AttemptsBounded'
        BY <1>2 DEF Bounded, AttemptsBounded, Published, NoAdvice, IdleObserver
    <2> QED
        BY <2>1, <2>2
<1>4. CASE Pushes
    <2>1. /\ main + head' <= MaxMoves /\ head' = head + 1 /\ UNCHANGED <<main, merge, gates>>
        BY <1>1, <1>4 DEF Pushes
    <2>2. builtOn' \in [0 .. head' -> 0 .. main']
        <3>1. \A h \in 0 .. head + 1 : ~(h <= head) => main \in 0 .. main
            BY <1>1
        <3>2. \A h \in 0 .. head + 1 : h <= head => builtOn[h] \in 0 .. main
            BY <1>1 DEF CandidateBounded
        <3> QED
            BY <1>4, <2>1, <3>1, <3>2 DEF Pushes
    <2>3. 0 .. head \subseteq 0 .. head'
        BY <1>1, <2>1
    <2>4. merge' \in [base : 0 .. main', head : 0 .. head']
        BY <1>1, <2>1, <2>3 DEF CandidateBounded
    <2>5. CandidateBounded'
        BY <1>1, <2>1, <2>2, <2>4 DEF CandidateBounded
    <2> QED
        BY <1>3, <2>5 DEF Bounded
<1>5. CASE MainMoves
    <2>1. /\ main' + head <= MaxMoves /\ main' = main + 1
          /\ UNCHANGED <<head, builtOn, merge, gates>>
        BY <1>1, <1>5 DEF MainMoves
    <2>2. 0 .. main \subseteq 0 .. main'
        BY <1>1, <2>1
    <2>3. CandidateBounded'
        BY <1>1, <2>1, <2>2 DEF CandidateBounded
    <2> QED
        BY <1>3, <2>3 DEF Bounded
<1>6. CASE Recomputes \/ GatePasses
    <2>1. UNCHANGED <<main, head, builtOn>>
        BY <1>6 DEF Recomputes, GatePasses
    <2>2. merge' \in [base : 0 .. main, head : 0 .. head]
        BY <1>1, <1>6 DEF Recomputes, GatePasses, CandidateBounded
    <2>3. gates' \subseteq Freeze
        BY <1>1, <1>6 DEF Recomputes, GatePasses, CandidateBounded
    <2>4. CandidateBounded'
        BY <1>1, <2>1, <2>2, <2>3 DEF CandidateBounded
    <2> QED
        BY <1>3, <2>4 DEF Bounded
<1> QED
    BY <1>4, <1>5, <1>6 DEF CandidateChanges

(* The steps that touch neither the candidate nor the reviews.             *)
LEMMA QuietStep ==
  ASSUME Bounded, UNCHANGED <<candidateVars, requests, runs, reviews, advice>>,
         BuilderBounded', DraftsBounded',
         observer' # IdleObserver => observer'.attempt > 0
  PROVE  Bounded'
<1>1. CandidateBounded' /\ RequestsBounded'
    BY DEF Bounded, CandidateBounded, RequestsBounded, candidateVars
<1>2. AttemptsBounded'
    BY DEF Bounded, AttemptsBounded, Published, NoAdvice, IdleObserver
<1> QED
    BY <1>1, <1>2 DEF Bounded

LEMMA StartStageStep ==
  ASSUME JInv, Bounded, NEW run \in ChainRuns, NEW stage \in Stages, StartStage(run, stage)
  PROVE  Bounded'
<1>1. merge \in Freeze
    BY LiveInBounds DEF JInv, IInv, Bounded
<1>2. [chain |-> [run |-> run, freeze |-> merge], stage |-> stage]
        \in [chain : Chain, stage : Stages]
    BY <1>1 DEF Chain
<1>3. BuilderBounded' /\ DraftsBounded'
    BY <1>2 DEF StartStage, BuilderBounded, DraftsBounded, Bounded
<1> QED
    BY <1>3, QuietStep DEF StartStage, reviewVars, Bounded, AttemptsBounded, IdleObserver

LEMMA ObserveEventStep ==
  ASSUME JInv, Bounded, NEW r \in DOMAIN requests, NEW attempt \in Attempts,
         ObserveEvent(r, attempt)
  PROVE  Bounded'
<1>1. observer'.attempt > 0
    BY DEF ObserveEvent, Completed
<1>2. BuilderBounded' /\ DraftsBounded'
    BY DEF ObserveEvent, Bounded, BuilderBounded, DraftsBounded
<1> QED
    BY <1>1, <1>2, QuietStep DEF ObserveEvent, reviewVars

LEMMA DispatchStep ==
  ASSUME JInv, Bounded, NEW request \in Request, Dispatch(request),
         UNCHANGED <<candidateVars, observer>>, BuilderBounded', drafts' \subseteq drafts
  PROVE  Bounded'
<1> DEFINE new == Len(requests) + 1
           run == [attempt |-> 0, success |-> FALSE]
<1>1. /\ requests \in Seq(AnyRequest) /\ reviews \in Seq(Texts)
      /\ Len(reviews) = Len(requests) /\ Len(advice) = Len(requests)
      /\ runs \in Seq(AnyRun) /\ Len(runs) = Len(requests)
      /\ Len(requests) \in Nat /\ advice \in Seq(AnyAdvice)
      /\ DOMAIN requests = 1 .. Len(requests)
    BY LenProperties DEF JInv, IInv, Typed
<1>2. /\ DOMAIN requests' = 1 .. new /\ requests'[new] = request
      /\ advice'[new] = NoAdvice /\ runs'[new] = run /\ reviews'[new] = << >>
      /\ \A r \in DOMAIN requests :
            /\ requests'[r] = requests[r] /\ reviews'[r] = reviews[r]
            /\ runs'[r] = runs[r] /\ advice'[r] = advice[r]
    BY <1>1 DEF Dispatch
<1>3. \A r \in DOMAIN requests' : r \in DOMAIN requests \/ r = new
    BY <1>1, <1>2
<1>4. run.attempt = 0
    OBVIOUS
<1> HIDE DEF new, run
<1>5. CandidateBounded'
    BY DEF Bounded, CandidateBounded, candidateVars
<1>6. RequestsBounded'
    BY <1>2, <1>3 DEF Bounded, RequestsBounded
<1>7. ASSUME NEW r \in DOMAIN requests'
      PROVE  Published(r)' /\ (advice'[r].attempt = 0 => advice'[r] = NoAdvice)
    <2>1. CASE r \in DOMAIN requests
        BY <1>2, <2>1 DEF Bounded, AttemptsBounded, Published, NoAdvice
    <2>2. CASE r = new
        BY <1>2, <1>4, <2>2, ChainAssumption DEF Published
    <2> QED
        BY <1>3, <2>1, <2>2
<1>8. AttemptsBounded'
    BY <1>7 DEF Bounded, AttemptsBounded, NoAdvice, IdleObserver
<1>9. DraftsBounded'
    BY DEF Bounded, DraftsBounded
<1> QED
    BY <1>5, <1>6, <1>8, <1>9 DEF Bounded

LEMMA BuildStageStep ==
  ASSUME JInv, Bounded, NEW b \in builder, BuildStage(b.chain, b.stage)
  PROVE  Bounded'
<1> DEFINE request == [package |-> StagePackage(b.chain, b.stage),
                       freeze |-> b.chain.freeze, marker |-> {b.chain}]
<1>1. b.chain \in Chain /\ b.stage \in Stages
    BY DEF Bounded, BuilderBounded
<1>2. request \in Request
    BY <1>1 DEF Request, Package, Chain, Freeze, StagePackage
<1>3. /\ Dispatch(request) /\ UNCHANGED <<candidateVars, drafts, observer>> /\ builder' = {}
    BY DEF BuildStage
<1> HIDE DEF request
<1> QED
    BY <1>2, <1>3, DispatchStep DEF BuilderBounded

LEMMA OrdinaryPackageStep ==
  ASSUME JInv, Bounded, NEW d \in drafts, NEW review \in d.review,
         OrdinaryPackage(d, review.stage, review.freeze)
  PROVE  Bounded'
<1> DEFINE request == [package |-> [main |-> d.seen.main, stage |-> review.stage,
                                    run |-> d.run],
                       freeze |-> review.freeze, marker |-> {}]
<1>1. /\ d.run \in OrdinaryRuns /\ d.seen.main \in Mains
      /\ review.stage \in Stages /\ review.freeze \in Freeze
    BY DEF Bounded, DraftsBounded, Draft, Snapshot
<1>2. request \in Request
    BY <1>1 DEF Request, Package
<1>3. /\ Dispatch(request) /\ UNCHANGED <<candidateVars, builder, observer>>
      /\ drafts' \subseteq drafts
    BY DEF OrdinaryPackage
<1> HIDE DEF request
<1> QED
    BY <1>2, <1>3, DispatchStep DEF Bounded, BuilderBounded

LEMMA CollectsStep ==
  ASSUME JInv, Bounded, NEW run \in OrdinaryRuns, Collects(run)
  PROVE  Bounded'
<1>1. merge \in Freeze /\ main \in Mains
    BY LiveInBounds DEF JInv, IInv, Bounded
<1>2. Summaries \subseteq Freeze /\ ExpertHeads \subseteq Heads
    BY DEF Bounded, RequestsBounded, Summaries, ExpertHeads, Request, Freeze
<1>3. PICK then \in 0 .. main :
        drafts' = drafts \cup
          {[run |-> run, review |-> {},
            seen |-> [main |-> then, pull |-> merge, summaries |-> Summaries,
                      experts |-> ExpertHeads]]}
    BY DEF Collects
<1> DEFINE seen == [main |-> then, pull |-> merge, summaries |-> Summaries,
                    experts |-> ExpertHeads]
           new == [run |-> run, review |-> {}, seen |-> seen]
<1>4. then \in Mains
    BY <1>1, ChainAssumption DEF Mains
<1>5. seen \in Snapshot
    BY <1>1, <1>2, <1>4 DEF Snapshot
<1>6. drafts' = drafts \cup {new}
    BY <1>3
<1> HIDE DEF seen
<1>7. new \in Draft /\ new.run = run /\ new.review = {}
    BY <1>5 DEF Draft
<1> HIDE DEF new
<1>8. DraftsBounded'
    BY <1>6, <1>7 DEF Collects, Bounded, DraftsBounded
<1>9. BuilderBounded'
    BY DEF Collects, Bounded, BuilderBounded
<1> QED
    BY <1>8, <1>9, QuietStep DEF Collects, reviewVars, Bounded, AttemptsBounded, IdleObserver

LEMMA ResolvesFreezeStep ==
  ASSUME JInv, Bounded, NEW d \in drafts, NEW stage \in Stages, ResolvesFreeze(d, stage)
  PROVE  Bounded'
<1> DEFINE review == [stage |-> stage, freeze |-> merge]
           new == [d EXCEPT !.review = {review}]
<1>1. merge \in Freeze
    BY LiveInBounds DEF JInv, IInv, Bounded
<1>2. review \in [stage : Stages, freeze : Freeze] /\ d \in Draft
    BY <1>1 DEF Bounded, DraftsBounded
<1>3. drafts' = (drafts \ {d}) \cup {new}
    BY DEF ResolvesFreeze
<1> HIDE DEF review
<1>4. new \in Draft /\ new.run = d.run /\ new.review = {review}
    BY <1>2 DEF Draft
<1> HIDE DEF new
<1>5. DraftsBounded'
    BY <1>3, <1>4 DEF Bounded, DraftsBounded
<1>6. BuilderBounded'
    BY DEF ResolvesFreeze, Bounded, BuilderBounded
<1> QED
    BY <1>5, <1>6, QuietStep DEF ResolvesFreeze, reviewVars, Bounded, AttemptsBounded, IdleObserver

LEMMA DraftStopsStep ==
  ASSUME JInv, Bounded, NEW d \in drafts, DraftStops(d)
  PROVE  Bounded'
<1>1. DraftsBounded' /\ BuilderBounded'
    BY DEF DraftStops, Bounded, DraftsBounded, BuilderBounded
<1> QED
    BY <1>1, QuietStep DEF DraftStops, reviewVars, Bounded, AttemptsBounded, IdleObserver

(* An attempt publishes at most one text, which is one of its end.         *)
LEMMA ReviewEndsStep ==
  ASSUME JInv, Bounded, NEW r \in DOMAIN requests, NEW end \in Ends, ReviewEnds(r, end)
  PROVE  Bounded'
<1>1. /\ UNCHANGED <<candidateVars, builder, drafts, requests, observer, advice>>
      /\ reviews' = [reviews EXCEPT ![r] = @ \o end.texts]
      /\ runs' = [runs EXCEPT ![r] = [attempt |-> @.attempt + 1, success |-> end.success]]
    BY DEF ReviewEnds
<1>2. /\ reviews \in Seq(Texts) /\ DOMAIN requests = 1 .. Len(requests)
      /\ Len(reviews) = Len(requests) /\ Len(runs) = Len(requests) /\ runs \in Seq(AnyRun)
      /\ end.texts \in Seq(SUBSET STRING) /\ Len(end.texts) <= 1
    BY ChainAssumption DEF JInv, IInv, Typed
<1>3. /\ DOMAIN reviews = DOMAIN requests /\ DOMAIN runs = DOMAIN requests
      /\ reviews[r] \in Seq(SUBSET STRING) /\ runs[r].attempt \in Nat
    BY <1>2, ElementOfSeq, AttemptsAreNumbers DEF Texts
<1>4. /\ runs'[r].attempt = runs[r].attempt + 1
      /\ \A q \in DOMAIN requests : q # r => reviews'[q] = reviews[q] /\ runs'[q] = runs[q]
    BY <1>1, <1>3
<1>5. runs'[r].attempt <= MaxReruns + 1
    <2>1. CASE runs[r].attempt > 0
        <3>1. Reruns < MaxReruns
            BY <2>1 DEF ReviewEnds
        <3>2. Reruns \in Nat /\ runs[r].attempt - 1 <= Reruns
            BY <2>1, RerunsCount DEF Bounded
        <3> QED
            BY <1>3, <1>4, <3>1, <3>2, ChainAssumption
    <2>2. CASE runs[r].attempt = 0
        BY <1>4, <2>2, ChainAssumption
    <2> QED
        BY <1>3, <2>1, <2>2
<1>6. /\ Len(reviews'[r]) <= runs'[r].attempt
      /\ \A k \in DOMAIN reviews'[r] : \E e \in Ends : e.texts = <<reviews'[r][k]>>
    <2> DEFINE s == reviews[r]
               t == end.texts
               u == s \o t
    <2>1. s \in Seq(SUBSET STRING) /\ t \in Seq(SUBSET STRING) /\ Len(t) <= 1
        BY <1>2, <1>3
    <2>2. reviews'[r] = u
        BY <1>1, <1>3
    <2>3. /\ Len(s) <= runs[r].attempt /\ Len(s) \in Nat
          /\ \A k \in DOMAIN s : \E e \in Ends : e.texts = <<s[k]>>
        BY <2>1, LenProperties DEF Bounded, AttemptsBounded, Published
    <2>4. u \in Seq(SUBSET STRING)
        BY <2>1, ConcatProperties
    <2>5. t = end.texts
        OBVIOUS
    <2> HIDE DEF s, t
    <2>6. /\ Len(u) <= Len(s) + 1
          /\ \A k \in DOMAIN u : (k \in DOMAIN s /\ u[k] = s[k]) \/ t = <<u[k]>>
        BY <2>1, OneMore
    <2>7. Len(u) \in Nat
        BY <2>4, LenProperties
    <2> HIDE DEF u
    <2>8. Len(u) <= runs[r].attempt + 1
        BY <1>3, <2>3, <2>6, <2>7
    <2>9. \A k \in DOMAIN u : \E e \in Ends : e.texts = <<u[k]>>
        BY <2>3, <2>5, <2>6
    <2> QED
        BY <1>4, <2>2, <2>8, <2>9
<1>7. ASSUME NEW q \in DOMAIN requests
      PROVE  Published(q)' /\ (advice'[q].attempt = 0 => advice'[q] = NoAdvice)
    <2>1. advice'[q].attempt = 0 => advice'[q] = NoAdvice
        BY <1>1 DEF Bounded, AttemptsBounded
    <2>2. CASE q # r
        BY <1>4, <2>1, <2>2 DEF Bounded, AttemptsBounded, Published
    <2>3. CASE q = r
        BY <1>5, <1>6, <2>1, <2>3 DEF Published
    <2> QED
        BY <2>2, <2>3
<1>8. AttemptsBounded'
    BY <1>1, <1>7 DEF Bounded, AttemptsBounded, NoAdvice, IdleObserver
<1>9. CandidateBounded' /\ BuilderBounded' /\ DraftsBounded' /\ RequestsBounded'
    BY <1>1 DEF Bounded, CandidateBounded, BuilderBounded, DraftsBounded, RequestsBounded,
       candidateVars
<1> QED
    BY <1>8, <1>9 DEF Bounded

LEMMA ReadVerdictStep ==
  ASSUME JInv, Bounded, observer # IdleObserver, ReadVerdict(observer.request)
  PROVE  Bounded'
<1> DEFINE r == observer.request
<1>1. /\ UNCHANGED <<candidateVars, builder, drafts, requests, runs, reviews>>
      /\ observer' = IdleObserver /\ DOMAIN advice = DOMAIN requests
      /\ observer.attempt > 0
    BY DEF ReadVerdict, reviewVars, JInv, IInv, Typed, Bounded, AttemptsBounded
<1>2. \A q \in DOMAIN requests : advice'[q] = advice[q] \/ advice'[q].attempt = observer.attempt
    <2>1. \/ UNCHANGED advice
          \/ \E a, n : advice' = [advice EXCEPT ![r] = [attempt |-> observer.attempt,
                                                       action |-> a, next |-> n]]
        BY DEF ReadVerdict
    <2> HIDE DEF r
    <2> QED
        BY <1>1, <2>1
<1>3. observer.attempt # 0
    BY <1>1 DEF JInv, IInv, Typed, AnyObserver
<1>4. AttemptsBounded'
    BY <1>1, <1>2, <1>3 DEF Bounded, AttemptsBounded, Published, NoAdvice, IdleObserver
<1>5. CandidateBounded' /\ BuilderBounded' /\ DraftsBounded' /\ RequestsBounded'
    BY <1>1 DEF Bounded, CandidateBounded, BuilderBounded, DraftsBounded, RequestsBounded,
       candidateVars
<1> QED
    BY <1>4, <1>5 DEF Bounded

LEMMA InitBounded == Init => Bounded
<1> SUFFICES ASSUME Init PROVE Bounded
    OBVIOUS
<1>1. /\ main = 0 /\ head = 0 /\ builtOn = [h \in {0} |-> 0] /\ gates = {} /\ builder = {}
      /\ drafts = {}
      /\ merge = [base |-> 0, head |-> 0] /\ DOMAIN requests = {} /\ observer = IdleObserver
    BY DEF Init
<1>2. 0 .. 0 = {0}
    OBVIOUS
<1>3. CandidateBounded
    BY <1>1, <1>2, ChainAssumption DEF CandidateBounded
<1>4. BuilderBounded /\ DraftsBounded /\ RequestsBounded /\ AttemptsBounded
    BY <1>1 DEF BuilderBounded, DraftsBounded, RequestsBounded, AttemptsBounded
<1> QED
    BY <1>3, <1>4 DEF Bounded

LEMMA StepBounded == JInv /\ Bounded /\ [Next]_vars => Bounded'
<1> SUFFICES ASSUME JInv, Bounded, [Next]_vars PROVE Bounded'
    OBVIOUS
<1>1. CASE BuilderStops
    BY <1>1, QuietStep DEF BuilderStops, BuilderBounded, DraftsBounded, reviewVars, Bounded, AttemptsBounded,
       IdleObserver
<1>2. CASE UNCHANGED vars
    BY <1>2, QuietStep DEF vars, BuilderBounded, DraftsBounded, reviewVars, Bounded, AttemptsBounded,
       IdleObserver
<1> QED
    BY <1>1, <1>2, CandidateStep, StartStageStep, BuildStageStep, OrdinaryPackageStep,
       CollectsStep, ResolvesFreezeStep, DraftStopsStep, ReviewEndsStep, ObserveEventStep,
       ReadVerdictStep DEF Next

LEMMA BoundedTypes == JInv /\ Bounded => TypeOK
<1> SUFFICES ASSUME JInv, Bounded PROVE TypeOK
    OBVIOUS
<1>1. /\ DOMAIN requests = 1 .. Len(requests) /\ Len(requests) \in Nat
      /\ requests \in Seq(AnyRequest)
      /\ runs \in Seq(AnyRun) /\ Len(runs) = Len(requests)
      /\ advice \in Seq(AnyAdvice) /\ Len(advice) = Len(requests)
    BY LenProperties DEF JInv, IInv, Typed
<1>2. /\ main \in Mains /\ head \in Heads /\ builtOn \in [0 .. head -> 0 .. main]
      /\ merge \in [base : 0 .. main, head : 0 .. head] /\ gates \subseteq Freeze
    BY LiveInBounds DEF JInv, IInv, Bounded, CandidateBounded
<1>3. Cardinality(builder) <= 1 /\ builder \subseteq [chain : Chain, stage : Stages]
    <2>1. CASE builder = {}
        BY <2>1, FS_EmptySet
    <2>2. ASSUME NEW b \in [chain : Chain, stage : Stages], builder = {b}
          PROVE  Cardinality(builder) <= 1 /\ builder \subseteq [chain : Chain, stage : Stages]
        <3>1. Cardinality({b}) = 1
            BY FS_Singleton
        <3> QED
            BY <2>2, <3>1
    <2> QED
        BY <2>1, <2>2 DEF Bounded, BuilderBounded
<1>10. /\ drafts \subseteq Draft /\ \A d, e \in drafts : d.run = e.run => d = e
       /\ \A d \in drafts : Cardinality(d.review) <= 1
    <2>1. ASSUME NEW d \in drafts PROVE Cardinality(d.review) <= 1
        <3>1. CASE d.review = {}
            <4>1. Cardinality({}) = 0
                BY FS_EmptySet
            <4> QED
                BY <3>1, <4>1
        <3>2. ASSUME NEW x, d.review = {x} PROVE Cardinality(d.review) <= 1
            <4>1. Cardinality({x}) = 1
                BY FS_Singleton
            <4> QED
                BY <3>2, <4>1
        <3> QED
            BY <3>1, <3>2 DEF Bounded, DraftsBounded
    <2> QED
        BY <2>1 DEF Bounded, DraftsBounded
<1>4. requests \in Seq(Request)
    <2>1. \A r \in 1 .. Len(requests) : requests[r] \in Request
        BY <1>1 DEF Bounded, RequestsBounded
    <2>2. requests = [r \in 1 .. Len(requests) |-> requests[r]]
        BY <1>1
    <2>3. [r \in 1 .. Len(requests) |-> requests[r]] \in Seq(Request)
        BY <1>1, <2>1, IsASeq
    <2> QED
        BY <2>2, <2>3
<1>5. ASSUME NEW r \in DOMAIN requests
      PROVE  /\ runs[r] \in [attempt : Attempts, success : BOOLEAN]
             /\ runs[r].attempt \in Attempts /\ runs[r].attempt \in Nat
             /\ advice[r].attempt <= runs[r].attempt /\ advice[r] \in Advice
    <2>1. runs[r] \in AnyRun /\ advice[r] \in AnyAdvice
        BY <1>1, ElementOfSeq
    <2>2. runs[r].attempt \in Nat /\ advice[r].attempt \in Nat
        BY <2>1 DEF AnyRun, AnyAdvice
    <2>3. runs[r].attempt <= MaxReruns + 1
        BY DEF Bounded, AttemptsBounded, Published
    <2>4. advice[r].attempt <= runs[r].attempt
        <3>1. CASE advice[r] = NoAdvice
            BY <2>2, <3>1 DEF NoAdvice
        <3>2. CASE advice[r] # NoAdvice
            BY <3>2 DEF JInv, AdviceInv, Settled
        <3> QED
            BY <3>1, <3>2
    <2>5. runs[r].attempt \in Attempts /\ advice[r].attempt \in Attempts
        BY <2>2, <2>3, <2>4, ChainAssumption DEF Attempts
    <2> QED
        BY <2>1, <2>2, <2>4, <2>5 DEF AnyRun, AnyAdvice, Advice
<1>6. /\ runs \in [DOMAIN requests -> [attempt : Attempts, success : BOOLEAN]]
      /\ advice \in [DOMAIN requests -> Advice]
    <2>1. /\ runs = [r \in DOMAIN requests |-> runs[r]]
          /\ advice = [r \in DOMAIN requests |-> advice[r]]
        BY <1>1
    <2> QED
        BY <1>5, <2>1
<1>7. observer \in [pc : {"idle", "verdict"}, request : 0 .. Len(requests),
                    attempt : Attempts, success : BOOLEAN]
    <2>1. CASE observer = IdleObserver
        BY <1>1, <2>1, ChainAssumption DEF IdleObserver, Attempts
    <2>2. CASE observer # IdleObserver
        <3>1. /\ observer.request \in DOMAIN requests
              /\ observer.attempt <= runs[observer.request].attempt
            BY <2>2 DEF JInv, IInv, Typed, AdviceInv, Observed
        <3>2. /\ runs[observer.request].attempt \in Attempts /\ observer \in AnyObserver
              /\ runs[observer.request].attempt \in Nat
            BY <1>5, <3>1 DEF JInv, IInv, Typed
        <3>3. observer.attempt \in Attempts /\ observer.request \in 0 .. Len(requests)
            BY <1>1, <3>1, <3>2, ChainAssumption DEF Attempts, AnyObserver
        <3> QED
            BY <3>2, <3>3 DEF AnyObserver
    <2> QED
        BY <2>1, <2>2
<1>8. \A r, q \in DOMAIN requests : requests[r].package = requests[q].package => r = q
    BY DEF JInv, AdviceInv, OnePerPackage
<1>9. \A r \in DOMAIN requests :
        /\ \A k \in DOMAIN reviews[r] : \E end \in Ends : end.texts = <<reviews[r][k]>>
        /\ Len(reviews[r]) <= runs[r].attempt
        /\ advice[r].attempt = 0 => advice[r] = NoAdvice
    BY DEF Bounded, AttemptsBounded, Published
<1> QED
    BY <1>2, <1>3, <1>4, <1>5, <1>6, <1>7, <1>8, <1>9, <1>10 DEF TypeOK

(* Type correctness, with every bound: a package is given to a reviewer    *)
(* once, an attempt publishes at most one text, and the observer advises   *)
(* only on attempts that were made.                                        *)
THEOREM ChainTypes == Spec => []TypeOK
<1>1. JInv /\ [Next]_vars => JInv'
    BY StepInv, StepAdvice DEF JInv
<1>2. JInv /\ Bounded /\ [Next]_vars => Bounded'
    BY StepBounded
<1> QED
    BY <1>1, <1>2, InitAdvice, InitBounded, BoundedTypes, PTL DEF Spec
=============================================================================
