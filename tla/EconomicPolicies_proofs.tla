----------------------- MODULE EconomicPolicies_proofs -----------------------
(***************************************************************************)
(* What the decisions of the economic control plane guarantee for every    *)
(* input.  None of these functions has a state, so each theorem is about   *)
(* one decision or compares two of them.                                   *)
(***************************************************************************)
EXTENDS EconomicPolicies, FiniteSetTheorems, TLAPS

Strength == [NONE |-> 0, DELTA |-> 1, CROSS_BOUNDARY |-> 2, FULL_SYSTEM |-> 3]

LEMMA TierType ==
    ASSUME NEW files, NEW s, NEW r
    PROVE  ClassifyRisk(files, s, r) \in Tiers
BY DEF ClassifyRisk, Tiers

(***************************************************************************)
(* Risk and audits                                                         *)
(***************************************************************************)
\* classify_risk_shadow(): one more changed file, or one more flag, never
\* makes a change less risky, so a candidate cannot be made to look harmless
\* by what is added to it.
THEOREM RiskNeverLowered ==
    ASSUME NEW f1 \in SUBSET Path, NEW f2 \in SUBSET Path, f1 \subseteq f2,
           NEW s1 \in BOOLEAN, NEW s2 \in BOOLEAN, s1 => s2,
           NEW r1 \in BOOLEAN, NEW r2 \in BOOLEAN, r1 => r2
    PROVE  ClassifyRisk(f1, s1, r1) <= ClassifyRisk(f2, s2, r2)
<1>1. CASE r2
    <2>1. ClassifyRisk(f2, s2, r2) = 4
        BY <1>1 DEF ClassifyRisk
    <2> QED
        BY <2>1, TierType DEF Tiers
<1>2. CASE ~r2 /\ \E f \in f2 : f.authority
    <2>1. ClassifyRisk(f2, s2, r2) = 3
        BY <1>2 DEF ClassifyRisk
    <2>2. ClassifyRisk(f1, s1, r1) \in 0..3
        BY <1>2 DEF ClassifyRisk
    <2> QED
        BY <2>1, <2>2
<1>3. CASE /\ ~r2 /\ ~\E f \in f2 : f.authority
           /\ s2 \/ \E f \in f2 : f.semantic
    <2>1. ClassifyRisk(f2, s2, r2) = 2
        BY <1>3 DEF ClassifyRisk
    <2>2. ~\E f \in f1 : f.authority
        BY <1>3
    <2>3. ClassifyRisk(f1, s1, r1) \in 0..2
        BY <1>3, <2>2 DEF ClassifyRisk
    <2> QED
        BY <2>1, <2>3
<1>4. CASE /\ ~r2 /\ ~\E f \in f2 : f.authority
           /\ ~s2 /\ ~\E f \in f2 : f.semantic
    <2>1. /\ ~r1 /\ ~s1
          /\ ~\E f \in f1 : f.authority
          /\ ~\E f \in f1 : f.semantic
        BY <1>4
    <2>2. CASE \A f \in f2 : f.document
        <3>1. \A f \in f1 : f.document
            BY <2>2
        <3> QED
            BY <1>4, <2>1, <2>2, <3>1 DEF ClassifyRisk
    <2>3. CASE ~\A f \in f2 : f.document
        <3>1. ClassifyRisk(f2, s2, r2) = 1
            BY <1>4, <2>3 DEF ClassifyRisk
        <3>2. ClassifyRisk(f1, s1, r1) \in 0..1
            BY <2>1 DEF ClassifyRisk
        <3> QED
            BY <3>1, <3>2
    <2> QED
        BY <2>2, <2>3
<1> QED
    BY <1>1, <1>2, <1>3, <1>4

\* select_fable_audit_shadow(): a riskier change, or one more reason, never
\* asks for a weaker audit.
LEMMA AuditNeverWeaker ==
    ASSUME NEW t1 \in Tiers, NEW t2 \in Tiers, t1 <= t2,
           NEW a1 \in AuditInput, NEW a2 \in AuditInput,
           a1.milestone => a2.milestone,
           a1.recertification => a2.recertification,
           a1.governance => a2.governance,
           a1.crossBoundary => a2.crossBoundary
    PROVE  Strength[SelectFable(t1, a1)] <= Strength[SelectFable(t2, a2)]
BY DEF SelectFable, Strength, Tiers, AuditInput

\* The two together, as the controller uses them: whatever is added to a
\* change, the audit it asks for is at least as strong.
THEOREM FableNeverLowered ==
    ASSUME NEW v1, NEW v2, IsControllerInput(v1), IsControllerInput(v2),
           v1.files \subseteq v2.files,
           v1["semanticChange"] => v2["semanticChange"],
           v1["releaseSensitive"] => v2["releaseSensitive"],
           v1.audit = v2.audit
    PROVE  Strength[FableModeOf(v1)] <= Strength[FableModeOf(v2)]
<1>1. RiskOf(v1) <= RiskOf(v2)
    <2>1. /\ v1.files \in SUBSET Path /\ v2.files \in SUBSET Path
          /\ v1["semanticChange"] \in BOOLEAN /\ v2["semanticChange"] \in BOOLEAN
          /\ v1["releaseSensitive"] \in BOOLEAN
          /\ v2["releaseSensitive"] \in BOOLEAN
        BY DEF IsControllerInput, ControllerFlags
    <2> QED
        BY <2>1, RiskNeverLowered DEF RiskOf
<1>2. RiskOf(v1) \in Tiers /\ RiskOf(v2) \in Tiers
    BY TierType DEF RiskOf
<1>3. v1.audit \in AuditInput /\ v2.audit \in AuditInput
    BY DEF IsControllerInput
<1> QED
    BY <1>1, <1>2, <1>3, AuditNeverWeaker DEF FableModeOf

(***************************************************************************)
(* The review sequence                                                     *)
(***************************************************************************)
\* decide_review_sequence_shadow() and clean_pass_next_stage() are two
\* implementations of "which stage follows a clean review".  The first never
\* advances where the second would not, and never past a stage.
THEOREM AdvanceIsCleanPass ==
    ASSUME NEW tier, NEW o \in Observation,
           DecideReviewSequence(ReviewPlan(tier), o).action
               = "ADVANCE_PREAUTHORIZED"
    PROVE  /\ o.completed /\ o.success /\ o.unchanged /\ o.evidence
           /\ ~o.anomaly /\ ~o.finding /\ ~o.blocked /\ o.verdict = "CLEAN"
           /\ DecideReviewSequence(ReviewPlan(tier), o).next
                = CleanPassNextStage(ReviewPlan(tier), o)
<1> DEFINE plan == ReviewPlan(tier)
           i == StageIndex(plan, o.stage)
<1>1. /\ o.stage \in StagesOf(plan)
      /\ o.completed /\ o.unchanged /\ o.success /\ o.evidence
      /\ ~o.blocked /\ ~o.anomaly /\ ~o.finding /\ o.verdict = "CLEAN"
      /\ ~(i + 1 > Len(plan))
      /\ DecideReviewSequence(plan, o).next = plan[i + 1]
    <2> HIDE DEF plan
    <2> QED
        BY DEF DecideReviewSequence, Step, Raises, plan
<1>2. CleanPassNextStage(plan, o) = plan[i + 1]
    <2> HIDE DEF plan
    <2> QED
        BY <1>1 DEF CleanPassNextStage, plan
<1> QED
    BY <1>1, <1>2

\* The other way round: a clean pass of a run that completed and reported no
\* finding and no block leads to the same stage, and Sol's final
\* adjudication is never reached by an advance.
THEOREM CleanPassIsFollowed ==
    ASSUME NEW tier, NEW o \in Observation,
           CleanPassNextStage(ReviewPlan(tier), o) \in StagesOf(ReviewPlan(tier)),
           o.completed, o.success, ~o.finding, ~o.blocked
    PROVE  LET step == DecideReviewSequence(ReviewPlan(tier), o)
           IN  /\ step.next = CleanPassNextStage(ReviewPlan(tier), o)
               /\ step.action = IF step.next = "SOL_FINAL"
                                THEN "COMPLETE_FOR_FINAL_SOL"
                                ELSE "ADVANCE_PREAUTHORIZED"
<1> DEFINE plan == ReviewPlan(tier)
           i == StageIndex(plan, o.stage)
<1>1. None \notin StagesOf(plan) /\ Raises \notin StagesOf(plan)
    BY DEF None, Raises, StagesOf, ReviewPlan
<1>2. /\ o.stage \in StagesOf(plan)
      /\ o.unchanged /\ o.evidence /\ ~o.anomaly /\ o.verdict = "CLEAN"
      /\ ~(i + 1 > Len(plan))
      /\ CleanPassNextStage(plan, o) = plan[i + 1]
    <2> HIDE DEF plan
    <2> QED
        BY <1>1 DEF CleanPassNextStage, plan
<1>3. o.stage = "CLAUDE" => plan[i + 1] = "SOL_FINAL"
    <2>1. ASSUME o.stage = "CLAUDE" PROVE i = 4
        <3>1. i \in DOMAIN plan /\ plan[i] = "CLAUDE"
            BY <1>2, <2>1 DEF StageIndex, StagesOf
        <3> QED
            BY <3>1 DEF ReviewPlan
    <2> QED
        BY <2>1 DEF ReviewPlan
<1> HIDE DEF plan
<1>4. CASE plan[i + 1] = "SOL_FINAL"
    <2>1. DecideReviewSequence(plan, o) = Step("COMPLETE_FOR_FINAL_SOL", "SOL_FINAL")
        BY <1>2, <1>4 DEF DecideReviewSequence
    <2> QED
        BY <1>2, <1>4, <2>1 DEF Step, plan
<1>5. CASE plan[i + 1] # "SOL_FINAL"
    <2>1. DecideReviewSequence(plan, o) = Step("ADVANCE_PREAUTHORIZED", plan[i + 1])
        BY <1>2, <1>3, <1>5 DEF DecideReviewSequence
    <2> QED
        BY <1>2, <1>5, <2>1 DEF Step, plan
<1> QED
    BY <1>4, <1>5

(***************************************************************************)
(* Calls of a model                                                        *)
(***************************************************************************)
\* decide_controller_shadow(): a model is called only for a reason that was
\* stated, on a candidate that is bound and checked and does not fail, when
\* no person, agent or review is to be waited for, and within the budget;
\* and a question or a contradiction always goes to Sol.
THEOREM CallIsJustified ==
    ASSUME NEW v, IsControllerInput(v), DecideController(v).action = "CALL_MODEL"
    PROVE  /\ v.review = {}
           /\ v["bound"] /\ v["checked"] /\ ~v["failing"]
           /\ ~v["human"] /\ ~v["pending"]
           /\ v["gain"] /\ v["rule"] /\ v.tokens > 0 /\ v.cost <= v.budget
           /\ \/ v["questions"] \/ v["contradiction"] \/ v["judgment"]
              \/ RiskOf(v) \in {3, 4}
           /\ v["questions"] \/ v["contradiction"] =>
                 DecideController(v).role = "SOL"
<1>1. v.review = {}
    <2>1. SUFFICES ASSUME v.review # {} PROVE FALSE
        OBVIOUS
    <2> DEFINE o == CHOOSE x \in v.review : TRUE
    <2>2. DecideController(v) = DecideReview(RiskOf(v), o)
        BY <2>1 DEF DecideController
    <2>3. DecideReviewSequence(ReviewPlan(RiskOf(v)), o).action
            \in {Raises} \cup DOMAIN ReviewActions
        BY DEF DecideReviewSequence, Step, ReviewActions
    <2>4. \A a \in DOMAIN ReviewActions : ReviewActions[a] # "CALL_MODEL"
        BY DEF ReviewActions
    <2>5. DecideReview(RiskOf(v), o).action # "CALL_MODEL"
        BY <2>3, <2>4 DEF DecideReview, Decision, Raises
    <2> QED
        BY <2>2, <2>5
<1>2. DecideController(v) = DecideWork(RiskOf(v), v)
    BY <1>1 DEF DecideController
<1>3. /\ \A flag \in ControllerFlags : v[flag] \in BOOLEAN
      /\ v.tokens \in Nat /\ v.cost \in Nat /\ v.budget \in Nat
    BY DEF IsControllerInput
<1> DEFINE gate == EvaluateSemanticDelta(RiskOf(v), v)
           scheduled == ScheduleModelCall({ModelCallIntent(v)}, FALSE, FALSE, FALSE)
<1>4. /\ gate.decision = "AI_JUDGMENT_REQUIRED"
      /\ ~v["pending"] /\ IntentStated(v)
      /\ DecideWork(RiskOf(v), v) = Decision(scheduled, gate.role, None)
      /\ scheduled = "CALL_MODEL"
    <2>1. gate.decision \in {"HUMAN_AUTHORITY_REQUIRED", "EVIDENCE_REQUIRED",
                             "DETERMINISTIC_CONTINUE", "AI_JUDGMENT_REQUIRED"}
        BY DEF EvaluateSemanticDelta, Gate
    <2> HIDE DEF gate, scheduled
    <2>2. DecideWork(RiskOf(v), v).action = "CALL_MODEL"
        BY <1>2
    <2> QED
        BY <2>1, <2>2 DEF DecideWork, Decision, Raises, gate, scheduled
<1>5. v["gain"] /\ v["rule"] /\ v.tokens > 0
    BY <1>4 DEF IntentStated
<1>6. v.cost <= v.budget
    <2>1. ~(ModelCallIntent(v).cost > ModelCallIntent(v).budget)
        BY <1>4 DEF ScheduleModelCall
    <2> QED
        BY <1>3, <2>1 DEF ModelCallIntent
<1>7. /\ ~v["human"] /\ v["bound"] /\ v["checked"] /\ ~v["failing"]
      /\ \/ v["questions"] \/ v["contradiction"] \/ v["judgment"]
         \/ RiskOf(v) \in {3, 4}
      /\ v["questions"] \/ v["contradiction"] => gate.role = "SOL"
    BY <1>4 DEF EvaluateSemanticDelta, Gate
<1> QED
    BY <1>1, <1>2, <1>3, <1>4, <1>5, <1>6, <1>7 DEF Decision

(***************************************************************************)
(* Evidence and batches                                                    *)
(***************************************************************************)
\* decide_evidence_reuse(): the record of a review is never referred to for
\* another candidate, however many reuses lie between; and evidence that
\* depends on the head is never carried to another head by a chain of them.
THEOREM ReuseNeverDrifts ==
    ASSUME NEW type, NEW c1, NEW c2, NEW c3, NEW i1, NEW i2, NEW i3,
           NEW k1, NEW k2, NEW k3,
           NEW b12, NEW b23, NEW b13, NEW m12, NEW m23, NEW m13,
           type \in SemanticEvidence \cup HeadBoundEvidence,
           DecideEvidenceReuse(type, Context(c1, i1, k1), Context(c2, i2, k2),
                               b12, m12) = "REUSE_FACT_ONLY",
           DecideEvidenceReuse(type, Context(c2, i2, k2), Context(c3, i3, k3),
                               b23, m23) = "REUSE_FACT_ONLY"
    PROVE  /\ DecideEvidenceReuse(type, Context(c1, i1, k1), Context(c3, i3, k3),
                                  b13, m13) = "REUSE_FACT_ONLY"
           /\ c1.head = c3.head
           /\ type \in SemanticEvidence => c1 = c3
<1>1. CASE type \in SemanticEvidence
    <2>1. /\ Context(c1, i1, k1) = Context(c2, i2, k2)
          /\ Context(c2, i2, k2) = Context(c3, i3, k3)
        BY <1>1 DEF DecideEvidenceReuse
    <2>2. c1 = c2 /\ c2 = c3
        BY <2>1 DEF Context
    <2> QED
        BY <1>1, <2>1, <2>2 DEF DecideEvidenceReuse
<1>2. CASE type \in HeadBoundEvidence
    <2>1. /\ type \notin SemanticEvidence /\ type \notin BlobEvidence
          /\ type # "MATERIALIZATION_EVIDENCE"
        BY <1>2 DEF HeadBoundEvidence, SemanticEvidence, BlobEvidence
    <2>2. /\ i1 = i2 /\ c1.head = c2.head
          /\ i2 = i3 /\ c2.head = c3.head
        BY <2>1 DEF DecideEvidenceReuse, Context
    <2> QED
        BY <1>2, <2>1, <2>2 DEF DecideEvidenceReuse, Context
<1> QED
    BY <1>1, <1>2

\* evaluate_batch_shadow(): what is left of an eligible batch after
\* invalidate_leaf_after_candidate_change() took one leaf out is eligible
\* again while two leaves are left.  f says where the leaves stood.
THEOREM SiblingsStandAlone ==
    ASSUME NEW leaves, NEW rest, EligibleBatch(leaves), Len(rest) >= 2,
           NEW f \in [DOMAIN rest -> DOMAIN leaves],
           \A i, j \in DOMAIN rest : i # j => f[i] # f[j],
           \A i \in DOMAIN rest : rest[i] = leaves[f[i]]
    PROVE  EligibleBatch(rest)
BY DEF EligibleBatch

\* A changed candidate takes at most its own leaf out of an eligible batch:
\* the code's ValueError is never raised for one, and every sibling stays.
THEOREM OneLeafInvalidated ==
    ASSUME NEW leaves, EligibleBatch(leaves), NEW changed
    PROVE  /\ InvalidatedLeaves(leaves, changed)
                = {i \in DOMAIN leaves : leaves[i].candidate = changed}
           /\ \A i, j \in InvalidatedLeaves(leaves, changed) : i = j
<1> DEFINE out == {i \in DOMAIN leaves : leaves[i].candidate = changed}
<1>1. \A i, j \in out : i = j
    BY DEF EligibleBatch
<1>2. Cardinality(out) \in {0, 1}
    <2>1. CASE out = {}
        BY <2>1, FS_EmptySet
    <2>2. CASE out # {}
        <3>1. PICK i \in out : TRUE
            BY <2>2
        <3>2. out = {i}
            BY <1>1, <3>1
        <3> HIDE DEF out
        <3> QED
            BY <3>2, FS_Singleton
    <2> QED
        BY <2>1, <2>2
<1>3. InvalidatedLeaves(leaves, changed) = out
    <2>1. ~(Cardinality(out) > 1)
        <3> HIDE DEF out
        <3> QED
            BY <1>2
    <2> QED
        BY <2>1 DEF InvalidatedLeaves
<1> QED
    BY <1>1, <1>3

(***************************************************************************)
(* Recertification and costs                                               *)
(***************************************************************************)
\* recertify(): evidence that is better in every respect, or a smaller
\* demand, is never refused where the worse was accepted.
THEOREM RecertificationMonotone ==
    ASSUME NEW e1 \in RecertificationEvidence, NEW e2 \in RecertificationEvidence,
           NEW m1 \in RecertificationMinimum, NEW m2 \in RecertificationMinimum,
           Recertified(e1, m1),
           e2.replays >= e1.replays, e2.observations >= e1.observations,
           e2.replayMismatches <= e1.replayMismatches,
           e2.decisionMismatches <= e1.decisionMismatches,
           e2.preserved >= e1.preserved, e2.findings <= e1.findings,
           e2.escapes <= e1.escapes,
           e2.baseline = e1.baseline, e2.optimized <= e1.optimized,
           e2.suppression => e1.suppression, e1.finalSol => e2.finalSol,
           m2.replays <= m1.replays, m2.observations <= m1.observations,
           m2.savings <= m1.savings
    PROVE  Recertified(e2, m2)
<1>1. /\ e1.baseline \in Nat /\ e1.optimized \in Nat /\ e2.optimized \in Nat
      /\ m1.savings \in Nat /\ m2.savings \in Nat
    BY DEF RecertificationEvidence, RecertificationMinimum
<1>2. (e2.baseline - e2.optimized) * 100 >= m2.savings * e2.baseline
    <2>1. (e1.baseline - e1.optimized) * 100 >= m1.savings * e1.baseline
        BY DEF Recertified
    <2>2. m1.savings * e1.baseline >= m2.savings * e1.baseline
        <3>1. \A a, b, c \in Nat : a <= b => a * c <= b * c
            OBVIOUS
        <3> QED
            BY <1>1, <3>1
    <2>3. (e2.baseline - e2.optimized) * 100 >= (e1.baseline - e1.optimized) * 100
        BY <1>1
    <2>4. /\ m1.savings * e1.baseline \in Int /\ m2.savings * e1.baseline \in Int
        BY <1>1
    <2> QED
        BY <1>1, <2>1, <2>2, <2>3, <2>4
<1> QED
    BY <1>2 DEF Recertified, RecertificationEvidence, RecertificationMinimum

LEMMA PercentBounds ==
    ASSUME NEW n \in Nat, NEW h \in 0..100, NEW w \in 0..100, h + w <= 100
    PROVE  /\ Percent(h, n) \in Nat /\ Percent(w, n) \in Nat
           /\ Percent(h, n) + Percent(w, n) <= n
<1>1. n * h \in Nat /\ n * w \in Nat
    OBVIOUS
<1>2. n * h + n * w <= n * 100
    <2>1. \A a, b, c \in Nat : a <= b => c * a <= c * b
        OBVIOUS
    <2>2. n * (h + w) <= n * 100
        BY <2>1
    <2>3. n * (h + w) = n * h + n * w
        OBVIOUS
    <2> QED
        BY <2>2, <2>3
<1>3. \A a, b, c \in Nat : a + b <= c * 100 => (a \div 100) + (b \div 100) <= c
    OBVIOUS
<1>4. \A a \in Nat : a \div 100 \in Nat
    OBVIOUS
<1> QED
    BY <1>1, <1>2, <1>3, <1>4 DEF Percent

\* preflight_fable_cost_v2(): the three classes of input tokens are the
\* whole input, whatever the ratios round to, and none of them is negative.
THEOREM EveryTokenPriced ==
    ASSUME NEW p, PlanAccepted(p)
    PROVE  /\ StandardTokens(p) \in Nat
           /\ Percent(p.hit, p.stable) + Percent(p.write, p.stable)
                + StandardTokens(p) = p.stable + p.changed + p.crossBoundary
<1>1. /\ p.stable \in Nat /\ p.changed \in Nat /\ p.crossBoundary \in Nat
      /\ p.hit \in 0..100 /\ p.write \in 0..100 /\ p.hit + p.write <= 100
    BY DEF PlanAccepted, AuditPlan
<1>2. /\ Percent(p.hit, p.stable) \in Nat /\ Percent(p.write, p.stable) \in Nat
      /\ Percent(p.hit, p.stable) + Percent(p.write, p.stable) <= p.stable
    BY <1>1, PercentBounds
<1> QED
    BY <1>1, <1>2 DEF StandardTokens

\* While writing to the cache costs at least as much as ordinary input, an
\* audit that passes the second preflight also passes the first; with no
\* write to the cache the two estimates are the same.
THEOREM SecondPreflightIsStricter ==
    ASSUME NEW p, PlanAccepted(p), NEW card \in PriceCard, NEW budget \in Nat
    PROVE  /\ /\ card.write >= card.input
              /\ Affordable(SecondEstimate(p, card), p, budget)
              => Affordable(FirstEstimate(p, card), p, budget)
           /\ p.write = 0 => SecondEstimate(p, card) = FirstEstimate(p, card)
<1> DEFINE h == Percent(p.hit, p.stable)
           w == Percent(p.write, p.stable)
           s == StandardTokens(p)
<1>1. /\ p.stable \in Nat /\ p.changed \in Nat /\ p.crossBoundary \in Nat
      /\ p.output \in Nat
      /\ p.hit \in 0..100 /\ p.write \in 0..100 /\ p.hit + p.write <= 100
      /\ p.discount \in 0..100
      /\ card.input \in Nat /\ card.cached \in Nat
      /\ card.write \in Nat /\ card.output \in Nat
    BY DEF PlanAccepted, AuditPlan, PriceCard
<1>2. h \in Nat /\ w \in Nat /\ s \in Nat
    BY <1>1, PercentBounds, EveryTokenPriced
<1>3. p.stable + p.changed + p.crossBoundary - h = s + w
    BY <1>1, <1>2 DEF StandardTokens
<1>4. FirstEstimate(p, card) = (s + w) * card.input + h * card.cached
                                 + p.output * card.output
    BY <1>3 DEF FirstEstimate
<1>5. SecondEstimate(p, card) = h * card.cached + w * card.write
                                 + s * card.input + p.output * card.output
    BY DEF SecondEstimate
<1> HIDE DEF h, w, s
<1>6. (s + w) * card.input = s * card.input + w * card.input
    BY <1>1, <1>2
<1>7. /\ h * card.cached \in Nat /\ w * card.write \in Nat
      /\ s * card.input \in Nat /\ p.output * card.output \in Nat
      /\ w * card.input \in Nat
    BY <1>1, <1>2
<1>8. ASSUME card.write >= card.input,
             Affordable(SecondEstimate(p, card), p, budget)
      PROVE  Affordable(FirstEstimate(p, card), p, budget)
    <2>1. w * card.input <= w * card.write
        <3>1. \A a, b, c \in Nat : a <= b => c * a <= c * b
            OBVIOUS
        <3> QED
            BY <1>1, <1>2, <1>8, <3>1
    <2>2. /\ FirstEstimate(p, card) \in Nat /\ SecondEstimate(p, card) \in Nat
          /\ FirstEstimate(p, card) <= SecondEstimate(p, card)
        BY <1>4, <1>5, <1>6, <1>7, <2>1
    <2>3. \A a, b, c \in Nat : a <= b => a * c <= b * c
        OBVIOUS
    <2>4. FirstEstimate(p, card) * (100 - p.discount)
            <= SecondEstimate(p, card) * (100 - p.discount)
        BY <1>1, <2>2, <2>3
    <2>5. /\ FirstEstimate(p, card) * (100 - p.discount) \in Int
          /\ SecondEstimate(p, card) * (100 - p.discount) \in Int
        BY <1>1, <2>2
    <2> QED
        BY <1>8, <2>4, <2>5 DEF Affordable
<1>9. ASSUME p.write = 0 PROVE SecondEstimate(p, card) = FirstEstimate(p, card)
    <2>1. w = 0
        <3>1. p.stable * 0 = 0 /\ 0 \div 100 = 0
            BY <1>1
        <3> QED
            BY <1>9, <3>1 DEF w, Percent
    <2> QED
        BY <1>1, <1>2, <1>4, <1>5, <1>7, <2>1
<1> QED
    BY <1>8, <1>9

(***************************************************************************)
(* Incremental audits                                                      *)
(***************************************************************************)
LEMMA ImpactClosed ==
    ASSUME NEW changed, NEW paths, NEW edges \in SUBSET (paths \X paths),
           changed \subseteq paths
    PROVE  /\ changed \subseteq ReverseImpact(changed, paths, edges)
           /\ ClosedUnderDependents(ReverseImpact(changed, paths, edges), edges)
<1>1. changed \subseteq ReverseImpact(changed, paths, edges)
    BY DEF ReverseImpact
<1>2. ASSUME NEW e \in edges, e[2] \in ReverseImpact(changed, paths, edges)
      PROVE  e[1] \in ReverseImpact(changed, paths, edges)
    <2>1. e[1] \in paths
        OBVIOUS
    <2>2. ASSUME NEW S \in SUBSET paths, changed \subseteq S,
                 ClosedUnderDependents(S, edges)
          PROVE  e[1] \in S
        <3>1. e[2] \in S
            BY <1>2, <2>2 DEF ReverseImpact
        <3> QED
            BY <2>2, <3>1 DEF ClosedUnderDependents
    <2> QED
        BY <2>1, <2>2 DEF ReverseImpact
<1> QED
    BY <1>1, <1>2 DEF ClosedUnderDependents

\* plan_delta_audit(): a file whose earlier evidence is kept is the file it
\* was, and every file it imports is kept as well, unless that one is looked
\* at only because it was forced: importers of a forced path are not.
THEOREM IsolatedRestsOnIsolated ==
    ASSUME NEW previous, NEW current,
           NEW edges \in SUBSET ((DOMAIN current) \X (DOMAIN current)),
           NEW forced \in SUBSET DOMAIN current,
           NEW p \in IsolatedPaths(previous, current, edges, forced),
           NEW q, <<p, q>> \in edges
    PROVE  /\ p \in DOMAIN previous /\ previous[p] = current[p]
           /\ q \in IsolatedPaths(previous, current, edges, forced) \cup forced
<1> DEFINE changed == ChangedPaths(previous, current)
           impact == ReverseImpact(changed, DOMAIN current, edges)
<1>1. changed \subseteq DOMAIN current
    BY DEF ChangedPaths
<1>2. changed \subseteq impact /\ ClosedUnderDependents(impact, edges)
    BY <1>1, ImpactClosed
<1>3. p \in DOMAIN current /\ p \notin impact /\ p \notin forced
    BY DEF IsolatedPaths, FreshAuditPaths
<1>4. p \notin changed
    BY <1>2, <1>3
<1>5. p \in DOMAIN previous /\ previous[p] = current[p]
    BY <1>3, <1>4 DEF ChangedPaths
<1>6. q \in DOMAIN current /\ q \notin impact
    <2>1. <<p, q>>[1] = p /\ <<p, q>>[2] = q
        OBVIOUS
    <2> HIDE DEF impact
    <2> QED
        BY <1>2, <1>3, <2>1 DEF ClosedUnderDependents
<1> QED
    BY <1>5, <1>6 DEF IsolatedPaths, FreshAuditPaths
===============================================================================
