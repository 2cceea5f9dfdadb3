--------------------------- MODULE EconomicPolicies ---------------------------
(***************************************************************************)
(* The decisions of the economic control plane: pure functions that say    *)
(* how risky a change is, which review stage follows, whether a model may  *)
(* be called, which evidence may be used again and when an optimisation or *)
(* an audit may go live.  Each operator stands for one Python function; an *)
(* early return is an alternative of the IF that comes before the later    *)
(* ones.  A function that raises gives Raises.                             *)
(*                                                                         *)
(* Abstracted: the wording of reasons; the text of a path, of which only   *)
(* the classes it belongs to count; ratios are percentages and money is a  *)
(* number of the smallest unit, where the code has floats.                 *)
(***************************************************************************)
EXTENDS Integers, Sequences, FiniteSets

None == "None"
Raises == "Raises"

(***************************************************************************)
(* Risk tiers and the audits they ask for                                  *)
(***************************************************************************)
Tiers == 0..4

\* A changed path: does it hold a marker of authority, or one of semantics,
\* and is it a document?
Path == [authority : BOOLEAN, semantic : BOOLEAN, document : BOOLEAN]

ClassifyRisk(files, semanticChange, releaseSensitive) ==
    IF releaseSensitive THEN 4
    ELSE IF \E f \in files : f.authority THEN 3
    ELSE IF semanticChange \/ \E f \in files : f.semantic THEN 2
    ELSE IF \A f \in files : f.document THEN 0
    ELSE 1

\* What is said of an audit besides the risk of the change.
AuditInput == [milestone : BOOLEAN, recertification : BOOLEAN,
               governance : BOOLEAN, crossBoundary : BOOLEAN]

SelectFable(tier, a) ==
    IF a.recertification \/ a.milestone \/ tier = 4 THEN "FULL_SYSTEM"
    ELSE IF a.governance \/ a.crossBoundary \/ tier = 3 THEN "CROSS_BOUNDARY"
    ELSE IF tier = 2 THEN "DELTA"
    ELSE "NONE"

(***************************************************************************)
(* The preauthorized review plan                                           *)
(***************************************************************************)
\* The plan is the same for every tier: no reduction of reviews is active.
ReviewPlan(tier) ==
    <<"QG", "DEEPSEEK_EXPERT", "DEEPSEEK_CODER", "CLAUDE", "SOL_FINAL">>

StagesOf(plan) == {plan[i] : i \in DOMAIN plan}
StageIndex(plan, stage) == CHOOSE i \in DOMAIN plan : plan[i] = stage

\* What is observed of the run of a review stage.  The verdict is CLEAN for
\* both of the spellings that count as clean.
Verdicts == {"CLEAN", "OTHER"}
Observation == [stage : STRING, verdict : Verdicts, completed : BOOLEAN,
                success : BOOLEAN, unchanged : BOOLEAN, evidence : BOOLEAN,
                anomaly : BOOLEAN, finding : BOOLEAN, blocked : BOOLEAN]

CleanPassNextStage(plan, o) ==
    IF o.verdict # "CLEAN" \/ ~o.unchanged \/ ~o.evidence \/ o.anomaly THEN None
    ELSE IF o.stage \notin StagesOf(plan) THEN Raises
    ELSE IF StageIndex(plan, o.stage) + 1 > Len(plan) THEN None
    ELSE plan[StageIndex(plan, o.stage) + 1]

Step(action, next) == [action |-> action, next |-> next]

DecideReviewSequence(plan, o) ==
    LET i == StageIndex(plan, o.stage)
    IN  IF o.stage \notin StagesOf(plan) THEN Step(Raises, None)
        ELSE IF ~o.completed THEN Step("WAIT", None)
        ELSE IF ~o.unchanged \/ ~o.success \/ ~o.evidence
        THEN Step("EVIDENCE_REQUIRED", None)
        ELSE IF o.blocked \/ o.anomaly
        THEN Step("SOL_ADJUDICATION_REQUIRED",
                  IF o.stage = "CLAUDE" THEN "SOL_FINAL" ELSE None)
        ELSE IF o.finding \/ o.verdict # "CLEAN"
        THEN Step("SOL_ADJUDICATION_REQUIRED", None)
        ELSE IF o.stage = "CLAUDE" \/ i + 1 > Len(plan)
        THEN Step("COMPLETE_FOR_FINAL_SOL", "SOL_FINAL")
        ELSE IF plan[i + 1] = "SOL_FINAL"
        THEN Step("COMPLETE_FOR_FINAL_SOL", "SOL_FINAL")
        ELSE Step("ADVANCE_PREAUTHORIZED", plan[i + 1])

(***************************************************************************)
(* May a model be called?                                                  *)
(***************************************************************************)
\* What the controller is asked to decide about.  questions, gain and rule
\* say whether the open questions, the expected gain of information and the
\* invalidation rule are non-empty; review holds the observation of a
\* completed review, or nothing.
ControllerFlags ==
    {"semanticChange", "releaseSensitive", "bound", "checked", "failing",
     "questions", "judgment", "contradiction", "human", "pending", "gain",
     "rule"}

IsControllerInput(v) ==
    /\ \A flag \in ControllerFlags : v[flag] \in BOOLEAN
    /\ v.files \subseteq Path
    /\ v.audit \in AuditInput
    /\ v.tokens \in Nat /\ v.cost \in Nat /\ v.budget \in Nat
    /\ v.review = {} \/ \E o \in Observation : v.review = {o}

Gate(decision, role) == [decision |-> decision, role |-> role]

EvaluateSemanticDelta(tier, v) ==
    IF v.human THEN Gate("HUMAN_AUTHORITY_REQUIRED", None)
    ELSE IF ~v.bound \/ ~v.checked THEN Gate("EVIDENCE_REQUIRED", None)
    ELSE IF v.failing THEN Gate("DETERMINISTIC_CONTINUE", None)
    ELSE IF v.questions \/ v.contradiction
    THEN Gate("AI_JUDGMENT_REQUIRED", "SOL")
    ELSE IF v.judgment THEN Gate("AI_JUDGMENT_REQUIRED", "CODEX")
    ELSE IF tier \in {3, 4} THEN Gate("AI_JUDGMENT_REQUIRED", "SOL")
    ELSE Gate("DETERMINISTIC_CONTINUE", None)

\* An intent that does not say what the call is for is refused.
IntentStated(v) == v.gain /\ v.rule /\ v.tokens > 0

ModelCallIntent(v) == [cost |-> v.cost, budget |-> v.budget]

\* intents holds the intent of a call, or nothing.
ScheduleModelCall(intents, deterministic, pending, human) ==
    IF human THEN "HUMAN_DECISION_REQUIRED"
    ELSE IF pending THEN "WAIT"
    ELSE IF deterministic \/ intents = {} THEN "NO_CALL_REQUIRED"
    ELSE IF \E intent \in intents : intent.cost > intent.budget
    THEN "BUDGET_STOP"
    ELSE "CALL_MODEL"

ReviewActions ==
    [ADVANCE_PREAUTHORIZED     |-> "ADVANCE_PREAUTHORIZED_REVIEW",
     SOL_ADJUDICATION_REQUIRED |-> "SOL_ADJUDICATION_REQUIRED",
     EVIDENCE_REQUIRED         |-> "EVIDENCE_REQUIRED",
     WAIT                      |-> "WAIT",
     COMPLETE_FOR_FINAL_SOL    |-> "FINAL_SOL_REQUIRED"]

Decision(action, role, next) ==
    [action |-> action, role |-> role, next |-> next]

\* A completed review: nothing else of the input is looked at.
DecideReview(tier, o) ==
    LET step == DecideReviewSequence(ReviewPlan(tier), o)
    IN  IF step.action = Raises THEN Decision(Raises, None, None)
        ELSE Decision(ReviewActions[step.action],
                      IF step.action \in {"SOL_ADJUDICATION_REQUIRED",
                                          "COMPLETE_FOR_FINAL_SOL"}
                      THEN "SOL" ELSE None,
                      step.next)

DecideWork(tier, v) ==
    LET gate == EvaluateSemanticDelta(tier, v)
    IN  IF gate.decision = "HUMAN_AUTHORITY_REQUIRED"
        THEN Decision("HUMAN_DECISION_REQUIRED", None, None)
        ELSE IF gate.decision = "EVIDENCE_REQUIRED"
        THEN Decision("EVIDENCE_REQUIRED", None, None)
        ELSE IF v.pending THEN Decision("WAIT", None, None)
        ELSE IF gate.decision = "DETERMINISTIC_CONTINUE"
        THEN Decision("DETERMINISTIC_WORK", None, None)
        ELSE IF v.tokens = 0 THEN Decision("EVIDENCE_REQUIRED", None, None)
        ELSE IF ~IntentStated(v) THEN Decision(Raises, None, None)
        ELSE Decision(ScheduleModelCall({ModelCallIntent(v)}, FALSE, FALSE, FALSE),
                      gate.role, None)

RiskOf(v) == ClassifyRisk(v.files, v.semanticChange, v.releaseSensitive)

DecideController(v) ==
    IF v.review # {} THEN DecideReview(RiskOf(v), CHOOSE o \in v.review : TRUE)
                     ELSE DecideWork(RiskOf(v), v)

FableModeOf(v) == SelectFable(RiskOf(v), v.audit)

(***************************************************************************)
(* Which evidence may be used again                                        *)
(***************************************************************************)
\* The candidate_id is the digest of these fields: equal ids, equal records.
IsCandidate(c) == DOMAIN c = {"repository", "base", "head", "tree", "synthetic"}

SemanticEvidence == {"REVIEW_EXPERT", "REVIEW_CODER", "REVIEW_CLAUDE",
                     "SOL_ADJUDICATION", "FABLE_AUDIT"}
HeadBoundEvidence == {"QG_EVIDENCE", "DIFF_EVIDENCE", "TARGETED_TEST_EVIDENCE"}
BlobEvidence == {"SOURCE_SLICE", "STATIC_SOURCE_INDEX"}

\* A context is what evidence was, or is to be, made from.
Context(candidate, input, contract) ==
    [candidate |-> candidate, input |-> input, contract |-> contract]

DecideEvidenceReuse(type, old, new, blobUnchanged, materialUnchanged) ==
    IF type \in SemanticEvidence
    THEN IF old = new THEN "REUSE_FACT_ONLY" ELSE "INVALIDATE_SEMANTIC_AUTHORITY"
    ELSE IF /\ old.input = new.input
            /\ \/ type \in HeadBoundEvidence /\ old.candidate.head = new.candidate.head
               \/ type \in BlobEvidence /\ blobUnchanged
               \/ type = "MATERIALIZATION_EVIDENCE" /\ materialUnchanged
    THEN "REUSE_FACT_ONLY"
    ELSE "RECOMPUTE"

(***************************************************************************)
(* Batches of reviews                                                      *)
(***************************************************************************)
\* leaves is a sequence of records [candidate, tier, freeze, semantic].
EligibleBatch(leaves) ==
    /\ Len(leaves) >= 2
    /\ \A i, j \in DOMAIN leaves :
          /\ i # j => leaves[i].candidate # leaves[j].candidate
          /\ leaves[i].candidate.repository = leaves[j].candidate.repository
    /\ \A i \in DOMAIN leaves : ~leaves[i].semantic /\ leaves[i].tier \in {0, 1}

\* A change of one candidate takes its own leaf out, and no other.
InvalidatedLeaves(leaves, changed) ==
    LET leavesOf == {i \in DOMAIN leaves : leaves[i].candidate = changed}
    IN  IF Cardinality(leavesOf) > 1 THEN Raises ELSE leavesOf

(***************************************************************************)
(* When an optimisation may go live                                        *)
(***************************************************************************)
\* The flags an activation rests on; those of LiveQuality are looked at only
\* when a live validation was completed.
ActivationRequirements ==
    {"exact_head_ci_success", "recertification_passed",
     "compact_packet_replay_match", "codex_capsule_replay_match",
     "clean_pass_replay_match", "live_validation_completed"}
LiveQuality == {"live_validation_quality_match", "live_validation_within_budget"}

ActivationBlockers(e) ==
    {r \in ActivationRequirements : ~e[r]}
    \cup {r \in LiveQuality : e["live_validation_completed"] /\ ~e[r]}
    \cup {r \in {"reviewer_suppression_recertified"} : e[r]}

DecideActivation(e) ==
    IF ActivationBlockers(e) = {}
    THEN {"compact_sol_context", "codex_task_capsule", "clean_pass_auto_advance"}
    ELSE {}

FableRequirements ==
    {"provider_adapter_verified", "controlled_validation_passed",
     "cost_preflight_verified", "delta_impact_replay_passed",
     "full_system_recertification_passed", "findings_compaction_verified"}

FableBlockers(e) ==
    {r \in FableRequirements : ~e[r]}
    \cup {r \in {"reviewer_substitution_requested"} : e[r]}

DecideFableActivation(e) ==
    IF FableBlockers(e) = {} THEN "LIMITED_LIVE" ELSE "SHADOW"

\* The counts and costs a recertification is judged by.
RecertificationEvidence ==
    [replays : Nat, replayMismatches : Nat, observations : Nat,
     decisionMismatches : Nat, findings : Nat, preserved : Nat,
     escapes : Nat, baseline : Nat, optimized : Nat,
     suppression : BOOLEAN, finalSol : BOOLEAN]

\* What the caller asks for: least counts, and least savings in percent.
RecertificationMinimum ==
    [replays : Nat \ {0}, observations : Nat, savings : 0..99]

Recertified(e, min) ==
    /\ e.replays >= min.replays /\ e.replayMismatches = 0
    /\ e.observations >= min.observations /\ e.decisionMismatches = 0
    /\ e.preserved >= e.findings
    /\ e.escapes = 0
    /\ ~e.suppression /\ e.finalSol
    /\ e.baseline > 0 /\ e.optimized < e.baseline
    /\ (e.baseline - e.optimized) * 100 >= min.savings * e.baseline

(***************************************************************************)
(* Budgets and the cost of an audit                                        *)
(***************************************************************************)
Total(rows) ==
    LET sum[i \in 0..Len(rows)] == IF i = 0 THEN 0 ELSE sum[i - 1] + rows[i]
    IN  sum[Len(rows)]

\* orchestrator is an amount, reviewers and fable are sequences of amounts.
AssessUnifiedBudget(orchestrator, reviewers, fable, hardBudget, reviewPending) ==
    LET exceeds == orchestrator + Total(reviewers) + Total(fable) > hardBudget
    IN  IF exceeds /\ reviewPending
        THEN "STOP_AND_ESCALATE_BUDGET_WITHOUT_SKIPPING_MANDATORY_REVIEW"
        ELSE IF exceeds THEN "BUDGET_STOP"
        ELSE IF reviewPending THEN "MANDATORY_REVIEW_REMAINS_REQUIRED"
        ELSE "WITHIN_BUDGET"

PriceCard == [input : Nat, cached : Nat, write : Nat, output : Nat]

\* Tokens of an audit; hit and write say which percentage of the stable part
\* is read from the cache and written to it.
AuditPlan == [stable : Nat, changed : Nat, crossBoundary : Nat, output : Nat,
              hit : 0..100, write : 0..100, discount : 0..100]

Percent(part, n) == (n * part) \div 100

\* The first estimate prices every token that is not read from the cache as
\* ordinary input.
FirstEstimate(p, card) ==
    LET cached == Percent(p.hit, p.stable)
    IN  (p.stable + p.changed + p.crossBoundary - cached) * card.input
        + cached * card.cached + p.output * card.output

StandardTokens(p) ==
    p.stable - Percent(p.hit, p.stable) - Percent(p.write, p.stable)
    + p.changed + p.crossBoundary

\* The second one, which the executor asks for, knows cache writes as well.
SecondEstimate(p, card) ==
    Percent(p.hit, p.stable) * card.cached
    + Percent(p.write, p.stable) * card.write
    + StandardTokens(p) * card.input + p.output * card.output

PlanAccepted(p) == p \in AuditPlan /\ p.hit + p.write <= 100

\* An estimate fits when it does after the discount for batches.
Affordable(estimate, p, budget) == estimate * (100 - p.discount) <= budget * 100

\* An audit package is given to the provider only in these modes, without
\* authority and with a passed preflight.
MayExecuteAudit(package) ==
    /\ package.mode \in {"CONTROLLED_VALIDATION", "LIMITED_LIVE"}
    /\ ~package.authority /\ ~package.substitution
    /\ package.withinBudget

(***************************************************************************)
(* Which files an incremental audit looks at                               *)
(***************************************************************************)
\* A manifest gives each path its digest; <<p, q>> in edges: p imports q.
ClosedUnderDependents(set, edges) ==
    \A e \in edges : e[2] \in set => e[1] \in set

ReverseImpact(changed, paths, edges) ==
    {p \in paths : \A S \in SUBSET paths :
        changed \subseteq S /\ ClosedUnderDependents(S, edges) => p \in S}

ChangedPaths(previous, current) ==
    {p \in DOMAIN current : p \in DOMAIN previous => previous[p] # current[p]}

\* The paths an audit is made on again; the others keep their earlier evidence.
FreshAuditPaths(previous, current, edges, forced) ==
    ReverseImpact(ChangedPaths(previous, current), DOMAIN current, edges)
    \cup forced

IsolatedPaths(previous, current, edges, forced) ==
    DOMAIN current \ FreshAuditPaths(previous, current, edges, forced)
===============================================================================
