-------------------------- MODULE CodexWorker_proofs --------------------------
(***************************************************************************)
(* What the worker guarantees, for every set of trees, every usage and     *)
(* every bound.  The invariants are proved together: each stage of the job *)
(* fixes what the result, the tree and the verdict have to do with one     *)
(* another.                                                                *)
(***************************************************************************)
EXTENDS CodexWorker, TLAPS

(* Adding usage adds at most the cost of what is added: rounding up once   *)
(* never costs more than rounding up twice.                                *)
LEMMA SpendAdds ==
  ASSUME NEW u \in Usage, NEW v \in Usage
  PROVE  /\ AddUsage(u, v) \in Usage
         /\ SpendEquivalent(AddUsage(u, v)) <= SpendEquivalent(u) + SpendEquivalent(v)
         /\ SpendEquivalent(u) \in Int
<1>1. AddUsage(u, v) \in Usage
  BY DEF AddUsage, Usage
<1>2. \A m, n \in Int : (m + n + 19) \div 20 <= (m + 19) \div 20 + (n + 19) \div 20
  OBVIOUS
<1>3. ASSUME NEW w \in Usage
      PROVE  /\ w.input \in Nat /\ w.cached \in Nat
             /\ w.write \in Nat /\ w.output \in Nat
  BY DEF Usage
<1> DEFINE Price(w) == 20 * (w.input - w.cached - w.write) + 2 * w.cached
                         + 25 * w.write + 160 * w.output
<1>4. Price(u) \in Int /\ Price(v) \in Int
  BY <1>3
<1>5. Price(AddUsage(u, v)) = Price(u) + Price(v)
  BY <1>3 DEF AddUsage
<1>6. \A w : SpendEquivalent(w) = (Price(w) + 19) \div 20
  BY DEF SpendEquivalent
<1>7. SpendEquivalent(u) \in Int
  BY <1>3 DEF SpendEquivalent
<1> HIDE DEF Price
<1> QED
  BY <1>1, <1>2, <1>4, <1>5, <1>6, <1>7

-----------------------------------------------------------------------------
InLoop == {"request", "ask", "act", "budget", "turns"}

(* Before the worker ends there is no result; a candidate in the controller*)
(* gate is READY and as reported; until the publisher ran, nothing is      *)
(* published.                                                              *)
StageInv ==
  /\ stage \in InLoop => result = NoResult /\ published = NoTree
  /\ stage = "ask" => turn < MAX_TURNS
  /\ stage = "request" => turn = 0 /\ ~green
  /\ stage = "classify" => result # NoResult /\ tree = result.tree /\ published = NoTree
  /\ stage \in GateCommands =>
       result # NoResult /\ result.status = "READY" /\ tree = result.tree
         /\ published = NoTree
  /\ stage = "publish" =>
       result # NoResult /\ result.status = "READY" /\ tree \in Leaves[result.tree]

IInv == TypeOK /\ StageInv /\ GreenUnlessDrifted /\ TerminalReadyCertified
          /\ OneResponseOverrun /\ PublishedAsReported

LEMMA NoResultStatus ==
  ASSUME NEW r \in Results, r # NoResult
  PROVE  /\ r.tree \in Trees /\ r.status \in Finishes
         /\ r.by \in {"finish", "terminal", "budget", "turns"}
BY DEF Results

LEMMA InitInv == Init => IInv
<1> SUFFICES ASSUME Init PROVE IInv
  OBVIOUS
<1> USE WorkerAssumption DEF Init
<1>1. SpendEquivalent(usage) = 0
  BY DEF SpendEquivalent
<1>2. TypeOK
  <2>1. usage \in Usage
    BY DEF Usage
  <2>2. result \in Results
    BY DEF Results
  <2>3. stage \in Stages /\ turn \in 0 .. MAX_TURNS
    BY DEF Stages
  <2> QED
    BY <2>1, <2>2, <2>3 DEF TypeOK
<1>3. StageInv /\ GreenUnlessDrifted /\ TerminalReadyCertified /\ PublishedAsReported
  BY DEF StageInv, GreenUnlessDrifted, TerminalReadyCertified, PublishedAsReported,
         InLoop, GateCommands, NoResult
<1>4. OneResponseOverrun
  BY <1>1 DEF OneResponseOverrun
<1> QED
  BY <1>2, <1>3, <1>4 DEF IInv

-----------------------------------------------------------------------------
(* Steps that only move the job on.                                        *)

Moves == \/ Unconfirmed \/ RefuseRequest \/ BadResponse \/ RefuseFinish
         \/ Classify \/ SkipPublication \/ PublicationFails
         \/ CompletionCallback \/ Killed

LEMMA MoveInv ==
  ASSUME IInv, Moves
  PROVE  IInv'
<1>1. /\ UNCHANGED <<inputs, turn, usage, asked, tree, green, lastAction, patched>>
      /\ UNCHANGED <<result, passed, published, certified, drift>>
  BY DEF Moves, Unconfirmed, RefuseRequest, BadResponse, RefuseFinish, Classify,
         SkipPublication, PublicationFails, CompletionCallback, Killed,
         jobVars, modelVars, toolVars
<1>2. \/ stage = "classify" /\ stage' = "ruff" /\ result.status = "READY"
      \/ stage' \in {"no_spend", "failed", "callback", "called_back"}
  BY DEF Moves, Unconfirmed, RefuseRequest, BadResponse, RefuseFinish, Classify,
         SkipPublication, PublicationFails, CompletionCallback, Killed, Fail
<1>3. TypeOK'
  BY <1>1, <1>2 DEF IInv, TypeOK, Stages, Ended, GateCommands
<1>4. StageInv'
  BY <1>1, <1>2 DEF IInv, StageInv, InLoop, GateCommands
<1>5. GreenUnlessDrifted' /\ TerminalReadyCertified'
  BY <1>1 DEF IInv, GreenUnlessDrifted, TerminalReadyCertified
<1>6. OneResponseOverrun' /\ PublishedAsReported'
  BY <1>1 DEF IInv, OneResponseOverrun, PublishedAsReported
<1> QED
  BY <1>3, <1>4, <1>5, <1>6 DEF IInv

-----------------------------------------------------------------------------
(* The model loop.                                                         *)

LEMMA BeginInv == ASSUME IInv, Begin PROVE IInv'
<1> USE DEF Begin, jobVars, modelVars
<1>0. result = NoResult /\ published = NoTree /\ turn = 0 /\ ~green
  BY DEF IInv, StageInv, InLoop
<1>1. tree' \in Trees
  <2>1. inputs.references \in SUBSET References
    <3>1. inputs \in Inputs
      BY DEF IInv, TypeOK
    <3> QED
      BY <3>1 DEF Inputs
  <2> QED
    BY <2>1, WorkerAssumption
<1>2. TypeOK'
  BY <1>1 DEF IInv, TypeOK, Stages
<1>3. StageInv'
  BY <1>0, WorkerAssumption DEF StageInv, InLoop, GateCommands
<1>4. TerminalReadyCertified' /\ PublishedAsReported' /\ OneResponseOverrun'
  BY <1>0 DEF IInv, TerminalReadyCertified, PublishedAsReported, OneResponseOverrun
<1>5. GreenUnlessDrifted'
  BY <1>0 DEF GreenUnlessDrifted
<1> QED
  BY <1>2, <1>3, <1>4, <1>5 DEF IInv

LEMMA AskInv ==
  ASSUME IInv, NEW u \in Usages, NEW f \in Functions, Ask(u, f)
  PROVE  IInv'
<1> USE DEF Ask, jobVars, toolVars
<1>0. result = NoResult /\ published = NoTree /\ turn < MAX_TURNS
  BY DEF IInv, StageInv, InLoop
<1>1. /\ usage' \in Usage
      /\ SpendEquivalent(usage') <= SpendEquivalent(usage) + SpendEquivalent(u)
      /\ SpendEquivalent(usage) \in Int
      /\ SpendEquivalent(usage') \in Int /\ SpendEquivalent(u) \in Int
  BY SpendAdds, WorkerAssumption DEF IInv, TypeOK
<1>2. TypeOK'
  BY <1>0, <1>1, WorkerAssumption DEF IInv, TypeOK, Stages
<1>3. StageInv'
  BY <1>0 DEF StageInv, InLoop, GateCommands
<1>4. OneResponseOverrun'
  BY <1>1, WorkerAssumption DEF OneResponseOverrun, BudgetLeft
<1>5. TerminalReadyCertified' /\ PublishedAsReported' /\ GreenUnlessDrifted'
  BY <1>0 DEF IInv, TerminalReadyCertified, PublishedAsReported, GreenUnlessDrifted
<1> QED
  BY <1>2, <1>3, <1>4, <1>5 DEF IInv

(* What holds after a tool whatever it did to the tree.                    *)
LEMMA NotedInv ==
  ASSUME IInv, stage = "act",
         NEW action \in Tools \cup {"error", "rejected"}, NEW f \in Trees \cup {NoTree},
         Noted(action, f)
  PROVE  /\ StageInv' /\ TerminalReadyCertified'
         /\ OneResponseOverrun' /\ PublishedAsReported'
         /\ (tree' \in Trees /\ green' \in BOOLEAN
              /\ certified' \in Trees \cup {NoTree}
              /\ drift' \subseteq {"bound", "interrupted", "tests"}) => TypeOK'
<1> USE DEF Noted, jobVars, modelVars
<1>0. result = NoResult /\ published = NoTree
  BY DEF IInv, StageInv, InLoop
<1>1. stage' \in {"failed", "budget", "turns", "ask"}
      /\ (stage' = "ask" => turn < MAX_TURNS)
  BY WorkerAssumption DEF AfterTool, IInv, TypeOK
<1>2. StageInv'
  BY <1>0, <1>1 DEF StageInv, InLoop, GateCommands
<1>3. TerminalReadyCertified' /\ PublishedAsReported' /\ OneResponseOverrun'
  BY <1>0 DEF IInv, TerminalReadyCertified, PublishedAsReported, OneResponseOverrun
<1>4. ASSUME tree' \in Trees, green' \in BOOLEAN,
             certified' \in Trees \cup {NoTree},
             drift' \subseteq {"bound", "interrupted", "tests"}
      PROVE  TypeOK'
  BY <1>1, <1>4 DEF IInv, TypeOK, Stages, Ended
<1> QED
  BY <1>2, <1>3, <1>4

LEMMA ToolInv == ASSUME IInv, Tool PROVE IInv'
<1>0. /\ tree \in Trees /\ green \in BOOLEAN /\ certified \in Trees \cup {NoTree}
      /\ drift \subseteq {"bound", "interrupted", "tests"}
      /\ \A t \in Leaves[tree] : t \in Trees
      /\ Oversized \subseteq Trees
      /\ green /\ drift = {} => certified = tree
  BY WorkerAssumption DEF IInv, TypeOK, GreenUnlessDrifted
<1> DEFINE Note == \E a \in Tools \cup {"error", "rejected"}, f \in Trees \cup {NoTree} :
                      Noted(a, f)
<1>1. stage = "act" /\ Note => 
        /\ StageInv' /\ TerminalReadyCertified' /\ OneResponseOverrun' /\ PublishedAsReported'
        /\ (tree' \in Trees /\ green' \in BOOLEAN
              /\ certified' \in Trees \cup {NoTree}
              /\ drift' \subseteq {"bound", "interrupted", "tests"}) => TypeOK'
  BY NotedInv
<1>2. stage = "act" /\ Note
  <2>1. CASE Look
    BY <2>1 DEF Look, Tools
  <2>2. CASE PatchRefused
    BY <2>2 DEF PatchRefused
  <2>3. CASE PatchApplied
    BY <2>3 DEF PatchApplied, Tools
  <2>4. CASE PatchRaised
    BY <2>4 DEF PatchRaised
  <2>5. CASE TargetedPytest
    BY <2>5 DEF TargetedPytest, Tools
  <2>6. CASE QualityGate
    BY <2>6 DEF QualityGate, Tools
  <2> QED
    BY <2>1, <2>2, <2>3, <2>4, <2>5, <2>6 DEF Tool
<1> HIDE DEF Note
<1>3. /\ tree' \in Trees /\ green' \in BOOLEAN /\ certified' \in Trees \cup {NoTree}
      /\ drift' \subseteq {"bound", "interrupted", "tests"}
      /\ green' /\ drift' = {} => certified' = tree'
  <2>1. CASE Look
    BY <2>1, <1>0 DEF Look
  <2>2. CASE PatchRefused
    BY <2>2, <1>0 DEF PatchRefused
  <2>3. CASE PatchApplied
    BY <2>3, <1>0 DEF PatchApplied
  <2>4. CASE PatchRaised
    BY <2>4, <1>0 DEF PatchRaised
  <2>5. CASE TargetedPytest
    BY <2>5, <1>0 DEF TargetedPytest
  <2>6. CASE QualityGate
    <3>1. CASE \E success \in BOOLEAN : GateEnds(success) /\ green' = success
      BY <3>1, <1>0 DEF GateEnds
    <3>2. CASE GateRaises /\ UNCHANGED green
      BY <3>2, <1>0 DEF GateRaises
    <3> QED
      BY <2>6, <3>1, <3>2 DEF QualityGate
  <2> QED
    BY <2>1, <2>2, <2>3, <2>4, <2>5, <2>6 DEF Tool
<1> QED
  BY <1>1, <1>2, <1>3 DEF IInv, GreenUnlessDrifted

-----------------------------------------------------------------------------
(* The ends of the loop.                                                   *)

(* A result is about the tree as it is and starts the workflow's part.     *)
LEMMA MakeResultInv ==
  ASSUME IInv, stage \in InLoop,
         NEW status \in Finishes, NEW by \in {"finish", "terminal", "budget", "turns"},
         NEW verdict \in BOOLEAN,
         MakeResult(status, by, verdict),
         tree' \in Trees, green' \in BOOLEAN, UNCHANGED <<lastAction, patched>>,
         certified' \in Trees \cup {NoTree}, drift' \subseteq {"bound", "interrupted", "tests"},
         green' /\ drift' = {} => certified' = tree',
         (status = "READY" /\ by = "terminal") =>
            tree' = certified' /\ tree' = patched /\ tree' # Clean
  PROVE  IInv'
<1> USE DEF MakeResult, modelVars
<1>0. published = NoTree
  BY DEF IInv, StageInv, InLoop
<1>1. /\ result' # NoResult /\ result' \in Results
      /\ result'.status = status /\ result'.by = by /\ result'.tree = tree'
  BY DEF Results, NoResult, IInv, TypeOK
<1>2. TypeOK'
  BY <1>1 DEF IInv, TypeOK, Stages
<1>3. StageInv'
  BY <1>0, <1>1 DEF StageInv, InLoop, GateCommands
<1>4. TerminalReadyCertified' /\ GreenUnlessDrifted'
  BY <1>1 DEF TerminalReadyCertified, GreenUnlessDrifted
<1>5. OneResponseOverrun' /\ PublishedAsReported'
  BY <1>0 DEF IInv, OneResponseOverrun, PublishedAsReported
<1> QED
  BY <1>2, <1>3, <1>4, <1>5 DEF IInv

LEMMA EndInv ==
  ASSUME IInv, Finish \/ TurnLimit \/ BudgetBlock
  PROVE  IInv'
<1>1. /\ tree \in Trees /\ green \in BOOLEAN /\ certified \in Trees \cup {NoTree}
      /\ drift \subseteq {"bound", "interrupted", "tests"}
      /\ green /\ drift = {} => certified = tree
      /\ stage \in InLoop
  BY DEF IInv, TypeOK, GreenUnlessDrifted, Finish, TurnLimit, BudgetBlock, InLoop
<1>2. UNCHANGED <<tree, green, lastAction, patched, certified, drift>>
  BY DEF Finish, TurnLimit, BudgetBlock, toolVars
<1>3. CASE Finish
  BY <1>1, <1>2, <1>3, MakeResultInv DEF Finish
<1>4. CASE TurnLimit
  BY <1>1, <1>2, <1>4, MakeResultInv DEF TurnLimit, Finishes
<1>5. CASE BudgetBlock
  BY <1>1, <1>2, <1>5, MakeResultInv DEF BudgetBlock, Finishes
<1> QED
  BY <1>3, <1>4, <1>5

LEMMA TerminalGateInv == ASSUME IInv, TerminalGate PROVE IInv'
<1>1. /\ tree \in Trees /\ \A t \in Leaves[tree] : t \in Trees
      /\ certified \in Trees \cup {NoTree}
      /\ drift \subseteq {"bound", "interrupted", "tests"}
      /\ stage \in InLoop
  BY WorkerAssumption DEF IInv, TypeOK, TerminalGate, InLoop
<1>2. /\ tree' \in Trees /\ green' \in BOOLEAN
      /\ certified' \in Trees \cup {NoTree}
      /\ drift' \subseteq {"bound", "interrupted", "tests"}
      /\ green' => tree' = certified' /\ tree' = patched /\ tree' # Clean
  <2>1. CASE \E success \in BOOLEAN :
               GateEnds(success) /\ green' = (success /\ tree' = tree)
    BY <1>1, <2>1 DEF GateEnds, TerminalGate, TerminalEligible
  <2>2. CASE GateRaises /\ green' = FALSE
    BY <1>1, <2>2 DEF GateRaises
  <2> QED
    BY <2>1, <2>2 DEF TerminalGate
<1> DEFINE status == IF green' THEN "READY" ELSE "BLOCKED"
           by == IF green' THEN "terminal" ELSE "budget"
<1>3. /\ status \in Finishes /\ by \in {"finish", "terminal", "budget", "turns"}
      /\ status = "READY" => green'
      /\ MakeResult(status, by, green') /\ UNCHANGED <<lastAction, patched>>
  BY DEF Finishes, TerminalGate
<1> HIDE DEF status, by
<1> QED
  BY <1>1, <1>2, <1>3, MakeResultInv

-----------------------------------------------------------------------------
(* The workflow.                                                           *)

LEMMA ControllerGateInv == ASSUME IInv, ControllerGate PROVE IInv'
<1> USE DEF ControllerGate, modelVars
<1>0. /\ result # NoResult /\ result.status = "READY" /\ tree = result.tree
      /\ published = NoTree /\ tree \in Trees
  BY DEF IInv, StageInv, TypeOK
<1>1. /\ tree' \in Leaves[tree] /\ tree' \in Trees
      /\ stage # "pytest" => tree' = tree
  BY <1>0, WorkerAssumption
<1>2. \/ stage = "ruff" /\ stage' = "mypy"
      \/ stage = "mypy" /\ stage' = "pytest"
      \/ stage = "pytest" /\ stage' = "publish"
      \/ stage' = "failed"
  BY DEF GateCommands, NextCommand, Fail
<1>3. TypeOK'
  BY <1>1, <1>2 DEF IInv, TypeOK, Stages, GateCommands, Ended
<1>4. StageInv'
  BY <1>0, <1>1, <1>2 DEF StageInv, InLoop, GateCommands
<1>5. TerminalReadyCertified' /\ OneResponseOverrun' /\ PublishedAsReported'
  BY <1>0 DEF IInv, TerminalReadyCertified, OneResponseOverrun, PublishedAsReported
<1>6. GreenUnlessDrifted'
  BY DEF IInv, GreenUnlessDrifted
<1> QED
  BY <1>3, <1>4, <1>5, <1>6 DEF IInv

LEMMA PublishInv == ASSUME IInv, Publish PROVE IInv'
<1> USE DEF Publish, modelVars, toolVars
<1>1. TypeOK'
  BY DEF IInv, TypeOK, Stages
<1>2. StageInv'
  BY DEF StageInv, InLoop, GateCommands
<1>3. PublishedAsReported'
  BY DEF IInv, StageInv, PublishedAsReported, Publishable
<1>4. TerminalReadyCertified' /\ OneResponseOverrun' /\ GreenUnlessDrifted'
  BY DEF IInv, TerminalReadyCertified, OneResponseOverrun, GreenUnlessDrifted
<1> QED
  BY <1>1, <1>2, <1>3, <1>4 DEF IInv

LEMMA StutterInv == ASSUME IInv, UNCHANGED vars PROVE IInv'
BY DEF IInv, vars, TypeOK, StageInv, GreenUnlessDrifted, TerminalReadyCertified,
       OneResponseOverrun, PublishedAsReported

LEMMA StepInv == IInv /\ [Next]_vars => IInv'
<1> SUFFICES ASSUME IInv, [Next]_vars PROVE IInv'
  OBVIOUS
<1>1. CASE Moves
  BY <1>1, MoveInv
<1>2. CASE Begin
  BY <1>2, BeginInv
<1>3. CASE \E u \in Usages, f \in Functions : Ask(u, f)
  BY <1>3, AskInv
<1>4. CASE Tool
  BY <1>4, ToolInv
<1>5. CASE Finish \/ TurnLimit \/ BudgetBlock
  BY <1>5, EndInv
<1>6. CASE TerminalGate
  BY <1>6, TerminalGateInv
<1>7. CASE ControllerGate
  BY <1>7, ControllerGateInv
<1>8. CASE Publish
  BY <1>8, PublishInv
<1>9. CASE UNCHANGED vars
  BY <1>9, StutterInv
<1> QED
  BY <1>1, <1>2, <1>3, <1>4, <1>5, <1>6, <1>7, <1>8, <1>9 DEF Next, Work, Moves

-----------------------------------------------------------------------------
LEMMA Invariance == Spec => []IInv
<1>1. Init => IInv
  BY InitInv
<1>2. IInv /\ [Next]_vars => IInv'
  BY StepInv
<1> QED
  BY <1>1, <1>2, PTL DEF Spec

(* Every variable of the job has its type: no turn beyond MAX_TURNS, no    *)
(* negative usage, one of the known stages.                                *)
THEOREM WorkerTypes == Spec => []TypeOK
<1>1. IInv => TypeOK
  BY DEF IInv
<1> QED
  BY <1>1, Invariance, PTL

(* A green verdict is about the tree, but for the three ways to change the *)
(* tree that leave it set.                                                 *)
THEOREM WorkerVerdict == Spec => []GreenUnlessDrifted
<1>1. IInv => GreenUnlessDrifted
  BY DEF IInv
<1> QED
  BY <1>1, Invariance, PTL

(* READY at the budget's edge rests on a gate of exactly the reported tree.*)
THEOREM WorkerTerminalReady == Spec => []TerminalReadyCertified
<1>1. IInv => TerminalReadyCertified
  BY DEF IInv
<1> QED
  BY <1>1, Invariance, PTL

(* The token budget is overrun by at most one response.                    *)
THEOREM WorkerOverrun == Spec => []OneResponseOverrun
<1>1. IInv => OneResponseOverrun
  BY DEF IInv
<1> QED
  BY <1>1, Invariance, PTL

(* Only what the worker reported READY and the controller's gate passed is *)
(* published.                                                              *)
THEOREM WorkerPublication == Spec => []PublishedAsReported
<1>1. IInv => PublishedAsReported
  BY DEF IInv
<1> QED
  BY <1>1, Invariance, PTL

(* However the model, the tools and the calls behave, each step of the job *)
(* brings it nearer to its end.                                            *)
THEOREM WorkerAdvances == Spec => JobAdvances
<1>1. ASSUME IInv, IInv', Next PROVE StepsLeft' \in 0 .. (StepsLeft - 1)
  <2> USE WorkerAssumption
  <2>1. /\ turn \in Nat /\ turn' \in Nat /\ MAX_TURNS \in Nat
        /\ turn <= MAX_TURNS /\ turn' <= MAX_TURNS
    BY <1>1 DEF IInv, TypeOK
  <2>2. stage \in Stages \ Ended
    BY <1>1 DEF Next, Work, Unconfirmed, Begin, RefuseRequest, Ask, BadResponse, Tool, Look,
       PatchRefused, PatchApplied, PatchRaised, TargetedPytest, QualityGate, Finish, RefuseFinish,
       TurnLimit, BudgetBlock, TerminalGate, Classify, ControllerGate, SkipPublication, Publish,
       PublicationFails, CompletionCallback, Killed, IInv, TypeOK, Stages, GateCommands, Ended
  <2>3. CASE \E u \in Usages, f \in Functions : Ask(u, f)
    <3>1. stage = "ask" /\ stage' = "act" /\ turn' = turn + 1
      BY <2>3 DEF Ask
    <3>2. StepsLeft = 8 + 2 * (MAX_TURNS - turn) /\ StepsLeft' = 9 + 2 * (MAX_TURNS - turn')
      BY <3>1 DEF StepsLeft, Ahead
    <3> QED
      BY <2>1, <3>1, <3>2
  <2>4. ASSUME ~\E u \in Usages, f \in Functions : Ask(u, f)
        PROVE  turn' = turn /\ Ahead[stage'] \in 0 .. (Ahead[stage] - 1)
    <3>1. turn' = turn
      BY <1>1, <2>4 DEF Next, Work, Unconfirmed, Begin, RefuseRequest, BadResponse, Tool, Look,
         PatchRefused, PatchApplied, PatchRaised, TargetedPytest, QualityGate, Finish,
         RefuseFinish, TurnLimit, BudgetBlock, TerminalGate, Classify, ControllerGate,
         SkipPublication, Publish, PublicationFails, CompletionCallback, Killed, Noted,
         MakeResult, modelVars
    <3>2. \/ stage' \in Ended
          \/ stage = "request" /\ stage' = "ask"
          \/ stage = "act" /\ stage' \in {"ask", "budget", "turns", "classify"}
          \/ stage \in {"budget", "turns"} /\ stage' = "classify"
          \/ stage = "classify" /\ stage' \in {"ruff", "callback"}
          \/ stage = "ruff" /\ stage' = "mypy"
          \/ stage = "mypy" /\ stage' = "pytest"
          \/ stage = "pytest" /\ stage' = "publish"
          \/ stage = "publish" /\ stage' = "callback"
      BY <1>1, <2>4 DEF Next, Work, Unconfirmed, Begin, RefuseRequest, BadResponse, Tool, Look,
         PatchRefused, PatchApplied, PatchRaised, TargetedPytest, QualityGate, Finish,
         RefuseFinish, TurnLimit, BudgetBlock, TerminalGate, Classify, ControllerGate,
         SkipPublication, Publish, PublicationFails, CompletionCallback, Killed, Noted,
         AfterTool, MakeResult, Fail, GateCommands, NextCommand, Ended
    <3> QED
      BY <2>2, <3>1, <3>2 DEF Ahead, Stages, Ended, GateCommands
  <2>5. ASSUME turn' = turn, Ahead[stage'] \in 0 .. (Ahead[stage] - 1)
        PROVE  StepsLeft' \in 0 .. (StepsLeft - 1)
    <3>1. Ahead[stage] \in Nat
      BY <2>2 DEF Ahead, Stages, Ended, GateCommands
    <3> QED
      BY <2>1, <2>5, <3>1 DEF StepsLeft
  <2> QED
    BY <2>3, <2>4, <2>5
<1>2. IInv /\ IInv' /\ [Next]_vars => [StepsLeft' \in 0 .. (StepsLeft - 1)]_vars
  BY <1>1
<1> QED
  BY <1>2, Invariance, PTL DEF Spec, JobAdvances
=============================================================================
