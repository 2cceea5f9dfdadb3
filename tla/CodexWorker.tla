----------------------------- MODULE CodexWorker -----------------------------
(***************************************************************************)
(* One job of the Codex engineer worker: the model loop of worker V5 (the  *)
(* layers V2 to V5 together) on a checkout of the source commit, and the   *)
(* steps of the workflow around it: the controller's own Quality Gate, the *)
(* publication of the candidate and the completion callback.               *)
(*                                                                         *)
(* A tree is the content of the checkout.  What a patch or a test run      *)
(* makes of it is not the worker's to choose: it is any tree.              *)
(***************************************************************************)
EXTENDS Integers, FiniteSets

CONSTANTS
  Trees,              \* the contents the checkout can have
  Clean,              \* that of the source commit: no candidate
  NoTree,             \* no tree at all
  Oversized,          \* the trees with more than MAX_CHANGED_FILES changes
  References,         \* the trees of the historical commits a contract may name
  Leaves,             \* what a test run on a tree may leave in the checkout
  Usages,             \* the usage a response may report
  ResponseCap,        \* what a response may cost, in budget tokens
  MAX_TURNS,
  MAX_TOTAL_TOKENS,
  MAX_REFERENCE_SHAS

Usage == [input : Nat, cached : Nat, write : Nat, output : Nat]

(* Cached input is priced at a tenth of plain input, a cache write at five *)
(* quarters and output at eight times; the result is rounded up.           *)
SpendEquivalent(u) ==
  (20 * (u.input - u.cached - u.write) + 2 * u.cached
     + 25 * u.write + 160 * u.output + 19) \div 20

Counted(u) == u.cached + u.write <= u.input

AddUsage(u, v) ==
  [input  |-> u.input + v.input,   cached |-> u.cached + v.cached,
   write  |-> u.write + v.write,   output |-> u.output + v.output]

ASSUME WorkerAssumption ==
  /\ NoTree \notin Trees
  /\ Clean \in Trees /\ Oversized \subseteq Trees \ {Clean}
  /\ References \subseteq Trees \ {Clean} /\ IsFiniteSet(References)
  /\ Leaves \in [Trees -> SUBSET Trees] /\ \A t \in Trees : t \in Leaves[t]
  /\ Usages \subseteq Usage
  /\ ResponseCap \in Nat
  /\ \A u \in Usages : SpendEquivalent(u) <= ResponseCap
  /\ MAX_TURNS \in Nat \ {0} /\ MAX_TOTAL_TOKENS \in Nat \ {0}
  /\ MAX_REFERENCE_SHAS \in Nat

VARIABLES
  inputs,     \* the inputs of the workflow run and what the contract says
  stage,      \* where the job is
  turn,       \* responses received
  usage,      \* usage_total
  asked,      \* the function the last response calls
  tree,       \* the content of the checkout
  green,      \* tools.last_quality_success
  lastAction, \* tools.last_bounded_action
  patched,    \* tools.last_successful_patch_fingerprint
  result,     \* codex-worker-result.json
  passed,     \* the gate commands the controller saw succeed
  published,  \* the tree of the published commit
  certified,  \* history: the tree the last gate found green, and left as it was
  drift       \* history: what changed the tree since, with green unreset

toolVars == <<tree, green, lastAction, patched, certified, drift>>
modelVars == <<turn, usage, asked>>
jobVars == <<inputs, result, passed, published>>
vars == <<inputs, stage, turn, usage, asked, tree, green, lastAction, patched,
          result, passed, published, certified, drift>>

NoResult == [status |-> "none"]

(* "look" is any of the tools that only read: list_files, read_file,       *)
(* search_text, git_diff and reference_diff.                               *)
Tools == {"look", "apply_patch", "run_targeted_pytest", "run_quality_gate"}
Finishes == {"READY", "BLOCKED"}
Functions == Tools \cup Finishes

GateCommands == {"ruff", "mypy", "pytest"}
Ended == {"no_spend", "failed", "called_back"}
Stages == {"request", "ask", "act", "budget", "turns", "classify", "publish",
           "callback"} \cup GateCommands \cup Ended

Inputs == [confirm : BOOLEAN, publish : BOOLEAN, materialize : BOOLEAN,
           references : SUBSET References]

Results == {NoResult} \cup
  [status : Finishes, by : {"finish", "terminal", "budget", "turns"},
   tree : Trees, green : BOOLEAN, turns : 0 .. MAX_TURNS]

TypeOK ==
  /\ inputs \in Inputs /\ stage \in Stages
  /\ turn \in 0 .. MAX_TURNS /\ usage \in Usage
  /\ asked \in Functions \cup {"none"}
  /\ tree \in Trees /\ green \in BOOLEAN
  /\ lastAction \in Tools \cup {"none", "error", "rejected"}
  /\ patched \in Trees \cup {NoTree}
  /\ result \in Results
  /\ passed \subseteq GateCommands
  /\ published \in Trees \cup {NoTree}
  /\ certified \in Trees \cup {NoTree}
  /\ drift \subseteq {"bound", "interrupted", "tests"}

Init ==
  /\ inputs \in Inputs
  /\ stage = "request" /\ turn = 0 /\ asked = "none"
  /\ usage = [input |-> 0, cached |-> 0, write |-> 0, output |-> 0]
  /\ tree = Clean /\ green = FALSE
  /\ lastAction = "none" /\ patched = NoTree
  /\ result = NoResult /\ passed = {} /\ published = NoTree
  /\ certified = NoTree /\ drift = {}

Fail == stage' = "failed"

-----------------------------------------------------------------------------
(* The request.                                                            *)

Unconfirmed ==
  /\ stage = "request" /\ ~inputs.confirm
  /\ stage' = "no_spend"
  /\ UNCHANGED <<jobVars, modelVars, toolVars>>

(* The historical candidate the objective asks to start from: the only SHA *)
(* the contract names.                                                     *)
Materializable ==
  /\ Cardinality(inputs.references) <= MAX_REFERENCE_SHAS
  /\ inputs.materialize =>
       /\ Cardinality(inputs.references) = 1
       /\ inputs.references \cap Oversized = {}

Begin ==
  /\ stage = "request" /\ inputs.confirm /\ Materializable
  /\ tree' \in IF inputs.materialize THEN inputs.references ELSE {Clean}
  /\ stage' = "ask"
  /\ UNCHANGED <<jobVars, modelVars, green, lastAction, patched, certified, drift>>

(* The request is refused, or the reference delta does not apply.          *)
RefuseRequest ==
  /\ stage = "request" /\ inputs.confirm
  /\ ~Materializable \/ inputs.materialize
  /\ Fail
  /\ UNCHANGED <<jobVars, modelVars, toolVars>>

-----------------------------------------------------------------------------
(* The model loop.                                                         *)

(* Mutant: cached input and cache writes are not priced.                   *)
BudgetLeft_RawTokens == usage.input + usage.output < MAX_TOTAL_TOKENS

BudgetLeft == SpendEquivalent(usage) < MAX_TOTAL_TOKENS

(* Mutant: a response that reports no usage does not count as a turn.      *)
Ask_FreeTurns(u, f) ==
  /\ stage = "ask" /\ BudgetLeft
  /\ turn' = IF u.input + u.output = 0 THEN turn ELSE turn + 1
  /\ usage' = AddUsage(usage, u)
  /\ asked' = f
  /\ stage' = "act"
  /\ UNCHANGED <<jobVars, toolVars>>

Ask(u, f) ==
  /\ stage = "ask" /\ BudgetLeft
  /\ turn' = turn + 1
  /\ usage' = AddUsage(usage, u)
  /\ asked' = f
  /\ stage' = "act"
  /\ UNCHANGED <<jobVars, toolVars>>

(* The call fails, or its response is incomplete or not one function call. *)
BadResponse ==
  /\ stage = "ask" /\ BudgetLeft
  /\ Fail
  /\ UNCHANGED <<jobVars, modelVars, toolVars>>

(* Mutant: no turn limit.                                                  *)
AfterTool_NoTurnLimit ==
  IF ~Counted(usage) THEN "failed" ELSE IF ~BudgetLeft THEN "budget" ELSE "ask"

(* After the tool: usage that does not add up ends the worker without a    *)
(* result, a used-up budget or the last turn with one.                     *)
AfterTool ==
  IF ~Counted(usage) THEN "failed"
  ELSE IF ~BudgetLeft THEN "budget"
  ELSE IF turn = MAX_TURNS THEN "turns" ELSE "ask"

(* V5 records what the tool did.  A tool that raises is answered with its  *)
(* error, and the loop goes on.                                            *)
Noted(action, fingerprint) ==
  /\ lastAction' = action /\ patched' = fingerprint
  /\ stage' = AfterTool
  /\ UNCHANGED <<jobVars, modelVars>>

Look ==
  /\ stage = "act" /\ asked = "look"
  /\ Noted("look", NoTree) \/ Noted("error", NoTree)
  /\ UNCHANGED <<tree, green, certified, drift>>

PatchRefused ==
  /\ stage = "act" /\ asked = "apply_patch"
  /\ Noted("rejected", NoTree) \/ Noted("error", NoTree)
  /\ UNCHANGED <<tree, green, certified, drift>>

(* Mutant: a patch leaves the verdict of the last gate.                    *)
PatchApplied_KeepsVerdict ==
  /\ stage = "act" /\ asked = "apply_patch"
  /\ tree' \in Trees \ Oversized
  /\ Noted("apply_patch", tree')
  /\ UNCHANGED <<green, certified, drift>>

PatchApplied ==
  /\ stage = "act" /\ asked = "apply_patch"
  /\ tree' \in Trees \ Oversized
  /\ green' = FALSE
  /\ Noted("apply_patch", tree')
  /\ UNCHANGED <<certified, drift>>

(* The bound on changed files is checked when the patch is in the tree,    *)
(* and git apply may be stopped by its timeout: the tool raises, and the   *)
(* verdict of an earlier gate stands.                                      *)
PatchRaised ==
  /\ stage = "act" /\ asked = "apply_patch"
  /\ tree' \in Trees
  /\ drift' = drift \cup {IF tree' \in Oversized THEN "bound" ELSE "interrupted"}
  /\ Noted("error", NoTree)
  /\ UNCHANGED <<green, certified>>

TargetedPytest ==
  /\ stage = "act" /\ asked = "run_targeted_pytest"
  /\ \/ /\ tree' \in Leaves[tree]
        /\ drift' = drift \cup (IF tree' = tree THEN {} ELSE {"tests"})
        /\ Noted("run_targeted_pytest", NoTree) \/ Noted("error", NoTree)
     \/ /\ UNCHANGED <<tree, drift>>
        /\ Noted("error", NoTree)
  /\ UNCHANGED <<green, certified>>

(* A full gate that runs to its end.  Its last command is a test run.      *)
GateEnds(success) ==
  /\ tree' \in Leaves[tree]
  /\ certified' = IF success /\ tree' = tree THEN tree ELSE NoTree
  /\ drift' = IF tree' = tree THEN {} ELSE {"tests"}

GateRaises ==
  /\ tree' \in Leaves[tree]
  /\ drift' = drift \cup (IF tree' = tree THEN {} ELSE {"tests"})
  /\ UNCHANGED certified

QualityGate ==
  /\ stage = "act" /\ asked = "run_quality_gate"
  /\ \/ /\ \E success \in BOOLEAN : GateEnds(success) /\ green' = success
        /\ Noted("run_quality_gate", NoTree)
     \/ GateRaises /\ UNCHANGED green /\ Noted("error", NoTree)

-----------------------------------------------------------------------------
(* The ends of the loop.                                                   *)

MakeResult(status, by, verdict) ==
  /\ result' = [status |-> status, by |-> by, tree |-> tree',
                green |-> verdict, turns |-> turn]
  /\ stage' = "classify"
  /\ UNCHANGED <<inputs, passed, published, modelVars>>

FinishRefused == \/ ~Counted(usage)
                 \/ asked = "READY" /\ (tree = Clean \/ ~green)

Finish ==
  /\ stage = "act" /\ asked \in Finishes /\ ~FinishRefused
  /\ UNCHANGED toolVars
  /\ MakeResult(asked, "finish", green)

(* A READY that may not be given ends the worker without a result.         *)
RefuseFinish ==
  /\ stage = "act" /\ asked \in Finishes /\ FinishRefused
  /\ Fail
  /\ UNCHANGED <<jobVars, modelVars, toolVars>>

TurnLimit ==
  /\ stage = "turns"
  /\ UNCHANGED toolVars
  /\ MakeResult("BLOCKED", "turns", green)

(* Only a patch applied by the very last action may still be judged.       *)
TerminalEligible ==
  /\ lastAction = "apply_patch"
  /\ tree # Clean /\ tree = patched

BudgetBlock ==
  /\ stage = "budget" /\ ~TerminalEligible
  /\ UNCHANGED toolVars
  /\ MakeResult("BLOCKED", "budget", green)

(* Mutant: a green gate counts even if it changed the tree.                *)
TerminalGate_AnyTree ==
  /\ stage = "budget" /\ TerminalEligible
  /\ UNCHANGED <<lastAction, patched>>
  /\ \E success \in BOOLEAN : GateEnds(success) /\ green' = success
  /\ MakeResult(IF green' THEN "READY" ELSE "BLOCKED",
                IF green' THEN "terminal" ELSE "budget", green')

(* A green gate counts when the tree is the same after it as before.       *)
TerminalGate ==
  /\ stage = "budget" /\ TerminalEligible
  /\ UNCHANGED <<lastAction, patched>>
  /\ \/ \E success \in BOOLEAN :
          GateEnds(success) /\ green' = (success /\ tree' = tree)
     \/ GateRaises /\ green' = FALSE
  /\ MakeResult(IF green' THEN "READY" ELSE "BLOCKED",
                IF green' THEN "terminal" ELSE "budget", green')

-----------------------------------------------------------------------------
(* The workflow after the worker.                                          *)

Classify ==
  /\ stage = "classify"
  /\ stage' = IF result.status = "READY" THEN "ruff" ELSE "callback"
  /\ UNCHANGED <<jobVars, modelVars, toolVars>>

NextCommand == [ruff |-> "mypy", mypy |-> "pytest", pytest |-> "publish"]

(* Mutant: the controller lets ruff repair what it finds.                  *)
ControllerGate_Fixes ==
  /\ stage \in GateCommands
  /\ CASE stage = "ruff" -> tree' \in Trees
       [] stage = "pytest" -> tree' \in Leaves[tree]
       [] OTHER -> UNCHANGED tree
  /\ \/ passed' = passed \cup {stage} /\ stage' = NextCommand[stage]
     \/ Fail /\ UNCHANGED passed
  /\ UNCHANGED <<inputs, result, published, modelVars>>
  /\ UNCHANGED <<green, lastAction, patched, certified, drift>>

(* The controller reruns a command of the gate; a red one ends the job.    *)
ControllerGate ==
  /\ stage \in GateCommands
  /\ IF stage = "pytest" THEN tree' \in Leaves[tree] ELSE UNCHANGED tree
  /\ \/ passed' = passed \cup {stage} /\ stage' = NextCommand[stage]
     \/ Fail /\ UNCHANGED passed
  /\ UNCHANGED <<inputs, result, published, modelVars>>
  /\ drift' = drift \cup (IF tree' = tree THEN {} ELSE {"tests"})
  /\ UNCHANGED <<green, lastAction, patched, certified>>

SkipPublication ==
  /\ stage = "publish" /\ ~inputs.publish
  /\ stage' = "callback"
  /\ UNCHANGED <<jobVars, modelVars, toolVars>>

(* What the publisher asks of the result and of the controller's gate.  It *)
(* does not compare the tree with the fingerprint in the result.           *)
Publishable ==
  /\ result.status = "READY" /\ result.green
  /\ passed = GateCommands
  /\ tree # Clean

Publish ==
  /\ stage = "publish" /\ inputs.publish /\ Publishable
  /\ published' = tree
  /\ stage' = "callback"
  /\ UNCHANGED <<inputs, result, passed, modelVars, toolVars>>

(* The publisher refuses the candidate, or one of its calls fails.         *)
PublicationFails ==
  /\ stage = "publish" /\ inputs.publish
  /\ Fail
  /\ UNCHANGED <<jobVars, modelVars, toolVars>>

CompletionCallback ==
  /\ stage = "callback"
  /\ stage' \in {"called_back", "failed"}
  /\ UNCHANGED <<jobVars, modelVars, toolVars>>

(* The runner is lost, or the job is cancelled.                            *)
Killed ==
  /\ stage \notin Ended
  /\ Fail
  /\ UNCHANGED <<jobVars, modelVars, toolVars>>

Tool == Look \/ PatchRefused \/ PatchApplied \/ PatchRaised
          \/ TargetedPytest \/ QualityGate

Work ==
  \/ Unconfirmed \/ Begin \/ RefuseRequest
  \/ \E u \in Usages, f \in Functions : Ask(u, f)
  \/ BadResponse
  \/ Tool
  \/ Finish \/ RefuseFinish \/ TurnLimit \/ BudgetBlock \/ TerminalGate
  \/ Classify \/ ControllerGate
  \/ SkipPublication \/ Publish \/ PublicationFails
  \/ CompletionCallback

Next == Work \/ Killed

(* The steps of a job run one after the other, and each has a timeout of   *)
(* its own: the API call, the tools, the step that calls back.             *)
Spec == Init /\ [][Next]_vars /\ WF_vars(Work)

-----------------------------------------------------------------------------
(* A green verdict that is still set is about the tree as it is, unless    *)
(* the tree was changed in one of three ways that do not reset it: a patch *)
(* stopped by the bound on changed files after it was applied, one stopped *)
(* halfway, or a test run that writes to the checkout.                     *)
GreenUnlessDrifted ==
  green /\ drift = {} => certified = tree

(* When the budget ends the loop, READY rests on a full gate of exactly    *)
(* the reported tree, which is the one the last patch of the model left.   *)
TerminalReadyCertified ==
  (result # NoResult /\ result.status = "READY" /\ result.by = "terminal") =>
    /\ result.tree = certified
    /\ result.tree = patched
    /\ result.tree # Clean

(* The budget is exceeded by at most the cost of one response, whatever    *)
(* the responses report and however their costs round.                     *)
OneResponseOverrun ==
  SpendEquivalent(usage) < MAX_TOTAL_TOKENS + ResponseCap

(* What is published is a READY candidate that passed all of the           *)
(* controller's gate, and differs from the tree the worker reported by no  *)
(* more than what the controller's own test run left.                      *)
PublishedAsReported ==
  published # NoTree =>
    /\ result.status = "READY"
    /\ passed = GateCommands
    /\ published \in Leaves[result.tree]

(* CODEX-BOUNDED-ENGINEERING-WORKER-010.md:39: READY requires the worker's *)
(* full gate after the final patch, so the reported tree is one a gate     *)
(* found green.  The code does not guarantee it.                           *)
ReadyRestsOnGate ==
  (result # NoResult /\ result.status = "READY") => result.tree = certified

(* The steps that lie ahead of a job at most: those from its stage on, and *)
(* two for each response that may still come.                              *)
Ahead == [request |-> 9, act |-> 9, ask |-> 8, budget |-> 7, turns |-> 7,
          classify |-> 6, ruff |-> 5, mypy |-> 4, pytest |-> 3, publish |-> 2,
          callback |-> 1, called_back |-> 0, failed |-> 0, no_spend |-> 0]

StepsLeft == Ahead[stage] + 2 * (MAX_TURNS - turn)

(* Whatever the model asks for, and whatever a tool, a test run or a call  *)
(* makes of it, each step of the job brings it nearer to its end: it takes *)
(* at most nine steps and two for each turn.                               *)
JobAdvances == [][StepsLeft' \in 0 .. (StepsLeft - 1)]_vars

(* Every job ends: the loop runs out of turns or budget, and nothing that  *)
(* follows it waits.                                                       *)
EveryJobEnds == <>(stage \in Ended)
=============================================================================
