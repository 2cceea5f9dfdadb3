# Verification of the QORE AI orchestrator

TLA+ models of the orchestrator's control plane (`scripts/`,
`.github/workflows/`), TLC configurations that check them, and theorems checked
by TLAPS.  Paths below are relative to the repository root; `R` stands for
`scripts/resume_after_agent_completion.py` and `V2` for
`scripts/resume_after_agent_completion_v2.py`.

## 1. The system

The orchestrator is a set of GitHub Actions workflows and the Python scripts
they run.  A cycle of *Autonomous V2* asks a model (Sol) for a decision and
delegates at most one piece of work: an engineering package to the Codex
worker, or a review to an external reviewer (Claude, DeepSeek).  When that work
completes, the *resume gate* decides whether a fresh cycle may start without a
human.  There is no database: all state is GitHub's (workflow runs, artifacts,
branches, files of the reviewer repositories).  Listings of workflow runs lag.

| Component | State it keeps | Operations | What is hard | What makes it correct |
|---|---|---|---|---|
| Completion-resume gate (`R`, `V2`, `qore-agent-completion-resume.yml`) | one receipt per gate run (an artifact) | verify a completion live, bind it to its parent, read recent receipts, decide, dispatch, observe the child, write the receipt | duplicate delivery, a dispatch that is accepted but not observed, a bounded window of receipts, other dispatchers | one dispatch per event that left a receipt; lineages never merge; caps hold for every dispatch |
| Pre-spend recovery (`recover_pre_spend_architect.py`, `select_architect_recovery_mode.py`) | receipts | recover the child of one receipt that its snapshot gate stopped | the same failure asked for by `workflow_run` and by push | no second recovery past a receipt that can be read, counters kept |
| Post-spend recovery (`recover_post_spend_architect.py`) | receipts | recover the seed of a rearmed session whose first pass ran out of tokens | attempts that were stopped also count | one recovery, caps hold |
| Budget rearm (`rearm_autonomy.py`) | one receipt per rearm run | check a stopped receipt, dispatch a new seed | checks may be stale at the dispatch; no receipt when the child is not observed | no second rearm past a rearm receipt that can be read |
| Architect cycle (`qore-architect-autonomous-v2.yml`, `run_sol_architect_v2.py`, `evaluate_sol_escalation.py`, `validate_architect_continuation.py`) | artifacts of the run | collect state, validate it, Sol pass, escalation, one reconstruction, loop guard, delegate | the world moves between the snapshot and the delegation; usage records that a later pass overwrites | at most three Sol calls, all charged; the delegation is about what Sol saw; a green end is a boundary |
| Codex dispatch (`dispatch_codex_worker.py`) | - | dispatch a content-derived package unless a recent run has it | look-back of 50 runs | a package is not worked on twice |
| Codex worker (`run_codex_engineer_worker_v2..v5.py`, `codex-engineer-worker.yml`) | a checkout, a candidate patch, budgets | bounded tool loop, patches, quality gate, finish, the controller's own gate, callback | budgets ending in the middle of a patch; a quality result that is stale; a patch that is refused after it was applied | READY only for the tree the last green gate ran on; the budget exceeded by one response at most |
| Candidate publication (`publish_codex_candidate_v2.py`, `qore-harness-candidate-materialize.yml`, `build_candidate_binding*.py`) | branch, commit, pull request | push, open pull request, materialize a correction, bind | partial failure, re-run, people at the same branch, a merge commit computed late | a re-run resumes what the interrupted one left; no commit is lost; the binding is exact |
| Completion event and replay (`build_codex_completion_event.py`, `qore-codex-completion-replay.yml`) | - | send the event of a completed worker run | lost, duplicated | harmless when repeated |
| Reviewer dispatch and recovery (`dispatch_reviewer_request*.py`, `trigger_reviewer_recovery*.py`, `prepare_reviewer_recovery.py`) | files of the reviewer repository, recovery runs | two writes (prompt, request), recovery with at most three attempts | the writes are not atomic; history listed late; a lost answer; re-runs | the standing review stage is requested again only when its review is dead |
| State and context (`collect_*`, `build_model_context.py`, `augment_*`, `compact_packets_v2.py`, ...) | - | read GitHub, shape JSON | sources read one after the other, each may fail | no paid call on incomplete evidence |
| Reviewer packages (`build_reviewer_package*.py`, `build_preauthorized_*`, `validate_preauthorized_chain_callback.py`) | - | freeze a candidate, check its gate and earlier reviews, build a package; validate a callback | these are read at different times while the candidate moves; package ids without a head | a review is about the candidate that was decided on, gated and, in a chain, reviewed before |
| Completion observer (`observe_completion_shadow.py`, `review_verdict_evidence.py`, `review_sequence_shadow.py`) | - | read a completion and its verdict, advise the next stage | re-runs that publish again; late observation | advice follows from clean reviews of one candidate and does not change |
| Economic control plane (`economic_*`, `optimization_activation_policy.py`, `evidence_reuse_policy.py`, `*_shadow.py`) | - | pure decisions | boundaries, rounding, two implementations of one rule | monotone; never authorises more than stated |
| Fable audit (`fable_*.py`) | - | selection, estimates, delta plan | ratios that round, missing dependents | every token priced; kept evidence rests on kept evidence |
| Analyzers, connection tests, CI | - | reports, probes | - | - |

### How they interact

```
person --dispatch--> architect run --delegates--> agent run (Codex / reviewer)
   |                     ^   |                        |
   |                     |   |workflow_run            | workflow_run and/or
   |                     |   v                        v repository_dispatch
   |--push request--> resume gate  <------------------+
   |                     |  reads receipts of recent gate runs,
   |                     |  lists architect runs, dispatches, observes, writes
   '--rearm--> rearm ----'  its receipt
```

A worker run ends in a pull request of qore-core (publication), which the
materializer may correct; the observer binds the candidate, and the chain of
reviews is about that binding.

Each of the three workflows has a concurrency group: one run in progress and
one waiting; a newer run cancels the one that waits.  Gate, rearm, architects
and agents otherwise run in parallel.

## 2. Modules

| Module | Models | How it corresponds to the code |
|---|---|---|
| `SolPasses` | the paid calls of one architect run, made and as the gate reads them off its artifact | `TrueSolCalls`, and the parts of `architect_cost` |
| `ResumeReceipts` | the pure part of the gate and the recoveries | `BuildReceipt`, `StopReason`, `ArchitectCost`, `PriorEvents`, `LineageReceipts`, `CopyLineage`, `PostSpendStop` are the functions of the same or a similar name in `R` and the recovery scripts |
| `AutonomyControl` | the control loop: architect runs, agents, gate, recoveries, rearm, people and faults | one action per step that other actors can see between (below) |
| `BoundedAutonomy` | abstract specification: an append-only set of grants, each legal when it was given | refined by `AutonomyControl` with `grants <- Dispatched` |
| `ArchitectRun` | abstract specification: what one architect run is to the workflows around it | implemented by `ArchitectCycle` and obeyed by every run of `AutonomyControl` (below) |
| `AutonomyControl_typing`, `AutonomyControl_proofs` | theorems | section 5 |
| `MCAutonomyControl` | constants for TLC | |
| `ReviewerDispatch` | how review packages reach one reviewer repository: both dispatch scripts, the recovery workflow, its trigger and retries | one action per step between two calls that another actor can see (below) |
| `ReviewRequests` | abstract specification: a log of requests in which a standing review stage is requested again only when its review is dead | refined by `ReviewerDispatch` with `Package <- Packages` |
| `MCReviewerDispatch` | constants for TLC | |
| `ReviewerDispatch_proofs` | theorems | section 5 |
| `CodexWorker` | one worker job: the loop of V5, the controller's gate, publication, callback | one action per tool and per step of the workflow (below) |
| `MCCodexWorker` | constants for TLC | |
| `CodexWorker_proofs` | theorems | section 5 |
| `CandidatePublication` | publication, materialization and binding of one contract's branch | one action per call; people act between any two (below) |
| `CandidatePublication_proofs` | theorems | section 5 |
| `ArchitectCycle` | one run of the architect workflow | one action per step of the workflow that calls or decides (below) |
| `MCArchitectCycle` | constants for TLC | |
| `ArchitectCycle_proofs` | theorems | section 5 |
| `EconomicPolicies` | the pure decisions of the economic control plane, the shadow controllers and the Fable scripts | one operator per function |
| `EconomicPolicies_proofs` | theorems | section 5 |
| `ReviewChain` | the preauthorized chain of reviews and the observer of completions; uses the decisions of `EconomicPolicies` | one action per read that the candidate may move between, also those of an architect run that asks for a review itself (below) |
| `MCReviewChain` | constants for TLC | |
| `ReviewChain_proofs` | theorems | section 5 |

How the modules meet: `AutonomyControl` takes an architect run and a worker
run as actors that delegate, end and call back; `ArchitectCycle` and
`CodexWorker` are what happens inside one.  `ArchitectRun` is the interface for
architect runs: a run pays for at most three calls, delegates at most once and
pays for nothing afterwards, is then charged what `ResumeReceipts` charges for
the passes it made, and one that the recoveries would run again delegated
nothing and paid for no call (`pre_spend`) or for exactly one
(`sol_incomplete`).  The workflow stays within the interface (`CycleIsRun`, by
a refinement of `ArchitectCycle`: `work`, the failed step, the usage files),
and so does each run of the control loop (`RunsAreArchitectRuns`).  Both say
"no more than": that the loop's runs do everything a cycle may do is not
stated, and is read off `MayEnd` and `ArchitectIssues`, which allow every
outcome and every combination of passes that the interface has.  That runs end
is `EveryCycleEnds`, `EveryJobEnds`.
`ReviewerDispatch` is what `PublishRequest` of `ArchitectCycle` and `Dispatch`
of `ReviewChain` do in two writes.  `CodexWorker`'s `Publish` is the job of
`CandidatePublication`.

### State and actions of `AutonomyControl`

| Variable | In the system |
|---|---|
| `run`, `listed` | architect runs; which of them GitHub's listing shows |
| `agent`, `codexRuns` | the agent run of an architect run; packages of the worker runs, oldest first |
| `notices`, `pending` | events not yet a gate run; the gate run that waits in the concurrency group |
| `gate`, `ledger`, `lastId` | the gate run in progress; uploaded receipts; number of the newest gate run |
| `rearm`, `rearms`, `lastRearm` | the same for `rearm_autonomy.py` |
| `truth`, `newest`, `sound` | history only: the gate or rearm run and the event a run was really dispatched for, the resumes and retries since a person last acted, how often its lineage was lost (`missed`); how far back a gate run looked; whether it found the receipt that dispatched the run it continues |
| `disturbances` | how many human acts and faults there have been (a bound) |

| Action | Code |
|---|---|
| `ArchitectIssues`, `ArchitectEnds` | a cycle delegates; a run completes, which lets the waiting one start and tells the gate |
| `AgentCompletes`, `AgentFails` | the agent's run ends with something the gate can read, or with nothing; a Codex worker's end is delivered as `workflow_run`, and a successful one's also as `repository_dispatch` |
| `Deliver` | an event becomes a waiting gate run and cancels the one that waited |
| `GateAgent` | `V2.main` up to the dispatch: validation, duplicate, lineage, `build_receipt` |
| `GatePreSpend`, `GatePostSpend` | `recover` of the two recovery scripts |
| `GatePosts`, `GateObserves`, `GateGivesUp` | `dispatch_architect`: snapshot and POST; exactly one new run; none or several |
| `GateCrashes`, `LoseNotice` | a lost runner, a job timeout, a failed upload; an event that never arrives |
| `RearmChecks`, `RearmPosts`, `RearmObserves`, `RearmGivesUp` | `rearm_autonomy.main` |
| `ManualDispatch`, `RequestRecovery`, `RunDiagnostic`, `RerunAgent`, `ReplayCallback` | what people do |

The gate's decision is one step although it makes many calls: gate runs are
serialised by their group, everything it reads about its event is final, and
no one else writes receipts.  Everything that another actor can change between
two calls is a separate step: decision, snapshot and POST, each poll's result,
the upload (which the crash action can prevent).

Abstractions:

* Costs are whole units; an uncertain cost is the reserve the code uses.
* Receipts that only say why nothing was done are left out of `ledger`: no
  controller reads them.  Their gate run still uses a number, takes the place
  of the waiting run and pushes older receipts out of the scan
  (`IdleGateRuns`).
* `listed` only grows, and a run that has delegated or ended is listed: these
  happen minutes after creation.  Younger runs may or may not be shown.  The
  gate and worker runs that the rearm checks are seen exactly.
* `"package"` covers success and failure of a run that delegated; `"ended"`
  covers every end without delegation that the controllers treat alike.
* `parse_codex_event` (`R:271-320`) does not look at the conclusion of a worker
  run: one that failed or was cancelled is resumed from when it left its
  artifact, at the reserved cost when it left no usage
  (`SOL-CODEX-AUTONOMOUS-RESUME-011.md:89`).  Such an end is `AgentCompletes`
  with one copy; `AgentFails` is a worker without an artifact, whose gate run
  finds nothing, and a review that failed and calls nobody.
* A dispatch that is accepted but not observed (`GateGivesUp`, `RearmGivesUp`)
  or whose receipt is not uploaded (`GateCrashes`) leaves a run that no receipt
  claims, as in the code.  `truth` follows such runs: it says for which event a
  run was dispatched even when nothing else does, and `missed` counts how often
  the loop took a run it had dispatched itself for the first of a session.
* A package is a number: a Codex package's name is a hash of its content and
  can recur, a review's name contains its run and cannot.

Not in this module: re-runs of an architect run, expired artifacts (read as an
error, that is "declines"), reviewer packages recovered by the reviewer-recovery
workflow (`R:208-270`), and the one pinned legacy run of the post-spend script.

### State and actions of `ReviewerDispatch`

```
architect run --fails--> trigger --dispatches--> recovery run
      |                  (one at a time)              |  (one at a time per source)
      '---- prompt, requests/current.json ------------'
                            |
                  reviewer repository --push--> review
```

| Variable | In the system |
|---|---|
| `run`, `pc`, `attempt` | architect and recovery runs with their source; how far each is; how often it was started |
| `draft` | what a run packages: the decision (main, kind of review) and the target it read |
| `sha` | the version of `requests/current.json` a run has read |
| `artifact` | what the uploaded artifact shows of a run: nothing usable, the decision (and which), or a reviewer package too |
| `listed` | the recovery runs GitHub's listing shows |
| `prompts`, `requests` | prompts in the reviewer repository; the versions of `current.json`, oldest first |
| `reviews` | how the review of a package has ended |
| `asked`, `trigger`, `receipts` | failed runs whose recovery was asked for; the trigger run in progress; the recoveries triggers have observed |

| Action | Code |
|---|---|
| `ArchitectDecides`, `BuildsPackage`, `PackagingFails` | the cycle reaches "Build reviewer package" with Sol's decision; the target is read as the package is built; a recovery first rehydrates the decision of its source (`prepare_reviewer_recovery.py`) |
| `ReadsCurrent` | prompt check, read of `current.json`, duplicate and equivalence checks of both dispatch scripts |
| `ChecksPrior` | `terminal_failed_equivalent_is_retryable` |
| `PutsPrompt`, `PutsRequest` | the two writes; the second carries the SHA that was read |
| `CallFails`, `AnswerLost`, `Crashes`, `Reruns` | a call fails; a write succeeds but its answer is lost; a lost runner; a person runs a run again |
| `DecidesOtherwise` | an architect that is run again decides on no review here, or fails before it |
| `TriggerChecks`, `TriggerPosts`, `TriggerObserves`, `TriggerGivesUp` | `trigger_reviewer_recovery.py` and `retry_eligible`, `dispatch_recovery_retry_aware` |
| `AskAgain`, `ManualRecovery` | a pushed recovery request; the recovery workflow dispatched by hand |
| `ReviewEnds` | the reviewer repository (external) |

A package id is made of the run id and, of the decision, the main and the kind
of review (`build_reviewer_package.py:380-398`), and so is a package of the
model.  An architect that is run again collects its state and asks Sol again, so
it takes any decision and may build another package for another stage; a
recovery that is run again rehydrates what its source's artifact then shows. The
blob SHA of `current.json` is a hash of its content, so it is modelled by the
package the content names.  (One run's packages with one id but different
targets are one value: such a package is refused by its prompt.)  The artifact
of a re-run may replace the earlier one, be refused, or make two: all three are
possible.  A recovery run that has ended is listed, a younger one may or may not
be, and the listing only grows.  A trigger event that a newer one displaces is
never taken, which the model allows because it has no fairness; trigger runs
that find nothing to recover change nothing and are left out, and so are the
pages of the listing (50 and 100 runs, three attempts).  Whether a review has
started or runs cannot be told apart by any reader: only its end is an action.

Not in this module: reviews that are run again in the reviewer repository, a
second review run for one package (`len(runs) != 1` is then a refusal), an
expired artifact, and other writers of the reviewer repository.

### State and actions of `CodexWorker`

| Variable | In the system |
|---|---|
| `inputs` | the run's inputs, and what the contract says: confirmation, references, modes |
| `stage`, `turn`, `asked` | where the job is, the responses received, the tool the last one asks for |
| `usage` | `usage_total`, the four classes of tokens |
| `tree` | the content of the checkout |
| `green`, `lastAction`, `patched` | `last_quality_success`, `last_bounded_action`, the fingerprint of the last patch |
| `result`, `passed`, `published` | the worker's result, the commands of the controller's gate that passed, the published tree |
| `certified`, `drift` | history: the tree the last green gate ran on; how the tree changed since without a reset of the verdict |

| Action | Code |
|---|---|
| `Unconfirmed`, `Begin`, `RefuseRequest` | `no-spend`; the checks of the request and the materialization of a reference (V4) |
| `Ask`, `BadResponse` | one call of the model, with the budget looked at before it (V3) |
| `Look`, `PatchRefused`, `PatchApplied`, `PatchRaised`, `TargetedPytest`, `QualityGate` | the tools of `LocalTools`; a patch may be refused untouched, applied, or applied and then refused |
| `Finish`, `RefuseFinish`, `TurnLimit`, `BudgetBlock`, `TerminalGate` | the ways the loop ends; the last is V5's gate after the budget |
| `Classify`, `ControllerGate`, `SkipPublication`, `Publish`, `PublicationFails`, `CompletionCallback` | the steps of the workflow after the worker |
| `Killed` | the job's time limit or a lost runner, at any step |

A tree is one value; a patch makes any tree of it, since what the model writes
is not the program's to choose.  A test run leaves any tree of `Leaves`.

### State and actions of `CandidatePublication`

| Variable | In the system |
|---|---|
| `main`, `branch`, `pulls` | qore-core: the version of main, the contract's branch and its pull requests |
| `job`, `publication` | the publication job and its `codex-publication.json` |
| `mat` | a run of the materialization workflow |
| `observed` | what the observer said of the last completed job |
| `quiet` | history: nobody else acted since the job began |

`LookUpBranch`, `PushCandidate` are the two halves of `push_branch`,
`LookUpPulls`, `CreatePull` those of `ensure_pr`; `CheckPull`, `CommitPatch`,
`PushMaterialized`, `VerifyLive` are steps of the materialization; `ObserveCodex`
is `_codex_completion` with `build_candidate_binding_api`.  `LoseJob` ends
either job between two calls.  The other actions are GitHub's (`Recompute`)
and people's.  A commit is the sequence of the trees since the source commit,
so that the deterministic commit of a repeated job is the same value.

### State and actions of `ArchitectCycle`

| Variable | In the system |
|---|---|
| `main`, `pull`, `ci`, `verdicts`, `requests`, `running`, `workers` | the world the run looks at |
| `inputs`, `checkout` | the run's inputs and secrets, and the main it has checked out |
| `pc`, `pass` | the step, and which Sol call it is about |
| `core`, `seen`, `active`, `faults` | the three parts of the snapshot; the sources that failed |
| `effort`, `decision`, `usageInitial`, `usageFinal`, `before` | the decision with its effort, the two usage files, the decision before a reconstruction |
| `package` | the reviewer package with its freeze |
| `work`, `failed` | what the run has handed to an agent; the step, with its pass, that GitHub shows as failed |
| `calls` | history: the evidence each paid call was made on |

`CollectCore`, `CollectReviewers`, `CollectCodex` read one part each,
`ValidateSnapshot` is the check before the first call, `SolAnswers` and
`SolFails` a paid call, `Escalate` and `Preliminary` the decisions after it,
`Route` the final validation.  `LookUpWorker`, `PostWorker`, `ObserveWorker` are
`dispatch_codex_worker.main`, `ResolveFreeze`, `BuildPackage`, `PublishRequest`
the frozen package and its dispatch, `RecordDispatch` what the script writes
down after it.  `Fails` is an error of any step, also of one that has already
delegated.  Of Sol's decision the status and the item it names are kept.

### State and actions of `ReviewChain`

| Variable | In the system |
|---|---|
| `main`, `head`, `builtOn`, `merge`, `gates` | the candidate: versions, the merge commit GitHub shows, the merge commits QORE CI passed on |
| `builder` | a run of `build_preauthorized_reviewer_package.py` that has found its candidate live |
| `drafts` | architect runs on their way to a review of their own: the snapshot, and the review with its freeze once it is resolved |
| `requests`, `runs`, `reviews` | the packages given to reviewers, the runs for them, the texts published |
| `observer`, `advice` | a run of the observer that has read its event; what was last said of each request |

`StartStage` reads the pull request, `BuildStage` the gate and the reviews and
dispatches.  Outside a chain, `Collects` makes the snapshot of an architect
run, `ResolvesFreeze` reads the live pull request after Sol's decision, and
`OrdinaryPackage` checks the gate and dispatches.  The autonomous workflow and
the review recovery run the builder through `build_reviewer_package_frozen_qg.py`
(`FrozenQuality`): the quality summary is that of a DeepSeek request of the
snapshot with the very same freeze, and only its run is read again, by the head.
`qore-architect-readonly.yml:319` still runs it with the gate of the newest log
(`QualityGate`); either may build a package here.  Main and the Expert's
evidence are those of the snapshot.  `DraftStops` is an architect run that does
not come so far.
`ReviewEnds` a reviewer's run with any end (external), `ObserveEvent` and
`ReadVerdict` the two reads of `_reviewer_completion`.  Choices: the pull
request is never closed, since that stops only what a push stops as well; a
chain is that of the live candidate when its stage starts, for a chain of any
other binding is refused by the first check; gate and reviews are one read,
because a review is published only while the candidate is live, so that one
that comes between the two reads could have come before both; a text is the
set of markers it holds, since nothing else of it is looked at.  The risk tier
is not modelled: `default_review_plan` is the same for every tier.  A snapshot
is one read after main's: a summary is of the request that is current, an
earlier one could have been read by a snapshot made earlier.  The dispatcher's
refusal of a request for the stage and candidate that are current is left out,
because a recovery may replace that request: the model gives reviewers more.

`EconomicPolicies` has no state.  It keeps the guards and their order of each
decision; paths are sets, prices and tokens naturals, rates are parts of a
hundred.  Left out: ledgers and packets (values that are built and
serialized), and the replay over recorded runs.

## 3. Runs

| Run | Question | Bounds and why they are enough |
|---|---|---|
| `sessions` | do packages recur in a session, how many runs follow without a person, when is a dispatch repeated, does every run keep to `ArchitectRun`? | 4 architect runs, cap of 3 resumes: the session can end by each cap; two package contents (told apart only by equality, so symmetric) and a look-back of one make a forgotten package recur; runs fail and dispatches stay unobserved without a disturbance, and one push asks for a recovery that an event asked for, also after a resume |
| `interference` | every kind of human act and fault, two per behaviour | 3 runs, tight caps, a scan of 4 receipts and 2 rearms: the windows are passed, two dispatchers meet, a stopped receipt is rearmed twice |
| `duplicate` (violation) | does one completion start at most one run? | no fault needed |
| `prespend` (violation) | is there one pre-spend recovery per session? | no fault needed |
| `reviewer_requests` | do writers that meet, lost answers and re-runs keep the promise of `ReviewRequests`, what does the trigger retry, do the groups hold? | 3 runs: architects, or a source and its recoveries up to the cap of two; one disturbance of any kind between any two steps; two decisions that differ in main and in the kind of review |
| `worker_job` | what do READY, a publication and the budget rest on, and does every job end? | 3 turns: a gate, a patch and a finish fit into one job; two ordinary trees, one over the bound on files, one reference; four usages, of which some round up and one is mostly cached; a budget of 20 that one response of 12 can pass |
| `worker_stale` (violation) | does READY rest on a gate of the reported tree? | the same with tests that leave the checkout alone |
| `publication` | is an interrupted publication resumed, is a commit ever lost, is a binding exact? | 3 attempts, two candidates: a job, its repetition with the same or another candidate, a correction; 3 pull requests; two acts of people or faults between any two calls |
| `cycle` | is a run's delegation about what Sol saw, are its calls counted, is its end a boundary, is it what its artifact says, does it end? | two heads, one engineering package, three efforts, all statuses of a decision; two disturbances: the candidate moves and CI or a worker ends; five kinds of inputs |
| `human_gate` (violation) | does a human gate surface only from a call at the highest effort? | the same without disturbances |
| `review_chain` | are reviews, advice and callback about one candidate? | one chain, three requests (a whole chain), two moves of head or main, one re-run, ends that publish one of two texts or nothing |
| `ordinary_reviews` | has each reviewer's candidate passed its own gate, whoever asked? | a chain and an ordinary architect run, three requests (one with the summary, the one that takes it, and a third), one move of head or main between any two reads |

`MaxRuns` bounds creation of architect runs, `MaxDisturbances` the human acts
and faults, `Disturbances` selects their kinds, `CodexScan`,
`MAX_RECEIPT_SCAN` and `MAX_REARM_SCAN` are the code's 50, 40 and 40 made
small so that they are exceeded.  `MAX_SOL_CALLS_PER_ARCHITECT_RUN` (3), the
recovery caps (1) and the order of caps are the code's; the policy's caps are
small so that every stop happens.  For the code's `MAX_RECOVERY_ATTEMPTS` (3)
`reviewer_requests` uses 2; a decision is what requests are compared by, main
and the kind of review.  It covers the DeepSeek repository, the only one whose
requests may be superseded; without that the rules of the Claude repository are
the same.  Deadlock is not checked: the systems rest when all work
has ended.

Properties of the passing runs:

* `TypeOK` - also: one gate run waits, an agent belongs to a run that delegated.
* `WithinCaps` - a receipt that dispatched was within the whole policy and left
  room for three more Sol calls.
* `TrueSolWithinCap` - the same about the calls really made, although the usage
  file of an escalated pass may have been overwritten.
* `FiniteAutonomy` - the resumes that really happened since a person last acted,
  and the retries since the last resume, are within the policy, and exceed it
  by one tranche for each time the loop took a run it had dispatched itself for
  the first of a session (`missed`).  Nothing bounds how often that happens: see
  section 4.
* `NoRepeatedPackage` - a lineage never works on a package twice.
* `OneDispatchPerEvent` - among receipts, as far as the scan reaches.
* `RepeatedOnlyUnseen` - of the runs really dispatched, two are for the same
  completion or failed run only if the first left no receipt, or one that the
  gate run of the second did not see any more.
* `ChildClaimedOnce` - no run is the child of two receipts.
* `RearmedOnlyUnseen` - of the runs really dispatched, two are rearms of one
  stopped receipt only if the first left no rearm receipt, or one that the scan
  of rearms did not reach any more.
* `KeepsPromise` - `AutonomyControl` implements `BoundedAutonomy`: grants are
  never withdrawn, each extends exactly the one grant that claims its parent.
* `RunsAreArchitectRuns` - each architect run of the loop behaves as
  `ArchitectRun`: no controller or person changes what it delegated, what it is
  charged or how it ended.

Of `ReviewerDispatch`:

* `TypeOK` - also: the concurrency groups hold, and no request points to a
  prompt that is not there.
* `KeepsRequests` - `ReviewerDispatch` implements `ReviewRequests`.
* `RetriesOnlyWhatFailed` - of the attempts the trigger has observed, all have
  failed without a write before another one is dispatched, and there are fewer
  than the cap.  A person who runs an attempt again takes it out of this.
* `RecoveredUnwritten` - a decision whose recovery was written had not been
  written by its source, unless a person ran the source again.

Of `CodexWorker`:

* `GreenUnlessDrifted` - a green verdict that is set is about the tree as it is,
  unless the tree changed in one of three named ways that do not reset it.
* `TerminalReadyCertified` - READY at the end of the budget rests on a full gate
  of the reported tree, the one the last patch left.
* `OneResponseOverrun` - weighted and rounded, the budget is exceeded by at most
  one response.
* `PublishedAsReported` - a published candidate was READY and passed all of the
  controller's gate.
* `EveryJobEnds` - whatever the model answers.

Of `CandidatePublication`:

* `QuietJobResumes` - undisturbed, a job publishes if the branch was absent or
  its own, whatever an earlier job had left; otherwise it touches nothing.
* `NoWorkLost` - no controller takes a commit off the branch.
* `BindingExact` - a candidate is reported as bound only with the merge commit of
  the published commit onto the source.
* `ControllersEnd` - a publication or materialization that started ends.

Of `ArchitectCycle`:

* `CallsCounted` - a run that delegated (it may be continued also when it then
  failed), or is green, is charged no fewer Sol calls than it made and no more
  than the gate reserves.
* `PackageIsWhatSolSaw` - a package is about the candidate Sol saw at its last
  call; a Coder's only when Sol saw the Expert's verdict.
* `HumanGateReexamined` - a human gate that the first answer raises surfaces at
  the highest effort only, through an escalation and a reconstruction alike.
* `PaidOnCompleteEvidence` - only the call after a reconstruction can be made on
  incomplete evidence (it can: section 4).
* `GreenIsBoundary` - a run that ends green has an active worker or wrote its
  request, waits for something that was in its snapshot, or needs no agent.
* `CycleIsRun` - a run implements `ArchitectRun`, wherever it fails.
* `EveryCycleEnds` - whatever Sol answers.

Of `ReviewChain`:

* `StagesInOrder` - a stage is given to a reviewer only after the earlier ones
  were clean on the same candidate.
* `FinalOnWholeChain` - the advice for Sol's final adjudication rests on three
  clean reviews of one chain and candidate.
* `GatedFreezes` - each candidate given to a reviewer has passed QORE CI on its
  own merge commit, also where the gate is a summary that an earlier request
  named and that is checked again by its head only.  It holds because a summary
  is only taken for the very freeze of the request it comes from, and the first
  request of a candidate was built on its own gate.
* `OneAdvicePerCompletion` - a completion gets the same advice however often and
  late it is observed.
* `AcceptedIsReviewed` - an accepted callback belongs to a request for the live
  candidate.

Fairness.  `CodexWorker` and `ArchitectCycle` have weak fairness of the job's
own steps (`WF(Work)`, `WF(Cycle)`), `CandidatePublication` of the two jobs'
calls (`WF(Controllers)`): steps of a GitHub Actions job follow one another,
and each call has a timeout after which the step fails, which is a step too.
Nothing else is fair: not people, not GitHub's recomputation, not a reviewer,
not delivery.  `AutonomyControl`, `ReviewerDispatch` and `ReviewChain` have no
fairness, because the code justifies none that matters: an event that waits is
cancelled for good by a newer one, polls time out, and no document promises
delivery.

## 4. Where code and documents differ

* `duplicate`: `docs/architecture/CODEX-COMPLETION-CALLBACK-015.md:53` says the
  receipt ledger permits at most one continuation dispatch when both
  completion events arrive.  `dispatch_architect` raises after an accepted
  POST when it does not observe the child in time, no usable receipt is
  written, and the second event dispatches again.
* `prespend`: `docs/architecture/PRE-SPEND-AUTONOMY-RECOVERY-014.md:41` says one
  pre-spend recovery per bounded session.  `build_receipt` does not write
  `pre_spend_recovery_count`, so each resume allows one more.
* `human_gate`: `scripts/evaluate_sol_escalation.py:93` and
  `docs/SOL-ESCALATION-COST-FIX-005.md:16` say that a human gate is verified at
  the highest effort before it surfaces.  Only the first answer is looked at:
  a gate that an escalated or a continued answer is the first to raise
  surfaces at the effort of that answer.
* `worker_stale`: `docs/architecture/CODEX-BOUNDED-ENGINEERING-WORKER-010.md:39`
  says that READY requires the worker's full gate after the final patch.
  `apply_patch` raises after it has applied a patch that makes too many files
  differ, and before it resets the verdict; the loop goes on, and READY is
  accepted with the old verdict.  The controller's own gate still stands
  before a publication (`PublishedAsReported`).

Four more divergences have no run of their own.  The passing properties state
what holds instead, and each names as its exception exactly what the document
rules out:

* `docs/architecture/AUTONOMY-BUDGET-REARM-013.md:5` says that automatic
  continuation is finite and a stop never silently resets itself.  A dispatch
  that was accepted and not observed (`duplicate`) leaves a run that no receipt
  claims; when its own agent completes, the gate opens a fresh session with
  counters of zero (`R:586-593`).  `FiniteAutonomy` allows one more tranche of
  resumes for each such run.
* `docs/architecture/PRE-SPEND-AUTONOMY-RECOVERY-014.md:42` says that a failed
  child run can dispatch a recovery child at most once.  A recovery that was
  dispatched and not observed becomes a receipt without a child
  (`recover_pre_spend_architect.py:445`), which the look-up of a later push
  passes over.  `RepeatedOnlyUnseen` allows it.
* `AUTONOMY-BUDGET-REARM-013.md:34` says that the same stopped receipt is not
  rearmed twice.  A rearm whose child is not observed writes no receipt
  (`rearm_autonomy.py:275`).  `RearmedOnlyUnseen` allows it.
* `SOL-AUTONOMOUS-CONTINUATION-007.md:37` says that the workflow fails before
  any paid call when evidence cannot be collected.  The snapshot collected
  again before the call after a reconstruction is used without the checks of
  the first (`qore-architect-autonomous-v2.yml:234-254`).
  `PaidOnCompleteEvidence` allows this one call.

Observations:

* A wait for a reviewer is accepted with any queued or running run of the
  reviewer's repository (`validate_architect_continuation.py:78-88`).
* Output ceilings differ between `evaluate_sol_escalation.py:13`, the
  workflow's `case` for the continuation and `select_sol_reasoning_v2.py`.
* With frozen evidence, the first reviewer package of a candidate that is newer
  than the snapshot cannot be built: the cycle ends red.
* `build_codex_completion_event.py` hashes the event with
  `candidate_published: false`, and the observer sets it afterwards without a
  new hash.
* `ensure_pr` does not look at the head of the pull request it has created, and
  takes an existing one whether it is a draft or not; the publisher does not
  compare the tree it commits with the reported diff's hash.
* `build_stage_package` does not check that the run of an earlier review
  succeeded, as the chain's own advance rule says
  (`build_preauthorized_review_chain.py:72-75`), nor reviews beyond the first
  hundred.  No workflow runs the chain's scripts yet.
* The observer's message that all reviews are clean is about Claude's verdict
  alone; in a chain it is true (`FinalOnWholeChain`), for an ordinary package
  nothing makes it so.
* A controller that is given a completed review does not look at human
  authority, pending work or budget.
* The delta audit does not look at the importers of removed files and forced
  paths, and `from package import module` counts as an import of the package
  only (`IsolatedRestsOnIsolated` states the exception).
* The first Fable estimate leaves out cache writes
  (`SecondPreflightIsStricter`); two equal calls are one row of the
  content-addressed cost ledger.

## 5. Theorems

Every theorem holds for all values of the constants that satisfy the named
assumption of its module; TLC evaluates the assumptions in the runs.

`AutonomyControl` (`PolicyAssumption`, `BoundsAssumption`):

| Theorem | Says |
|---|---|
| `TypeCorrect` | `Spec => []TypeOK` |
| `ChildClaimed` | `Spec => []ChildClaimedOnce` |
| `Caps` | `Spec => []WithinCaps` |
| `PromiseKept` | `Spec => KeepsPromise` |
| `DispatchedOnce` | `Spec => []OneDispatchPerEvent` |
| `RepeatedWhenUnseen` | `Spec => []RepeatedOnlyUnseen` |
| `RearmedWhenUnseen` | `Spec => []RearmedOnlyUnseen` |
| `SolCallsCapped` | `Spec => []TrueSolWithinCap` |
| `AutonomyEnds` | `Spec => []FiniteAutonomy` |
| `PackagesDiffer` | `Spec => []NoRepeatedPackage` |
| `RunsObeyInterface` | `Spec => RunsAreArchitectRuns` |

* `TypeOK` is inductive by itself; its relational conjuncts are what later
  steps need to know that a receipt's parent is a run.
* `ClaimInv`: a child is claimed once, because a run that a receipt claims has
  been shown by the listing (`ChildrenListed`), and the snapshot a gate run
  holds while it waits for its child contains every run claimed so far
  (`ChildrenBefore`).  The gate's child is new against that snapshot.
  `ChildClaimedOnce` alone is not inductive: it says nothing of the snapshot.
* `LegalInv`: a receipt in the hands of an authorized gate run is legal in the
  sense of `BoundedAutonomy` (`GateLegal`), and stays so because only the gate
  adds receipts.  With `ClaimInv`, the upload is a `Grant` step.
* `DedupInv`: dispatched receipts name the event of their run (`Named`), the
  receipt in hand has no precedent in its window (`Unprecedented`), and of two
  dispatched receipts with one key, one was out of the other's window
  (`First`).
* `RepeatInv`: `RepeatedOnlyUnseen` speaks of runs, so it needs what ties them
  to receipts: the receipt of a run's gate run, where there is one, names the
  event the run was dispatched for, and gate runs dispatch in the order of
  their numbers (`Remembered`).
* `RearmInv`: what the rearm in progress did not see stays out of its window
  (`RearmNew`), for no other rearm run starts meanwhile; and a rearmed session
  is known by its rearm run, whose number is newer than all receipts until its
  own is written (`RearmNumbers`).
* `TruthInv` relates what the receipts say to what happened: the receipt that
  dispatched a run covers the Sol calls, resumes, retries and packages of its
  lineage (`TruthCovered`), also while the gate run still carries it, and the
  one just authorized covers the run it will dispatch (`NextIsCovered`).  With
  the caps of `LegalInv` the real quantities are bounded.  This holds for the
  lineages of which no run was taken for the first of a session (`Covered`);
  `BoundInv` is about all: what a receipt lacks of the resumes and retries is
  at most one tranche for each such run (`TruthBounded`, `NextIsBounded`),
  which gives `FiniteAutonomy`.  A receipt is known
  by its gate run's number, which must be new (`RunIdsFresh`); and the passes
  of a completed run must be final (`Settled`), for they are read once more
  when the run is dispatched.
* `RunShape` ties a run's status to what it delegated and how it ended; with
  it each of the four things that can happen to a run (it is created, starts,
  delegates, ends: `RunChanges`, `RunFates`) is a step of `ArchitectRun` or
  none.

`ReviewerDispatch` (`DispatchAssumption`): `DispatchTyped` (`TypeOK`),
`RequestsKept` (`KeepsRequests`), `RecoveriesUnwritten` (`RecoveredUnwritten`),
`RetriesKept` (`RetriesOnlyWhatFailed`).

* `WriteInv`: a run between its two writes has its prompt in the repository but
  no request, and if the version it read is still the current one, then that
  one is not equivalent to its own or its review is dead (`MayFollow`).  The
  write replaces exactly that version, so it is a `Submit` step.  `TypeOK` and
  the promise are not inductive without it: they say nothing of what a run
  between its calls knows.  A step either disturbs no such run (`Calm`) or
  appends a request, which makes every other version that was read stale.
* `RecoverInv`: an artifact that shows only a decision is that of a run that
  failed before it wrote, and a source that failed at its first attempt stays
  so.  A run that works, again or for the first time, disturbs no other,
  whatever Sol decides, for prompt and package name the run.  The recoveries
  that are known are in the listing, so what `RetryEligible` looked at covers
  them.

`CodexWorker` (`WorkerAssumption`): `WorkerTypes`, `WorkerVerdict`,
`WorkerTerminalReady`, `WorkerOverrun`, `WorkerPublication`, and `WorkerAdvances`
(`JobAdvances`: each step brings a job nearer to its end, which takes at most
nine steps and two for each turn).  The invariant
adds what each stage of the job fixes (`StageInv`): before the loop ends there
is no result, a candidate in the controller's gate is READY and the reported
tree, nothing is published before the publisher.  The budget rests on a lemma
about rounding: one response costs at most what it costs alone (`SpendAdds`).

`CandidatePublication` (`PublicationAssumption`): `PublicationTypes`
(`TypeOK`), `ObservedCandidate`
(`BindingExact`), `QuietJobs` (`QuietJobResumes`), `BranchGrows` (`NoWorkLost`),
and `PublicationAdvances` (`JobsAdvance`: whatever moves between its calls, a
job in progress goes only forward and keeps its candidate, at most four calls,
and so does a materialization, at most five steps).
The invariant says what a job that was not interfered with knows at each call
(`Quiet`), that an open pull request shows the head of the branch
(`OpenAtBranch`), and that a publication names the job's candidate and a pull
request that exists (`Reported`).  That a commit on top extends the history is
a lemma about sequences (`OnTop`).  For the types, whose bounds count what all
actors did together, each commit that is anywhere (the branch, a pull request,
a merge commit, a job, a report) is at most as long as the attempts and
disturbances so far (`Counted`).

`ArchitectCycle` (`CycleAssumption`): `CycleTypeOK` (`TypeOK`),
`CallsOfGreenRuns` (`CallsCounted`), `CandidateOfTheDecision`
(`PackageIsWhatSolSaw`), `HumanGates` (`HumanGateReexamined`), `EvidenceOfCalls`
(`PaidOnCompleteEvidence`), `GreenRunsDelegated` (`GreenIsBoundary`),
`CycleImplementsRun` (`CycleIsRun`), and `CycleGoesForward` (`CycleAdvances`:
each step of the run brings it nearer to its end and nothing that others do sets
it back; it takes at most thirty steps).  `Ledger` lists, for each pass and
step, how many calls there were and what the two usage files say; `Evidence`
what the calls and the decision in hand rest on, and that a run whose first
answer was a human gate is at the escalation, red, or at the highest effort;
`Delegation` what is being delegated; `Freezes` that every freeze that was
written down is coherent.  The last is why a package, which is compared with the
snapshot by head and merge commit only, has its base too (`SnapshotFreeze`).
For the refinement, `Charged` says that a run that delegated has one of the four
patterns of usage files that the gate reads correctly, `Delegated` at which
steps it may then be, and `Failures` what a failed step tells of the calls.
That the world may move while the run stands still is a stutter of
`ArchitectRun` (`QuietStep`).

`ReviewChain` (`ChainAssumption`): `ChainInOrder` (`StagesInOrder`),
`FinalAdviceOnWholeChain` (`FinalOnWholeChain`), `OnlyGatedCandidates`
(`GatedFreezes`), `CallbackIsForLiveCandidate` (`AcceptedIsReviewed`),
`SameAdvice` (`OneAdvicePerCompletion`), `ChainTypes` (`TypeOK`).
`StagesInOrder` alone is not inductive: it says nothing of the markers in the
prompts, by which a chain's requests are found (`AllMarked`), nor of what the
advice rests on (`FinalIsClean`).  `GatedFreezes` needs `Drafted`: a summary in
a snapshot that is still being worked on is that of a candidate that passed,
because the request it was read from took it from one.  `AdviceInv` says what is
known of the attempt in the observer's hands, which need not be the last one any
more: with one request per package there is one review to read, and it stays the
first. The types are proved in the form the argument needs first (`Typed`), and
then with the bounds of the instance (`Bounded`): a package is requested once,
an attempt publishes one text at most, and every attempt above the first is a
re-run that was counted (`RerunsCount`, by an injection).

`EconomicPolicies` has no behaviour; its theorems are about its operators, for
all inputs: the risk tier and the audit it calls for are monotone
(`RiskNeverLowered`, `FableNeverLowered`), the two implementations of the
clean pass agree (`AdvanceIsCleanPass`, `CleanPassIsFollowed`), a call has a
reason and a budget (`CallIsJustified`), reuse never drifts
(`ReuseNeverDrifts`), batches lose only the leaf that changed
(`SiblingsStandAlone`, `OneLeafInvalidated`), recertification is monotone
(`RecertificationMonotone`), every input token is priced (`EveryTokenPriced`),
the second estimate is the stricter (`SecondPreflightIsStricter`), kept
evidence rests on kept evidence (`IsolatedRestsOnIsolated`).

Only model-checked: the liveness properties (`EveryJobEnds`, `ControllersEnd`,
`EveryCycleEnds`), which are out of the prover's reach, and the violations.  The
part of the three liveness properties that does not depend on fairness is
proved, for every value of the constants: a job or a run can take only so many
steps (`WorkerAdvances`, `PublicationAdvances`, `CycleGoesForward`).  What is
left to TLC is that it takes one while it is not over, which is the fairness of
the workflow's own steps and that no step is stuck.

## 6. Plan

Done: the control loop and its promise, reviewer dispatch and recovery, the
worker loop, publication with crashes and re-runs, the architect cycle, the
economic policies, the chain of reviews, and the theorems of section 5.

The control loop and the architect cycle meet in `ArchitectRun`.  Left: the same
for `CodexWorker` and `CandidatePublication`, whose common interface is the
outcome of a job.

## 7. Not modelled, and why

* Worker V6 and the plan-only scripts: a validation workflow a person starts,
  and a single call whose answer is a file; neither publishes anything.
* The Sol callers before V2: no controller continues from their runs.
* The shaping of the model's context (`build_model_context.py`, `augment_*`,
  `compact_packets_v2.py` and the rest): it keeps no state.  What is read, when,
  and what a failed read leaves is in `ArchitectCycle`.
* Ledgers, decision packets, the replay over recorded runs, work units and
  reports: values that are built and serialized once.  The decisions in them
  are in `EconomicPolicies`.
* Analyzers, connection tests, the reviewer bridge preflight, CI: reports and
  probes without control state.
* The reviewer repositories and GitHub itself are external: they do what the
  code here relies on and no more.
* The Sol calls of a run that ends without delegating are in no receipt
  (`R:407` charges a run that delegated), so `TrueSolWithinCap` is about
  lineages, not about what a day costs.

What models answer is a nondeterministic choice wherever it matters.
