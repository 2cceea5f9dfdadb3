--------------------------- MODULE BoundedAutonomy ---------------------------
(***************************************************************************)
(* What the control loop promises: an append-only set of grants, each of   *)
(* which let one architect run start without a human.  A grant resumes a   *)
(* session after an agent's completion, or retries a run that failed; it   *)
(* extends the one grant that claims the run it continues, within the      *)
(* policy, and no architect run is granted twice.  Nothing is said of      *)
(* workflows, events or listings.                                          *)
(***************************************************************************)
EXTENDS Naturals

CONSTANTS
  MAX_RECEIPT_SCAN, MaxAutoResumes, MaxSpend, MaxSolCalls, MaxCodexJobs,
  MAX_SOL_CALLS_PER_ARCHITECT_RUN, MAX_PRE_SPEND_RECOVERIES_PER_SESSION

VARIABLE grants

(* The grants that g can know of, and that claim the run it continues. *)
Claims(g, run) ==
  {p \in grants : p.child = run /\ p.id + MAX_RECEIPT_SCAN > g.newest}

(* One more resume may start a session, or goes on with the claimed one.   *)
Opens(g) ==
  /\ Claims(g, g.parent) = {}
  /\ g.session = g.parent
  /\ g.cycle = 1
  /\ g.history = {g.pkg}
  /\ g.sol \in 1 .. MAX_SOL_CALLS_PER_ARCHITECT_RUN
  /\ g.codex <= 1

Extends(g, p) ==
  /\ Claims(g, g.parent) = {p}
  /\ g.session = p.session
  /\ g.cycle = p.cycle + 1
  /\ g.pkg \notin p.history
  /\ g.history = p.history \cup {g.pkg}
  /\ g.sol \in (p.sol + 1) .. (p.sol + MAX_SOL_CALLS_PER_ARCHITECT_RUN)
  /\ g.spend >= p.spend
  /\ g.codex \in {p.codex, p.codex + 1}

Resume(g) == Opens(g) \/ \E p \in grants : Extends(g, p)

(* A retry keeps every counter of the failed run's session.                *)
RetryPreSpend(g) ==
  \E p \in grants :
    /\ Claims(g, g.of) = {p}
    /\ p.pre < MAX_PRE_SPEND_RECOVERIES_PER_SESSION
    /\ g.pre = p.pre + 1
    /\ g.session = p.session /\ g.cycle = p.cycle /\ g.history = p.history
    /\ g.spend = p.spend /\ g.sol = p.sol /\ g.codex = p.codex

(* A retry of a session's seed starts the session with one Sol call spent. *)
RetrySeed(g) ==
  /\ g.session = g.of
  /\ g.cycle = 0 /\ g.history = {} /\ g.sol = 1 /\ g.codex = 0

(* A failed run is retried once, as far as g can know. *)
OnlyRetry(g) ==
  \A p \in grants :
    p.of = g.of /\ p.actor = g.actor => p.id + MAX_RECEIPT_SCAN <= g.newest

InPolicy(g) ==
  /\ g.cycle <= MaxAutoResumes
  /\ g.spend < MaxSpend
  /\ g.sol + MAX_SOL_CALLS_PER_ARCHITECT_RUN <= MaxSolCalls
  /\ g.codex < MaxCodexJobs

Legal(g) ==
  /\ InPolicy(g)
  /\ \/ g.actor = "CONTROLLER" /\ RetryPreSpend(g) /\ OnlyRetry(g)
     \/ g.actor = "CONTROLLER_POST_SPEND" /\ RetrySeed(g) /\ OnlyRetry(g)
     \/ g.actor \notin {"CONTROLLER", "CONTROLLER_POST_SPEND"} /\ Resume(g)

Grant ==
  \E g \in grants' \ grants :
    /\ grants' = grants \cup {g}
    /\ Legal(g)
    /\ \A p \in grants : p.child # g.child

Init == grants = {}

Spec == Init /\ [][Grant]_grants
=============================================================================
