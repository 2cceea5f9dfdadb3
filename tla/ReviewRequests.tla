---------------------------- MODULE ReviewRequests ----------------------------
(***************************************************************************)
(* What a reviewer repository is promised: a log of requests, the last of  *)
(* which is requests/current.json.  A package is requested once, and the   *)
(* review stage that stands is not requested again, unless it is known to  *)
(* be dead: its only review has failed without publishing anything.        *)
(***************************************************************************)
EXTENDS Naturals, Sequences

CONSTANTS
  Repo,     \* "CLAUDE" or "DEEPSEEK"
  Package,  \* package ids
  Targets   \* what is reviewed: pull request, head, synthetic merge

VARIABLES
  requests,  \* the log: [pkg, stage]
  reviews    \* the review run of a package: [state, published]

Modes == IF Repo = "CLAUDE" THEN {"technical"} ELSE {"expert", "coder"}

Stages == [target : Targets, mode : Modes]

(* equivalent_request() of the dispatch scripts: same pull request, head   *)
(* and synthetic merge; DeepSeek also tells review modes apart.            *)
Equivalent(s, t) == s.target = t.target /\ (Repo = "DEEPSEEK" => s.mode = t.mode)

Dead(p) == reviews[p].state = "failed" /\ ~reviews[p].published

Requested == {requests[i].pkg : i \in DOMAIN requests}

Submit(p, stage) ==
  /\ p \notin Requested
  /\ requests # <<>> =>
       LET last == requests[Len(requests)]
       IN  Equivalent(last.stage, stage) => Repo = "DEEPSEEK" /\ Dead(last.pkg)
  /\ requests' = Append(requests, [pkg |-> p, stage |-> stage])
  /\ UNCHANGED reviews

(* A review of a requested package ends once.                              *)
Review(p) ==
  /\ p \in Requested
  /\ reviews[p].state = "open"
  /\ \E review \in [state : {"failed", "passed"}, published : BOOLEAN] :
       reviews' = [reviews EXCEPT ![p] = review]
  /\ UNCHANGED requests

Init ==
  /\ requests = <<>>
  /\ reviews = [p \in Package |-> [state |-> "open", published |-> FALSE]]

Next ==
  \E p \in Package :
    Review(p) \/ \E stage \in Stages : Submit(p, stage)

Spec == Init /\ [][Next]_<<requests, reviews>>
=============================================================================
