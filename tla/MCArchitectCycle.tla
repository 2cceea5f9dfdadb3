--------------------------- MODULE MCArchitectCycle ---------------------------
(* Runs with both agents on, both diagnostic and both off, without the     *)
(* reviewers' token, and without the consent to spend.                     *)
EXTENDS ArchitectCycle

RunOf(codex, review, token) ==
  [confirm |-> TRUE, codex |-> codex, review |-> review, token |-> token]

ModelInputs ==
  { RunOf("execute", "execute", TRUE), RunOf("dry_run", "dry_run", TRUE),
    RunOf("off", "off", FALSE), RunOf("execute", "execute", FALSE),
    [RunOf("execute", "execute", FALSE) EXCEPT !.confirm = FALSE] }
=============================================================================
