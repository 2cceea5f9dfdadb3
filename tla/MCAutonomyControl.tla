-------------------------- MODULE MCAutonomyControl --------------------------
(***************************************************************************)
(* Constants for model checking AutonomyControl.                           *)
(***************************************************************************)
EXTENDS AutonomyControl, TLC

(* Every run makes all three Sol passes, so that its reconstruction        *)
(* overwrites the record of the escalated pass.                            *)
ThreePasses == {[escalated |-> TRUE, reconstructed |-> TRUE]}

(* Every run makes its initial Sol pass only. *)
InitialPass == {NoPasses}

(* Packages are only compared for equality. *)
SamePackages == Permutations(CodexWork)
=============================================================================
