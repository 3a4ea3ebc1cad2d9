----------------------------- MODULE PiixSb800MC -----------------------------
(***************************************************************************)
(* Finite instances of PiixSb800: how often hardware fails its part.       *)
(***************************************************************************)
EXTENDS PiixSb800, TLC

Times(stall, late, taken) ==
  [e \in Events |-> CASE e = "stall" -> stall [] e = "late" -> late [] e = "taken" -> taken]

\* The IMC may be late or its mailbox in use while the controller ends in time,
\* and the reverse.
Either == {Times(0, 2, 2), Times(2, 0, 0)}

Symmetry == Permutations(Adapter)
=============================================================================
