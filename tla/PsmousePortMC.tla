---------------------------- MODULE PsmousePortMC ----------------------------
(***************************************************************************)
(* Finite instances of PsmousePort: how often each event may happen.       *)
(***************************************************************************)
EXTENDS PsmousePort

Times(fail, unbind, reset) ==
  [e \in Events |-> CASE e = "fail" -> fail [] e = "unbind" -> unbind
                      [] e = "reset" -> reset]

\* A command fails around an unbind, or the mouse is reset.
Either == {Times(1, 1, 0), Times(0, 0, 1)}
=============================================================================
