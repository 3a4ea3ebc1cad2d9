--------------------------- MODULE PsmouseSmbusMC ---------------------------
(***************************************************************************)
(* Finite instances of PsmouseSmbus: how often each event may happen.      *)
(***************************************************************************)
EXTENDS PsmouseSmbus, TLC

Times(switch, unbind, add, remove, alloc) ==
  [e \in Events |-> CASE e = "switch" -> switch [] e = "unbind" -> unbind
                      [] e = "add" -> add [] e = "remove" -> remove
                      [] e = "alloc" -> alloc]

\* A change of protocol with an unbind and a removal, or with an adapter that
\* appears, or with an allocation that fails.
Mixed == {Times(1, 1, 0, 1, 0), Times(1, 0, 1, 1, 0), Times(1, 1, 0, 0, 1)}
=============================================================================
