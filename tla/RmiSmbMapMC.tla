----------------------------- MODULE RmiSmbMapMC -----------------------------
(***************************************************************************)
(* Finite instances of RmiSmbMap: how often something fails, the transport *)
(* is reset and the machine sleeps.                                        *)
(***************************************************************************)
EXTENDS RmiSmbMap

Times(fail, reset, sleep) ==
  [e \in Events |-> CASE e = "fail" -> fail [] e = "reset" -> reset
                      [] e = "sleep" -> sleep]

\* Failures of the table and of chunks, around a reset and a sleep.
Mixed == Times(2, 1, 1)
=============================================================================
