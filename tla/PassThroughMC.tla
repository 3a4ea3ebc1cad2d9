---------------------------- MODULE PassThroughMC ----------------------------
(***************************************************************************)
(* Finite instances of PassThrough: how often each event may happen.       *)
(***************************************************************************)
EXTENDS PassThrough

Times(write, switch, loss, p_loss, fail, p_fail) ==
  [e \in Events |-> CASE e = "write" -> write [] e = "switch" -> switch
                      [] e = "loss" -> loss [] e = "p_loss" -> p_loss
                      [] e = "fail" -> fail [] e = "p_fail" -> p_fail]

\* Everything goes wrong but the protocol of the parent stays, and changes of
\* the parent's protocol while its reconnects succeed.
Either == {Times(2, 0, 2, 2, 2, 1), Times(2, 2, 1, 2, 1, 0)}
=============================================================================
