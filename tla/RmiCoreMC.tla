----------------------------- MODULE RmiCoreMC -------------------------------
(* Instances of RmiCore for TLC. *)
EXTENDS RmiCore

\* The order in which the touchpad of these machines lists its functions
PdtOrder == <<"f01", "f12", "f03">>
\* What the device listens to after a reset: nothing, or F01 alone
Nothing == {}
ResetOnly == {"f01"}

Times(f, r, s, m) ==
  [e \in Events |-> CASE e = "fail" -> f [] e = "reset" -> r [] e = "sleep" -> s [] OTHER -> m]
\* A failing transfer around a sleep, or a reset of the device around a new mask.
Mixed == {Times(1, 0, 1, 0), Times(0, 1, 0, 1)}
\* A reset of the device, and nothing else.
Once == {Times(0, 1, 0, 0)}
=============================================================================
