----------------------------- MODULE AsfNotifyMC -----------------------------
(***************************************************************************)
(* Finite instances of AsfNotify: how often each external event happens.   *)
(***************************************************************************)
EXTENDS AsfNotify

Events(recv, error, stick, xfer, busy, sleep) ==
  [k \in Kinds |->
     CASE k = "recv" -> recv [] k = "error" -> error [] k = "stick" -> stick
       [] k = "xfer" -> xfer [] k = "busy" -> busy [] k = "sleep" -> sleep]

\* Notifies, a wedged bank and a transfer; two receptions around a sleep, with
\* a reception that the hardware flags as an error.
Traffic == {Events(3, 0, 1, 1, 0, 0), Events(2, 1, 0, 1, 0, 1)}
\* Sleep, teardown and a busy PM region under traffic.
Upheaval == {Events(2, 0, 0, 2, 2, 1)}
\* Notifies that race with a transfer, for the promise to the clients; a wedged
\* bank, a transfer and a sleep, for what must eventually end.
Race == {Events(2, 0, 0, 1, 0, 0), Events(1, 0, 1, 1, 0, 1)}
\* Firmware that resets the block while the machine sleeps.
Wakeup == {Events(0, 0, 0, 0, 0, 1)}
=============================================================================
