----------------------------- MODULE HostNotify -----------------------------
(***************************************************************************)
(* What the Host Notify path of the patched i2c-piix4 promises to the      *)
(* clients of its adapter: a notify acknowledged on the bus from device d  *)
(* is followed by a call of i2c_handle_smbus_host_notify() for d.          *)
(*                                                                         *)
(* The promise is at-least-once and per device, as the comment over        *)
(* piix4_asf_drain() puts it: a notify carries nothing but "go look at the *)
(* device", so a duplicate is harmless and one call made after several     *)
(* notifies of a device serves them all.                                   *)
(*                                                                         *)
(* While the driver does not want to listen (before start, after suspend   *)
(* or stop), while it has given up listening (the receive bank is wedged   *)
(* and the FCH PM region is busy) and while the block reports a reception  *)
(* error, what was acknowledged may be discarded; otherwise never.         *)
(***************************************************************************)
CONSTANT Dev            \* devices that send Host Notify

VARIABLES
  owed,                 \* devices with a notify acknowledged, not served since
  calling,              \* devices whose clients are being called
  on                    \* the driver stands by its promise

vars == <<owed, calling, on>>

Init == owed = {} /\ calling = {} /\ on = FALSE

\* The slave acknowledges a notify of d on the bus.
Accept(d) == owed' = owed \cup {d} /\ UNCHANGED <<calling, on>>

\* The clients of the devices in D, owed or not, are about to be called;
\* one context calls at a time.
Call(D) == calling = {} /\ calling' = D /\ UNCHANGED <<owed, on>>

\* They have been called.
Served == calling' = {} /\ owed' = owed \ calling /\ UNCHANGED on

\* Acknowledged notifies of the devices in D are dropped unread.
Discard(D) == ~on' /\ owed' = owed \ D /\ UNCHANGED calling

\* The promise starts or ends; by itself this forgets nothing.
Switch == on' # on /\ UNCHANGED <<owed, calling>>

Next == \/ \E d \in Dev : Accept(d)
        \/ \E D \in SUBSET Dev : Call(D) \/ Discard(D)
        \/ Served
        \/ Switch

\* A notify once owed is served, or discarded.
Prompt == \A d \in Dev : d \in owed ~> d \notin owed

Spec == Init /\ [][Next]_vars /\ Prompt
=============================================================================
