--------------------------- MODULE PiixSb800Proofs ---------------------------
(***************************************************************************)
(* Proofs about PiixSb800, for any number of adapters, any number of tries *)
(* and any events.                                                         *)
(*                                                                         *)
(* Held says who has the muxed region, the semaphore and the port where;   *)
(* it is inductive with the types, and Restored and Exclusive follow.      *)
(* Mailbox follows the dialogue with the IMC and gives ImcInStep.  Outcome *)
(* says what the controller does, and with which registers, at every step  *)
(* of a transfer; ResultMine follows from it.                              *)
(***************************************************************************)
EXTENDS PiixSb800, TLAPS

Labels == {"idle", "sem", "sleep", "asleep", "select", "setup", "ready",
           "start", "poll", "fetch", "restore", "post", "wake", "awake", "release"}
Results == {"ok", "busy", "invalid", "nak", "error", "timeout", "protocol"}
Transfer == [at : Labels, rw : {"read", "write"}, block : BOOLEAN, tries : 0 .. Retries,
             prev : Port, res : Results, got : Datum]

\* What TypeOK says of the variables but for t.
SharedOK ==
  /\ notify \subseteq Adapter /\ region \in Adapter \cup {None}
  /\ sem \in Adapter \cup {None, "imc"}
  /\ imc \in [asleep : BOOLEAN, cmd : {None, "sleep", "wake"}, resp : BOOLEAN]
  /\ mux \in Port /\ reg \in [rw : {"read", "write"}, dat : Datum]
  /\ host \in [busy : BOOLEAN, sts : {"clear", "done", "nak", "error"},
               op : [rw : {"read", "write"}, dat : Datum, port : Port]]
  /\ stored \in [Port -> Datum] /\ past \in [Events -> Nat]

\* The steps at which the driver has the semaphore, and those at which the host
\* is set up for it.
Driving == {"setup", "ready", "start", "poll", "fetch", "restore"}
Owning == {"sleep", "asleep", "select", "post"} \cup Driving

\* A transfer is under way exactly where the region is; it has the semaphore
\* and the port exactly where it should, and knows which port to restore.
Held ==
  /\ \A a \in Adapter : t[a].at # "idle" <=> region = a
  /\ \A a \in Adapter : sem = a <=> t[a].at \in Owning
  /\ \A a \in Adapter : t[a].at \in Driving => mux = a /\ t[a].prev = Boot
  /\ (\A a \in Adapter : t[a].at \notin Driving) => mux = Boot

\* A poll that finds the host done finds a status.
Polled == \A a \in Adapter : t[a].at = "poll" /\ ~host.busy => host.sts # "clear"

\* The dialogue with the IMC.  An adapter in its block transfer, with notify_imc
\* still set, has put the IMC to sleep before it selects its port; while no answer
\* was late and no mailbox taken, the IMC is awake wherever it was not told to sleep.
Told == {"select", "post", "wake"} \cup Driving
Dozing(a) == t[a].block /\ a \in notify
Awaken == imc.cmd = None /\ ~imc.asleep
InTime == past["late"] = 0 /\ past["taken"] = 0
Heard(a) ==
  /\ t[a].at \in {"sleep", "asleep"} => Dozing(a)
  /\ t[a].at = "asleep" =>
       (imc.cmd = "sleep" /\ ~imc.resp) \/ (imc.cmd = None /\ imc.resp /\ imc.asleep)
  /\ t[a].at \in Told /\ Dozing(a) => imc.cmd = None /\ imc.asleep
Prompt(a) ==
  /\ t[a].at \in {"sem", "sleep", "release"} => Awaken
  /\ t[a].at \in Told /\ ~Dozing(a) => Awaken
  /\ t[a].at = "awake" =>
       (imc.cmd = "wake" /\ ~imc.resp) \/ (imc.cmd = None /\ imc.resp /\ ~imc.asleep)
Mailbox ==
  /\ \A a \in Adapter : Heard(a)
  /\ InTime => (\A a \in Adapter : Prompt(a)) /\ (region = None => Awaken)

\* What the controller does, and with which registers, at each step of a
\* transfer.  While no transfer was given up, the controller is busy only for the
\* adapter that waits for it.
Calm == past["stall"] = 0
Result(a) ==
  /\ t[a].at \in {"ready", "start"} =>
       reg.rw = t[a].rw /\ (t[a].rw = "write" /\ Calm => reg.dat = Own(a))
  /\ t[a].at = "start" => ~host.busy
  /\ t[a].at = "poll" =>
       /\ host.op.port = a /\ host.op.rw = t[a].rw
       /\ t[a].rw = "write" /\ Calm => host.op.dat = Own(a)
       /\ ~host.busy /\ host.sts = "done" =>
            IF t[a].rw = "read" THEN reg.dat = Answer(a) ELSE Calm => stored[a] = Own(a)
  /\ t[a].at = "fetch" => t[a].rw = "read" /\ ~host.busy /\ reg.dat = Answer(a)
  /\ Succeeded(a) =>
       /\ ~host.busy
       /\ IF t[a].rw = "read" THEN t[a].got = Answer(a) ELSE Calm => stored[a] = Own(a)
Outcome ==
  /\ \A a \in Adapter : Result(a)
  /\ Calm /\ host.busy => \E a \in Adapter : t[a].at = "poll"

Base == t \in [Adapter -> Transfer] /\ SharedOK /\ Held /\ Polled

-----------------------------------------------------------------------------
(* Types. *)

LEMMA Counted ==
  ASSUME past \in [Events -> Nat], NEW e \in Events, Spend(e)
  PROVE  past' \in [Events -> Nat] /\ past'[e] = past[e] + 1
         /\ \A k \in Events \ {e} : past'[k] = past[k]
<1>1. past[e] + 1 \in Nat
  OBVIOUS
<1>. QED  BY <1>1 DEF Spend

LEMMA DatumKinds ==
  /\ Blank \in Datum
  /\ \A a \in Adapter : Own(a) \in Datum
  /\ \A p \in Port : Answer(p) \in Datum
  BY DEF Blank, Own, Answer, Datum

LEMMA IdleTransfer == Idle \in Transfer
<1>1. 0 \in 0 .. Retries /\ Boot \in Port /\ Blank \in Datum
  BY ParameterAssumption, DatumKinds DEF Port
<1>. QED  BY <1>1 DEF Idle, Transfer, Labels, Results

LEMMA Begun ==
  ASSUME NEW rw \in {"read", "write"}, NEW block \in BOOLEAN, NEW r,
         r = [Idle EXCEPT !.at = "sem", !.rw = rw, !.block = block, !.tries = Retries]
  PROVE  r \in Transfer /\ r.at = "sem" /\ r.rw = rw /\ r.block = block
<1>1. Retries \in 0 .. Retries  BY ParameterAssumption
<1>. QED  BY <1>1, IdleTransfer DEF Transfer, Labels

\* What a step of a leaves alone of t, but for the fields named below.
Others(a) ==
  /\ t' \in [Adapter -> Transfer]
  /\ \A b \in Adapter \ {a} : t'[b] = t[b]

\* A step that only moves on.
LEMMA Moved ==
  ASSUME t \in [Adapter -> Transfer], NEW a \in Adapter, NEW at \in Labels, Go(a, at)
  PROVE  /\ Others(a) /\ t'[a].at = at
         /\ t'[a].rw = t[a].rw /\ t'[a].block = t[a].block /\ t'[a].prev = t[a].prev
         /\ t'[a].res = t[a].res /\ t'[a].got = t[a].got
<1>1. [t[a] EXCEPT !.at = at] \in Transfer  BY DEF Transfer
<1>2. t' = [t EXCEPT ![a] = [t[a] EXCEPT !.at = at]]  BY DEF Go
<1>3. t' \in [Adapter -> Transfer]  BY <1>1, <1>2
<1>4. t'[a] = [t[a] EXCEPT !.at = at]  BY <1>2
<1>5. t[a] \in Transfer  OBVIOUS
<1>. QED  BY <1>2, <1>3, <1>4, <1>5 DEF Others, Transfer

\* A step that moves on with a result.
LEMMA Ended ==
  ASSUME t \in [Adapter -> Transfer], NEW a \in Adapter, NEW at \in Labels,
         NEW res \in Results, End(a, at, res)
  PROVE  /\ Others(a) /\ t'[a].at = at /\ t'[a].res = res
         /\ t'[a].rw = t[a].rw /\ t'[a].block = t[a].block /\ t'[a].prev = t[a].prev
         /\ t'[a].got = t[a].got
<1>1. [t[a] EXCEPT !.at = at, !.res = res] \in Transfer  BY DEF Transfer
<1>2. t' = [t EXCEPT ![a] = [t[a] EXCEPT !.at = at, !.res = res]]  BY DEF End
<1>3. t' \in [Adapter -> Transfer]  BY <1>1, <1>2
<1>4. t'[a] = [t[a] EXCEPT !.at = at, !.res = res]  BY <1>2
<1>5. t[a] \in Transfer  OBVIOUS
<1>. QED  BY <1>2, <1>3, <1>4, <1>5 DEF Others, Transfer

\* The two parts are all of TypeOK.
LEMMA TypeParts == TypeOK <=> t \in [Adapter -> Transfer] /\ SharedOK
  BY DEF TypeOK, SharedOK, Transfer, Labels, Results
LEMMA TypePartsNext == TypeOK' <=> t' \in [Adapter -> Transfer] /\ SharedOK'
  BY DEF TypeOK, SharedOK, Transfer, Labels, Results

\* How each step of an adapter changes t.
LEMMA AccessMoves ==
  ASSUME t \in [Adapter -> Transfer], SharedOK, Polled, NEW a \in Adapter, Begin(a) \/ Access(a)
  PROVE  Others(a)
<1>t. t[a] \in Transfer  OBVIOUS
<1>e. ASSUME NEW r \in Transfer, t' = [t EXCEPT ![a] = r]  PROVE Others(a)
  BY <1>e DEF Others
<1>m. ASSUME NEW at \in Labels, Go(a, at)  PROVE Others(a)
  BY <1>m, Moved
<1>r. ASSUME NEW at \in Labels, NEW res \in Results, End(a, at, res)  PROVE Others(a)
  BY <1>r, Ended
<1>1. CASE Begin(a)
  <2>1. PICK rw \in {"read", "write"}, block \in BOOLEAN :
          t' = [t EXCEPT ![a] = [Idle EXCEPT !.at = "sem", !.rw = rw, !.block = block,
                                             !.tries = Retries]]
    BY <1>1 DEF Begin
  <2>2. [Idle EXCEPT !.at = "sem", !.rw = rw, !.block = block, !.tries = Retries] \in Transfer
    BY Begun
  <2>. QED  BY <2>1, <2>2, <1>e
<1>2. CASE Semaphore(a)
  <2>1. CASE t' = [t EXCEPT ![a].tries = @ - 1] /\ t[a].tries > 1
    <3>1. [t[a] EXCEPT !.tries = @ - 1] \in Transfer
      BY <2>1, <1>t, ParameterAssumption DEF Transfer
    <3>2. t' = [t EXCEPT ![a] = [t[a] EXCEPT !.tries = @ - 1]]  BY <2>1
    <3>. QED  BY <3>1, <3>2, <1>e
  <2>2. CASE Go(a, Owned(a))  BY <2>2, <1>m DEF Owned, Labels
  <2>3. CASE End(a, "release", "busy")  BY <2>3, <1>r DEF Labels, Results
  <2>. QED  BY <1>2, <2>1, <2>2, <2>3 DEF Semaphore
<1>3. CASE Sleep(a)  BY <1>3, <1>m DEF Sleep, Labels
<1>4. CASE Asleep(a)  BY <1>4, <1>m DEF Asleep, Labels
<1>5. CASE Select(a)
  <2>1. [t[a] EXCEPT !.at = "setup", !.prev = mux] \in Transfer
    BY <1>t DEF Transfer, SharedOK, Labels
  <2>2. t' = [t EXCEPT ![a] = [t[a] EXCEPT !.at = "setup", !.prev = mux]]  BY <1>5 DEF Select
  <2>. QED  BY <2>1, <2>2, <1>e
<1>6. CASE Setup(a)  BY <1>6, <1>m, <1>r DEF Setup, Labels, Results
<1>7. CASE Ready(a)  BY <1>7, <1>m, <1>r DEF Ready, Labels, Results
<1>8. CASE Start(a)  BY <1>8, <1>m DEF Start, Labels
<1>9. CASE Poll(a)
  <2>1. host.sts \in {"clear", "done", "nak", "error"} /\ (~host.busy => host.sts # "clear")
    BY <1>9 DEF SharedOK, Polled, Poll, At
  <2>2. CASE End(a, "restore", host.sts) /\ host.sts # "done" /\ ~host.busy
    BY <2>1, <2>2, <1>r DEF Labels, Results
  <2>3. CASE End(a, "restore", "timeout")  BY <2>3, <1>r DEF Labels, Results
  <2>4. CASE Go(a, IF t[a].rw = "read" THEN "fetch" ELSE "restore")  BY <2>4, <1>m DEF Labels
  <2>. QED  BY <1>9, <2>2, <2>3, <2>4 DEF Poll
<1>10. CASE Fetch(a)
  <2>1. CASE t' = [t EXCEPT ![a].at = "restore", ![a].got = reg.dat]
    <3>1. [t[a] EXCEPT !.at = "restore", !.got = reg.dat] \in Transfer
      BY <1>t DEF Transfer, SharedOK, Labels
    <3>2. t' = [t EXCEPT ![a] = [t[a] EXCEPT !.at = "restore", !.got = reg.dat]]  BY <2>1
    <3>. QED  BY <3>1, <3>2, <1>e
  <2>2. CASE End(a, "restore", "protocol")  BY <2>2, <1>r DEF Labels, Results
  <2>. QED  BY <1>10, <2>1, <2>2 DEF Fetch
<1>11. CASE Restore(a)  BY <1>11, <1>m DEF Restore, Labels
<1>12. CASE Post(a)  BY <1>12, <1>m DEF Post, Labels
<1>13. CASE Wake(a)  BY <1>13, <1>m DEF Wake, Labels
<1>14. CASE Awake(a)  BY <1>14, <1>m DEF Awake, Labels
<1>15. CASE Release(a)  BY <1>15, <1>m DEF Release, Labels
<1>. QED  BY <1>1, <1>2, <1>3, <1>4, <1>5, <1>6, <1>7, <1>8, <1>9, <1>10,
             <1>11, <1>12, <1>13, <1>14, <1>15 DEF Access

\* The shared variables keep to their types.
LEMMA AccessShared ==
  ASSUME t \in [Adapter -> Transfer], SharedOK, NEW a \in Adapter, Begin(a) \/ Access(a)
  PROVE  SharedOK'
<1>t. t[a].rw \in {"read", "write"} /\ t[a].prev \in Port  BY DEF Transfer
<1>s. ASSUME NEW e \in Events, Spend(e)  PROVE past' \in [Events -> Nat]
  BY <1>s, Counted DEF SharedOK
<1>e. "stall" \in Events /\ "late" \in Events /\ "taken" \in Events  BY DEF Events
<1>i. ASSUME NEW cmd \in {"sleep", "wake"}, imc' = [imc EXCEPT !.cmd = cmd, !.resp = FALSE]
      PROVE  imc' \in [asleep : BOOLEAN, cmd : {None, "sleep", "wake"}, resp : BOOLEAN]
  BY <1>i DEF SharedOK
<1>h. ASSUME host' = [host EXCEPT !.sts = "clear"]
      PROVE  host' \in [busy : BOOLEAN, sts : {"clear", "done", "nak", "error"},
                        op : [rw : {"read", "write"}, dat : Datum, port : Port]]
  BY <1>h DEF SharedOK
<1>1. CASE Begin(a)  BY <1>1, DatumKinds DEF Begin, SharedOK, Port
<1>2. CASE Semaphore(a)  BY <1>2 DEF Semaphore, SharedOK
<1>3. CASE Sleep(a)
  <2>1. imc' \in [asleep : BOOLEAN, cmd : {None, "sleep", "wake"}, resp : BOOLEAN]
    BY <1>3, <1>i DEF Sleep, SharedOK
  <2>. QED  BY <1>3, <2>1, <1>s, <1>e DEF Sleep, SharedOK
<1>4. CASE Asleep(a)  BY <1>4, <1>s, <1>e DEF Asleep, SharedOK
<1>5. CASE Select(a)  BY <1>5 DEF Select, SharedOK, Port
<1>6. CASE Setup(a)
  <2>1. reg' \in [rw : {"read", "write"}, dat : Datum]
    BY <1>6, <1>t, DatumKinds DEF Setup, SharedOK
  <2>. QED  BY <1>6, <2>1 DEF Setup, SharedOK
<1>7. CASE Ready(a)  BY <1>7, <1>h DEF Ready, SharedOK
<1>8. CASE Start(a)
  <2>1. [rw |-> reg.rw, dat |-> reg.dat, port |-> mux]
          \in [rw : {"read", "write"}, dat : Datum, port : Port]
    BY DEF SharedOK
  <2>2. host' \in [busy : BOOLEAN, sts : {"clear", "done", "nak", "error"},
                   op : [rw : {"read", "write"}, dat : Datum, port : Port]]
    BY <1>8, <2>1 DEF Start, SharedOK
  <2>. QED  BY <1>8, <2>2 DEF Start, SharedOK
<1>9. CASE Poll(a)  BY <1>9, <1>h, <1>s, <1>e DEF Poll, SharedOK
<1>10. CASE Fetch(a)  BY <1>10 DEF Fetch, SharedOK
<1>11. CASE Restore(a)  BY <1>11, <1>t DEF Restore, SharedOK
<1>12. CASE Post(a)  BY <1>12 DEF Post, SharedOK
<1>13. CASE Wake(a)
  <2>1. imc' \in [asleep : BOOLEAN, cmd : {None, "sleep", "wake"}, resp : BOOLEAN]
    BY <1>13, <1>i DEF Wake, SharedOK
  <2>. QED  BY <1>13, <2>1, <1>s, <1>e DEF Wake, SharedOK
<1>14. CASE Awake(a)  BY <1>14, <1>s, <1>e DEF Awake, SharedOK
<1>15. CASE Release(a)  BY <1>15 DEF Release, SharedOK
<1>. QED  BY <1>1, <1>2, <1>3, <1>4, <1>5, <1>6, <1>7, <1>8, <1>9, <1>10,
             <1>11, <1>12, <1>13, <1>14, <1>15 DEF Access

\* The same of the hardware, which leaves t alone.
LEMMA HardwareShared ==
  ASSUME SharedOK, Hardware \/ ImcTakes \/ ImcReleases
  PROVE  SharedOK' /\ t' = t
<1>1. CASE Complete
  <2>1. host.op \in [rw : {"read", "write"}, dat : Datum, port : Port]  BY DEF SharedOK
  <2>2. host' \in [busy : BOOLEAN, sts : {"clear", "done", "nak", "error"},
                   op : [rw : {"read", "write"}, dat : Datum, port : Port]]
    BY <1>1, <2>1 DEF Complete, SharedOK
  <2>3. reg' \in [rw : {"read", "write"}, dat : Datum]
    BY <1>1, <2>1, DatumKinds DEF Complete, SharedOK
  <2>4. stored' \in [Port -> Datum]  BY <1>1, <2>1 DEF Complete, SharedOK
  <2>. QED  BY <1>1, <2>2, <2>3, <2>4 DEF Complete, SharedOK
<1>2. CASE Serve
  <2>1. imc' \in [asleep : BOOLEAN, cmd : {None, "sleep", "wake"}, resp : BOOLEAN]
    BY <1>2 DEF Serve, SharedOK
  <2>. QED  BY <1>2, <2>1 DEF Serve, SharedOK
<1>3. CASE ImcTakes  BY <1>3 DEF ImcTakes, SharedOK
<1>4. CASE ImcReleases  BY <1>4 DEF ImcReleases, SharedOK
<1>. QED  BY <1>1, <1>2, <1>3, <1>4 DEF Hardware

-----------------------------------------------------------------------------
(* Who has what. *)

\* Whoever is not idle is alone.
LEMMA Alone ==
  ASSUME Held, NEW a \in Adapter, t[a].at # "idle"
  PROVE  region = a /\ \A b \in Adapter \ {a} : t[b].at = "idle" /\ sem # b
  BY DEF Held, Owning, Driving

\* Whoever takes a step is alone.
LEMMA Solo ==
  ASSUME Base, NEW a \in Adapter, Begin(a) \/ Access(a)
  PROVE  \A b \in Adapter \ {a} : t[b].at = "idle" /\ sem # b
  BY Alone, NameAssumption DEF Base, Held, Begin, Access, At, None, Owning, Driving,
     Semaphore, Sleep, Asleep, Select, Setup, Ready, Start, Poll, Fetch, Restore, Post,
     Wake, Awake, Release

\* Where a request of the semaphore leads.
LEMMA Requested ==
  ASSUME Base, NEW a \in Adapter, Semaphore(a)
  PROVE  /\ sem = None => t'[a].at = Owned(a)
         /\ sem # None => t'[a].at \in {"sem", "release"}
         /\ t'[a].rw = t[a].rw /\ t'[a].block = t[a].block /\ t'[a].prev = t[a].prev
<1>1. CASE sem = None
  <2>1. Go(a, Owned(a)) /\ Owned(a) \in Labels  BY <1>1 DEF Semaphore, Owned, Labels
  <2>. QED  BY <1>1, <2>1, Moved DEF Base
<1>2. CASE sem # None /\ t[a].tries > 1
  BY <1>2 DEF Semaphore, At, Base, Transfer
<1>3. CASE sem # None /\ ~(t[a].tries > 1)
  <2>1. End(a, "release", "busy")  BY <1>3 DEF Semaphore
  <2>. QED  BY <1>3, <2>1, Ended DEF Base, Labels, Results
<1>. QED  BY <1>1, <1>2, <1>3

\* What a step of the adapter that is in has to keep for Held to hold after it.
LEMMA HeldAfter ==
  ASSUME NEW a \in Adapter, Others(a), \A b \in Adapter \ {a} : t[b].at = "idle",
         t'[a].at # "idle" <=> region' = a, region' \in {a, None},
         sem' = a <=> t'[a].at \in Owning, sem' \in {a, None, "imc"},
         t'[a].at \in Driving => mux' = a /\ t'[a].prev = Boot,
         t'[a].at \notin Driving => mux' = Boot
  PROVE  Held'
<1>1. \A b \in Adapter \ {a} : t'[b].at = "idle" /\ region' # b /\ sem' # b
  BY NameAssumption DEF Others, None
<1>2. "idle" \notin Owning /\ "idle" \notin Driving  BY DEF Owning, Driving
<1>3. \A b \in Adapter : t'[b].at # "idle" <=> region' = b  BY <1>1
<1>4. \A b \in Adapter : sem' = b <=> t'[b].at \in Owning  BY <1>1, <1>2
<1>5. \A b \in Adapter : t'[b].at \in Driving => mux' = b /\ t'[b].prev = Boot  BY <1>1, <1>2
<1>6. (\A b \in Adapter : t'[b].at \notin Driving) => mux' = Boot  OBVIOUS
<1>. QED  BY <1>3, <1>4, <1>5, <1>6 DEF Held

\* A step of an adapter keeps Held.
LEMMA AccessHeld ==
  ASSUME Base, NEW a \in Adapter, Begin(a) \/ Access(a)
  PROVE  Held'
<1>o. Others(a)  BY AccessMoves DEF Base
<1>a. \A b \in Adapter \ {a} : t[b].at = "idle" /\ sem # b  BY Solo
<1>b. /\ t[a].at # "idle" <=> region = a
      /\ sem = a <=> t[a].at \in Owning
      /\ t[a].at \in Driving => mux = a /\ t[a].prev = Boot
      /\ t[a].at \notin Driving => mux = Boot
      /\ sem \in {a, None, "imc"}
  BY <1>a DEF Base, Held, SharedOK, Owning, Driving
<1>g. \A at \in Labels : Go(a, at) => t'[a].at = at /\ t'[a].prev = t[a].prev
  BY Moved DEF Base
<1>e. \A at \in Labels, res \in Results : End(a, at, res) => t'[a].at = at
        /\ t'[a].prev = t[a].prev
  BY Ended DEF Base
<1>n. a # None /\ a # "imc" /\ a # Boot /\ None # "imc"
  BY NameAssumption, ParameterAssumption DEF None
<1>. USE DEF At, Labels, Results, Owning, Driving
<1>1. CASE Begin(a)
  <2>1. PICK rw \in {"read", "write"}, block \in BOOLEAN :
          t' = [t EXCEPT ![a] = [Idle EXCEPT !.at = "sem", !.rw = rw, !.block = block,
                                             !.tries = Retries]]
    BY <1>1 DEF Begin
  <2>2. t'[a].at = "sem"  BY <2>1, Begun DEF Base
  <2>. QED  BY <1>1, <1>o, <1>a, <1>b, <1>n, <2>2, HeldAfter DEF Begin
<1>2. CASE Semaphore(a)
  BY <1>2, <1>o, <1>a, <1>b, <1>n, Requested, HeldAfter DEF Semaphore, Owned
<1>3. CASE Sleep(a)  BY <1>3, <1>o, <1>a, <1>b, <1>n, <1>g, HeldAfter DEF Sleep
<1>4. CASE Asleep(a)  BY <1>4, <1>o, <1>a, <1>b, <1>n, <1>g, HeldAfter DEF Asleep
<1>5. CASE Select(a)
  <2>1. t'[a].at = "setup" /\ t'[a].prev = mux  BY <1>5 DEF Select, Base, Transfer
  <2>. QED  BY <1>5, <2>1, <1>o, <1>a, <1>b, <1>n, HeldAfter DEF Select
<1>6. CASE Setup(a)  BY <1>6, <1>o, <1>a, <1>b, <1>n, <1>g, <1>e, HeldAfter DEF Setup
<1>7. CASE Ready(a)  BY <1>7, <1>o, <1>a, <1>b, <1>n, <1>g, <1>e, HeldAfter DEF Ready
<1>8. CASE Start(a)  BY <1>8, <1>o, <1>a, <1>b, <1>n, <1>g, HeldAfter DEF Start
<1>9. CASE Poll(a)
  <2>1. t'[a].at \in {"fetch", "restore"} /\ t'[a].prev = t[a].prev
    BY <1>9, <1>g, <1>e DEF Poll, Base, SharedOK, Polled
  <2>. QED  BY <1>9, <2>1, <1>o, <1>a, <1>b, <1>n, HeldAfter DEF Poll
<1>10. CASE Fetch(a)
  <2>1. t'[a].at = "restore" /\ t'[a].prev = t[a].prev  BY <1>10, <1>e DEF Fetch, Base, Transfer
  <2>. QED  BY <1>10, <2>1, <1>o, <1>a, <1>b, <1>n, HeldAfter DEF Fetch
<1>11. CASE Restore(a)  BY <1>11, <1>o, <1>a, <1>b, <1>n, <1>g, HeldAfter DEF Restore
<1>12. CASE Post(a)  BY <1>12, <1>o, <1>a, <1>b, <1>n, <1>g, HeldAfter DEF Post
<1>13. CASE Wake(a)  BY <1>13, <1>o, <1>a, <1>b, <1>n, <1>g, HeldAfter DEF Wake
<1>14. CASE Awake(a)  BY <1>14, <1>o, <1>a, <1>b, <1>n, <1>g, HeldAfter DEF Awake
<1>15. CASE Release(a)  BY <1>15, <1>o, <1>a, <1>b, <1>n, <1>g, HeldAfter DEF Release
<1>. QED  BY <1>1, <1>2, <1>3, <1>4, <1>5, <1>6, <1>7, <1>8, <1>9, <1>10,
             <1>11, <1>12, <1>13, <1>14, <1>15 DEF Access

\* The hardware keeps it.
LEMMA HardwareHeld ==
  ASSUME Base, Hardware \/ ImcTakes \/ ImcReleases
  PROVE  Held'
<1>1. t' = t /\ region' = region /\ mux' = mux
  BY DEF Hardware, Complete, Serve, ImcTakes, ImcReleases
<1>2. \A a \in Adapter : sem' = a <=> sem = a
  BY NameAssumption DEF Hardware, Complete, Serve, ImcTakes, ImcReleases, None
<1>. QED  BY <1>1, <1>2 DEF Base, Held

\* A controller that is done has a status.
LEMMA PolledStep ==
  ASSUME Base, [Next]_vars
  PROVE  Polled'
<1>1. ASSUME NEW a \in Adapter, Begin(a) \/ Access(a)  PROVE Polled'
  <2>o. Others(a)  BY <1>1, AccessMoves DEF Base
  <2>g. \A at \in Labels : Go(a, at) => t'[a].at = at  BY Moved DEF Base
  <2>e. \A at \in Labels, res \in Results : End(a, at, res) => t'[a].at = at  BY Ended DEF Base
  <2>. USE DEF At, Labels, Results
  <2>a. \A b \in Adapter \ {a} : t'[b].at = "idle"  BY <1>1, <2>o, Solo DEF Others
  <2>1. CASE Start(a)  BY <2>1, <2>a, <2>g DEF Start, Polled, Base, SharedOK
  <2>2. CASE Begin(a)
    <3>1. PICK rw \in {"read", "write"}, block \in BOOLEAN :
            t' = [t EXCEPT ![a] = [Idle EXCEPT !.at = "sem", !.rw = rw, !.block = block,
                                               !.tries = Retries]]
      BY <2>2 DEF Begin
    <3>2. t'[a].at = "sem"  BY <3>1, Begun DEF Base
    <3>. QED  BY <3>2, <2>a DEF Polled
  <2>3. CASE Select(a)
    <3>1. t'[a].at = "setup"  BY <2>3 DEF Select, Base, Transfer
    <3>. QED  BY <3>1, <2>a DEF Polled
  <2>4. CASE Semaphore(a)
    <3>1. t'[a].at # "poll"  BY <2>4, Requested DEF Owned
    <3>. QED  BY <3>1, <2>a DEF Polled
  <2>5. CASE Fetch(a)
    <3>1. t'[a].at = "restore"  BY <2>5, <2>e DEF Fetch, Base, Transfer
    <3>. QED  BY <3>1, <2>a DEF Polled
  <2>6. CASE Poll(a)
    <3>1. t'[a].at \in {"fetch", "restore"}  BY <2>6, <2>g, <2>e DEF Poll, Base, SharedOK, Polled
    <3>. QED  BY <3>1, <2>a DEF Polled
  <2>7. CASE \/ Sleep(a) \/ Asleep(a) \/ Setup(a) \/ Ready(a) \/ Restore(a) \/ Post(a)
             \/ Wake(a) \/ Awake(a) \/ Release(a)
    <3>1. t'[a].at # "poll"
      BY <2>7, <2>g, <2>e DEF Sleep, Asleep, Setup, Ready, Restore, Post, Wake, Awake, Release
    <3>. QED  BY <3>1, <2>a DEF Polled
  <2>. QED  BY <1>1, <2>1, <2>2, <2>3, <2>4, <2>5, <2>6, <2>7 DEF Access
<1>2. CASE Complete
  <2>1. t' = t /\ host'.sts # "clear"  BY <1>2 DEF Complete, Base, SharedOK
  <2>. QED  BY <2>1 DEF Polled
<1>3. CASE t' = t /\ host' = host  BY <1>3 DEF Base, Polled
<1>. QED  BY <1>1, <1>2, <1>3 DEF Next, Hardware, Serve, ImcTakes, ImcReleases, vars

LEMMA InitBase == Init => Base
<1>1. ASSUME Init  PROVE t \in [Adapter -> Transfer] /\ \A a \in Adapter : t[a].at = "idle"
  BY <1>1, IdleTransfer DEF Init, Idle
<1>2. ASSUME Init  PROVE SharedOK  BY <1>2, DatumKinds DEF Init, SharedOK, Quiet, Port
<1>. QED
  BY <1>1, <1>2, NameAssumption DEF Init, Base, Held, Polled, Driving, Owning, None

LEMMA BaseStep == Base /\ [Next]_vars => Base'
<1>. SUFFICES ASSUME Base, [Next]_vars  PROVE Base'
  OBVIOUS
<1>1. Polled'  BY PolledStep
<1>2. ASSUME NEW a \in Adapter, Begin(a) \/ Access(a)  PROVE Base'
  BY <1>1, <1>2, AccessMoves, AccessShared, AccessHeld DEF Base, Others
<1>3. CASE Hardware \/ ImcTakes \/ ImcReleases
  BY <1>1, <1>3, HardwareShared, HardwareHeld DEF Base
<1>4. CASE UNCHANGED vars  BY <1>4 DEF vars, Base, SharedOK, Held, Polled, Driving, Owning
<1>. QED  BY <1>2, <1>3, <1>4 DEF Next

\* At every step of piix4_access_sb800() of every adapter, the region, the semaphore,
\* the selected port and the controller are as that step finds them.
THEOREM Sb800Base == Spec => []Base
<1>. QED  BY InitBase, BaseStep, PTL DEF Spec

\* The variables keep to their types; no transfer polls the semaphore more than
\* its number of retries.
THEOREM Sb800Types == Spec => []TypeOK
<1>1. Base => TypeOK  BY TypeParts DEF Base
<1>. QED  BY <1>1, Sb800Base, PTL

\* Whatever became of a transfer, the region is given back with the port of the
\* firmware selected and the semaphore free or with the IMC.
THEOREM Sb800Restored == Spec => []Restored
<1>1. Base => Restored
  BY NameAssumption DEF Base, SharedOK, Held, Restored, None, Driving, Owning
<1>. QED  BY <1>1, Sb800Base, PTL

\* The host is driven by one adapter at a time, on its own port, with the semaphore.
THEOREM Sb800Exclusive == Spec => []Exclusive
<1>1. Base => Exclusive
  BY Alone DEF Base, Held, Exclusive, Driving, Owning
<1>. QED  BY <1>1, Sb800Base, PTL

-----------------------------------------------------------------------------
(* The dialogue with the IMC. *)

\* A step of an adapter keeps Mailbox.
LEMMA AccessMailbox ==
  ASSUME Base, Mailbox, NEW a \in Adapter, Begin(a) \/ Access(a)
  PROVE  Mailbox'
<1>o. Others(a)  BY AccessMoves DEF Base
<1>a. \A b \in Adapter \ {a} : t'[b].at = "idle"  BY <1>o, Solo DEF Others
<1>p. SUFFICES Heard(a)' /\ (InTime' => Prompt(a)' /\ (region' = None => Awaken'))
  BY <1>a DEF Mailbox, Heard, Prompt, Told, Driving
<1>b. /\ Heard(a) /\ (InTime => Prompt(a) /\ (region = None => Awaken))
      /\ t[a].at # "idle" <=> region = a
      /\ a # None
  BY NameAssumption DEF Mailbox, Base, Held, None
<1>s. ASSUME NEW e \in {"late", "taken"}, Spend(e)  PROVE ~InTime'
  BY <1>s, Counted DEF Base, SharedOK, InTime, Events
<1>g. \A at \in Labels : Go(a, at) => t'[a].at = at /\ t'[a].block = t[a].block
  BY Moved DEF Base
<1>e. \A at \in Labels, res \in Results :
        End(a, at, res) => t'[a].at = at /\ t'[a].block = t[a].block
  BY Ended DEF Base
<1>u. ASSUME imc' = imc, notify' = notify, t'[a].block = t[a].block
      PROVE  (Dozing(a)' <=> Dozing(a)) /\ (Awaken' <=> Awaken)
  BY <1>u DEF Dozing, Awaken
<1>. USE DEF At, Labels, Results, Heard, Prompt, Told, Driving
<1>1. CASE Begin(a)
  <2>1. PICK rw \in {"read", "write"}, block \in BOOLEAN :
          t' = [t EXCEPT ![a] = [Idle EXCEPT !.at = "sem", !.rw = rw, !.block = block,
                                             !.tries = Retries]]
    BY <1>1 DEF Begin
  <2>2. t'[a].at = "sem"  BY <2>1, Begun DEF Base
  <2>. QED  BY <1>1, <1>b, <2>2 DEF Begin, InTime, Awaken
<1>2. CASE Semaphore(a)
  <2>1. imc' = imc /\ notify' = notify /\ past' = past /\ region' = region
    BY <1>2 DEF Semaphore
  <2>. QED  BY <1>2, <1>b, <1>u, <2>1, Requested DEF Semaphore, Owned, InTime, Dozing
<1>3. CASE Sleep(a)
  <2>1. CASE Spend("taken") /\ notify' = notify \ {a} /\ Go(a, "select")
    BY <2>1, <1>s, <1>g DEF Dozing
  <2>2. CASE imc' = [imc EXCEPT !.cmd = "sleep", !.resp = FALSE] /\ Go(a, "asleep")
             /\ UNCHANGED <<notify, past>>
    <3>1. imc'.cmd = "sleep" /\ ~imc'.resp  BY <2>2 DEF Base, SharedOK
    <3>. QED  BY <1>3, <2>2, <3>1, <1>b, <1>g DEF Sleep, Dozing
  <2>. QED  BY <1>3, <2>1, <2>2 DEF Sleep
<1>4. CASE Asleep(a)
  <2>1. CASE Spend("late") /\ notify' = notify \ {a}
    BY <1>4, <2>1, <1>s, <1>g DEF Asleep, Dozing
  <2>2. CASE imc.resp /\ UNCHANGED <<notify, past>>
    BY <1>4, <2>2, <1>b, <1>g DEF Asleep, Dozing
  <2>. QED  BY <1>4, <2>1, <2>2 DEF Asleep
<1>5. CASE Select(a)
  <2>1. t'[a].at = "setup" /\ t'[a].block = t[a].block  BY <1>5 DEF Select, Base, Transfer
  <2>. QED  BY <1>5, <2>1, <1>b, <1>u DEF Select, InTime
<1>6. CASE Setup(a)  BY <1>6, <1>b, <1>u, <1>g, <1>e DEF Setup, InTime
<1>7. CASE Ready(a)  BY <1>7, <1>b, <1>u, <1>g, <1>e DEF Ready, InTime
<1>8. CASE Start(a)  BY <1>8, <1>b, <1>u, <1>g DEF Start, InTime
<1>9. CASE Poll(a)
  <2>1. t'[a].at \in {"fetch", "restore"} /\ t'[a].block = t[a].block
    BY <1>9, <1>g, <1>e DEF Poll, Base, SharedOK, Polled
  <2>2. InTime' => InTime
    BY <1>9, Counted DEF Poll, InTime, Base, SharedOK, Events
  <2>. QED  BY <1>9, <2>1, <2>2, <1>b, <1>u DEF Poll
<1>10. CASE Fetch(a)
  <2>1. t'[a].at = "restore" /\ t'[a].block = t[a].block
    BY <1>10, <1>e DEF Fetch, Base, Transfer
  <2>. QED  BY <1>10, <2>1, <1>b, <1>u DEF Fetch, InTime
<1>11. CASE Restore(a)  BY <1>11, <1>b, <1>u, <1>g DEF Restore, InTime
<1>12. CASE Post(a)  BY <1>12, <1>b, <1>u, <1>g DEF Post, InTime, Dozing
<1>13. CASE Wake(a)
  <2>1. CASE Spend("taken") /\ Go(a, "release")
    BY <2>1, <1>s, <1>g DEF Dozing
  <2>2. CASE imc' = [imc EXCEPT !.cmd = "wake", !.resp = FALSE] /\ Go(a, "awake")
          /\ UNCHANGED past
    <3>1. imc'.cmd = "wake" /\ ~imc'.resp  BY <2>2 DEF Base, SharedOK
    <3>. QED  BY <1>13, <2>2, <3>1, <1>b, <1>g DEF Wake
  <2>. QED  BY <1>13, <2>1, <2>2 DEF Wake
<1>14. CASE Awake(a)
  <2>1. CASE Spend("late")  BY <1>14, <2>1, <1>s, <1>g DEF Awake
  <2>2. CASE imc.resp /\ UNCHANGED past
    BY <1>14, <2>2, <1>b, <1>g DEF Awake, InTime, Awaken
  <2>. QED  BY <1>14, <2>1, <2>2 DEF Awake
<1>15. CASE Release(a)  BY <1>15, <1>b, <1>u, <1>g DEF Release, InTime
<1>. QED  BY <1>1, <1>2, <1>3, <1>4, <1>5, <1>6, <1>7, <1>8, <1>9, <1>10,
             <1>11, <1>12, <1>13, <1>14, <1>15 DEF Access

LEMMA MailboxStep == Base /\ Mailbox /\ [Next]_vars => Mailbox'
<1>. SUFFICES ASSUME Base, Mailbox, [Next]_vars  PROVE Mailbox'
  OBVIOUS
<1>1. ASSUME NEW a \in Adapter, Begin(a) \/ Access(a)  PROVE Mailbox'
  BY <1>1, AccessMailbox
<1>2. CASE Serve
  <2>1. /\ t' = t /\ notify' = notify /\ past' = past /\ region' = region
        /\ imc.cmd \in {"sleep", "wake"}
        /\ imc'.cmd = None /\ imc'.resp /\ (imc'.asleep <=> imc.cmd = "sleep")
    BY <1>2 DEF Serve, Base, SharedOK
  <2>2. None # "sleep" /\ None # "wake"  BY DEF None
  <2>3. \A a \in Adapter : Heard(a) => Heard(a)'
    BY <2>1, <2>2 DEF Heard, Dozing
  <2>4. \A a \in Adapter : Prompt(a) => Prompt(a)'
    BY <2>1, <2>2 DEF Prompt, Awaken, Dozing
  <2>. QED  BY <2>1, <2>2, <2>3, <2>4 DEF Mailbox, InTime, Awaken
<1>3. CASE Complete \/ ImcTakes \/ ImcReleases \/ UNCHANGED vars
  <2>1. t' = t /\ notify' = notify /\ past' = past /\ region' = region /\ imc' = imc
    BY <1>3 DEF Complete, ImcTakes, ImcReleases, vars
  <2>. QED  BY <2>1 DEF Mailbox, Heard, Prompt, Awaken, Dozing, InTime
<1>. QED  BY <1>1, <1>2, <1>3 DEF Next, Hardware

\* A block transfer that was announced runs while the IMC sleeps, and the IMC is
\* woken after it, unless it was late or its mailbox taken.
THEOREM Sb800ImcInStep == Spec => []ImcInStep
<1>1. Init => Mailbox
  <2>1. ASSUME Init  PROVE \A a \in Adapter : t[a].at = "idle"  BY <2>1 DEF Init, Idle
  <2>. QED  BY <2>1 DEF Init, Mailbox, Heard, Prompt, Awaken, Told, Driving
<1>2. Mailbox => ImcInStep
  BY DEF Mailbox, ImcInStep, Heard, Dozing, Told, Driving, InTime, Awaken
<1>. QED  BY <1>1, <1>2, MailboxStep, Sb800Base, PTL DEF Spec

-----------------------------------------------------------------------------
(* The result of a transfer. *)

\* A step of an adapter keeps Outcome.
LEMMA AccessOutcome ==
  ASSUME Base, Outcome, NEW a \in Adapter, Begin(a) \/ Access(a)
  PROVE  Outcome'
<1>o. Others(a)  BY AccessMoves DEF Base
<1>a. \A b \in Adapter \ {a} : t[b].at = "idle" /\ t'[b].at = "idle"
  BY <1>o, Solo DEF Others
<1>p. SUFFICES Result(a)' /\ (Calm' /\ host'.busy => t'[a].at = "poll")
  BY <1>a DEF Outcome, Result, Succeeded
<1>b. Result(a) /\ (Calm /\ host.busy => t[a].at = "poll")
  BY <1>a DEF Outcome
<1>g. \A at \in Labels : Go(a, at) =>
        t'[a].at = at /\ t'[a].rw = t[a].rw /\ t'[a].res = t[a].res /\ t'[a].got = t[a].got
  BY Moved DEF Base
<1>e. \A at \in Labels, res \in Results : End(a, at, res) =>
        t'[a].at = at /\ t'[a].rw = t[a].rw /\ t'[a].res = res
  BY Ended DEF Base
<1>h. host' = [host EXCEPT !.sts = "clear"] =>
        host'.busy = host.busy /\ host'.sts = "clear" /\ host'.op = host.op
  BY DEF Base, SharedOK
<1>c. UNCHANGED past => (Calm' <=> Calm)  BY DEF Calm
<1>. USE DEF At, Labels, Results, Result, Succeeded
<1>1. CASE Begin(a)
  <2>1. PICK rw \in {"read", "write"}, block \in BOOLEAN :
          t' = [t EXCEPT ![a] = [Idle EXCEPT !.at = "sem", !.rw = rw, !.block = block,
                                             !.tries = Retries]]
    BY <1>1 DEF Begin
  <2>2. t'[a].at = "sem"  BY <2>1, Begun DEF Base
  <2>. QED  BY <1>1, <1>b, <1>c, <2>2 DEF Begin
<1>2. CASE Semaphore(a)
  <2>1. t'[a].at \in {"sem", "sleep", "select", "release"}  BY <1>2, Requested DEF Owned
  <2>. QED  BY <1>2, <2>1, <1>b, <1>c DEF Semaphore
<1>3. CASE Sleep(a) \/ Asleep(a) \/ Wake(a) \/ Awake(a)
  <2>1. t'[a].at \in {"asleep", "select", "awake", "release"}
    BY <1>3, <1>g DEF Sleep, Asleep, Wake, Awake
  <2>2. Calm' <=> Calm
    BY <1>3, Counted DEF Sleep, Asleep, Wake, Awake, Calm, Base, SharedOK, Events
  <2>3. host' = host /\ t[a].at # "poll"  BY <1>3 DEF Sleep, Asleep, Wake, Awake
  <2>. QED  BY <2>1, <2>2, <2>3, <1>b
<1>5. CASE Select(a)
  <2>1. t'[a].at = "setup"  BY <1>5 DEF Select, Base, Transfer
  <2>. QED  BY <1>5, <2>1, <1>b, <1>c DEF Select
<1>6. CASE Setup(a)
  <2>1. CASE /\ Go(a, "ready")
             /\ reg' = [rw |-> t[a].rw, dat |-> IF t[a].rw = "write" THEN Own(a) ELSE reg.dat]
    <3>1. reg'.rw = t[a].rw /\ (t[a].rw = "write" => reg'.dat = Own(a))  BY <2>1
    <3>. QED  BY <1>6, <2>1, <3>1, <1>b, <1>c, <1>g DEF Setup
  <2>2. CASE End(a, "restore", "invalid")
    BY <1>6, <2>2, <1>b, <1>c, <1>e DEF Setup
  <2>. QED  BY <1>6, <2>1, <2>2 DEF Setup
<1>7. CASE Ready(a)
  <2>1. CASE host.busy  BY <1>7, <2>1, <1>b, <1>c, <1>e, <1>h DEF Ready
  <2>2. CASE ~host.busy  BY <1>7, <2>2, <1>b, <1>c, <1>g, <1>h DEF Ready
  <2>. QED  BY <2>1, <2>2
<1>8. CASE Start(a)
  <2>1. mux = a  BY <1>8 DEF Start, Base, Held, Driving
  <2>2. host'.busy /\ host'.op = [rw |-> reg.rw, dat |-> reg.dat, port |-> mux]
    BY <1>8 DEF Start, Base, SharedOK
  <2>3. host'.op.rw = reg.rw /\ host'.op.dat = reg.dat /\ host'.op.port = mux  BY <2>2
  <2>. QED  BY <1>8, <2>1, <2>2, <2>3, <1>b, <1>c, <1>g DEF Start
<1>9. CASE Poll(a)
  <2>1. CASE host.busy
    <3>1. End(a, "restore", "timeout") /\ Spend("stall")  BY <1>9, <2>1 DEF Poll
    <3>2. ~Calm'  BY <3>1, Counted DEF Calm, Base, SharedOK, Events
    <3>. QED  BY <3>1, <3>2, <1>e
  <2>2. CASE ~host.busy /\ host.sts = "done"
    <3>1. Go(a, IF t[a].rw = "read" THEN "fetch" ELSE "restore")
          /\ UNCHANGED <<past, reg, stored>>
      BY <1>9, <2>2 DEF Poll
    <3>2. t[a].rw \in {"read", "write"}  BY DEF Base, Transfer
    <3>3. ~host'.busy  BY <1>9, <2>2, <1>h DEF Poll
    <3>4. CASE t[a].rw = "read"
      <4>1. t'[a].at = "fetch" /\ t'[a].rw = "read"  BY <3>1, <3>4, <1>g
      <4>. QED  BY <1>9, <2>2, <3>1, <3>3, <3>4, <4>1, <1>b DEF Poll, Answer
    <3>5. CASE t[a].rw = "write"
      <4>1. t'[a].at = "restore" /\ t'[a].rw = "write"  BY <3>1, <3>5, <1>g
      <4>. QED  BY <1>9, <2>2, <3>1, <3>3, <3>5, <4>1, <1>b, <1>c DEF Poll, Own
    <3>. QED  BY <3>2, <3>4, <3>5
  <2>3. CASE ~host.busy /\ host.sts # "done"
    <3>1. End(a, "restore", host.sts) /\ host.sts \in {"nak", "error"}
      BY <1>9, <2>3 DEF Poll, Base, SharedOK, Polled
    <3>2. t'[a].at = "restore" /\ t'[a].res # "ok"  BY <3>1, <1>e
    <3>3. ~host'.busy  BY <1>9, <2>3, <1>h DEF Poll
    <3>. QED  BY <3>2, <3>3
  <2>. QED  BY <2>1, <2>2, <2>3
<1>10. CASE Fetch(a)
  <2>1. CASE t' = [t EXCEPT ![a].at = "restore", ![a].got = reg.dat]
    <3>1. t'[a].at = "restore" /\ t'[a].got = reg.dat /\ t'[a].rw = t[a].rw
      BY <2>1 DEF Base, Transfer
    <3>. QED  BY <1>10, <3>1, <1>b DEF Fetch, Answer
  <2>2. CASE End(a, "restore", "protocol")
    <3>1. t'[a].at = "restore" /\ t'[a].res # "ok"  BY <2>2, <1>e
    <3>. QED  BY <1>10, <3>1, <1>b DEF Fetch
  <2>. QED  BY <1>10, <2>1, <2>2 DEF Fetch
<1>11. CASE Restore(a) \/ Post(a) \/ Release(a)
  <2>1. t'[a].at \in {"post", "wake", "release", "idle"}
    BY <1>11, <1>g DEF Restore, Post, Release
  <2>2. host' = host /\ past' = past /\ t[a].at # "poll"  BY <1>11 DEF Restore, Post, Release
  <2>. QED  BY <2>1, <2>2, <1>b, <1>c
<1>. QED  BY <1>1, <1>2, <1>3, <1>5, <1>6, <1>7, <1>8, <1>9, <1>10, <1>11 DEF Access

LEMMA OutcomeStep == Base /\ Outcome /\ [Next]_vars => Outcome'
<1>. SUFFICES ASSUME Base, Outcome, [Next]_vars  PROVE Outcome'
  OBVIOUS
<1>1. ASSUME NEW a \in Adapter, Begin(a) \/ Access(a)  PROVE Outcome'
  BY <1>1, AccessOutcome
<1>2. CASE Complete
  <2>1. /\ t' = t /\ past' = past /\ host.busy
        /\ ~host'.busy /\ host'.op = host.op
    BY <1>2 DEF Complete, Base, SharedOK
  <2>2. reg'.rw = reg.rw  BY <1>2 DEF Complete, Base, SharedOK
  <2>3. ASSUME NEW a \in Adapter  PROVE Result(a)'
    <3>1. Result(a) /\ t[a].rw \in {"read", "write"} /\ a \in Port
      BY DEF Outcome, Base, Transfer, Port
    <3>2. Calm => t[a].at \notin {"ready", "start", "fetch"}
      <4>1. ASSUME Calm, t[a].at # "idle"  PROVE t[a].at = "poll"
        <5>1. PICK b \in Adapter : t[b].at = "poll"  BY <2>1, <4>1 DEF Outcome
        <5>. QED  BY <4>1, <5>1, Alone DEF Base
      <4>. QED  BY <4>1
    <3>3. CASE t[a].at = "poll"
      <4>1. host.op.port = a /\ host.op.rw = t[a].rw
            /\ (t[a].rw = "write" /\ Calm => host.op.dat = Own(a))
        BY <3>1, <3>3 DEF Result
      <4>2. CASE t[a].rw = "read" /\ host'.sts = "done"
        <5>1. reg' = [reg EXCEPT !.dat = Answer(a)]
          BY <1>2, <4>1, <4>2 DEF Complete, Base, SharedOK
        <5>2. reg'.dat = Answer(a)  BY <5>1 DEF Base, SharedOK
        <5>. QED  BY <2>1, <3>3, <4>1, <4>2, <5>2 DEF Result, Succeeded, Answer, Calm
      <4>3. CASE t[a].rw = "write" /\ host'.sts = "done"
        <5>1. stored' = [stored EXCEPT ![a] = host.op.dat]
          BY <1>2, <4>1, <4>3 DEF Complete, Base, SharedOK
        <5>2. stored'[a] = host.op.dat  BY <5>1, <3>1 DEF Base, SharedOK
        <5>. QED  BY <2>1, <3>3, <4>1, <4>3, <5>2 DEF Result, Succeeded, Own, Calm
      <4>4. CASE host'.sts # "done"
        BY <2>1, <3>3, <4>1, <4>4 DEF Result, Succeeded, Own, Calm
      <4>. QED  BY <3>1, <4>2, <4>3, <4>4
    <3>4. CASE t[a].at # "poll"
      BY <2>1, <2>2, <3>1, <3>2, <3>4 DEF Result, Succeeded, Calm
    <3>. QED  BY <3>3, <3>4
  <2>. QED  BY <2>1, <2>3 DEF Outcome
<1>3. CASE Serve \/ ImcTakes \/ ImcReleases \/ UNCHANGED vars
  <2>1. t' = t /\ past' = past /\ host' = host /\ reg' = reg /\ stored' = stored
    BY <1>3 DEF Serve, ImcTakes, ImcReleases, vars
  <2>. QED  BY <2>1 DEF Outcome, Result, Succeeded, Calm
<1>. QED  BY <1>1, <1>2, <1>3 DEF Next, Hardware

\* A transfer that succeeds has the answer of its own device, or has stored its own
\* datum, whatever late end of an abandoned transfer the controller still had to give.
THEOREM Sb800ResultMine == Spec => []ResultMine
<1>1. Init => Outcome
  <2>1. ASSUME Init  PROVE \A a \in Adapter : t[a].at = "idle"  BY <2>1 DEF Init, Idle
  <2>. QED  BY <2>1 DEF Init, Outcome, Result, Succeeded
<1>2. Outcome => ResultMine
  BY DEF Outcome, Result, ResultMine, Succeeded, Calm
<1>. QED  BY <1>1, <1>2, OutcomeStep, Sb800Base, PTL DEF Spec
=============================================================================
