------------------------- MODULE PsmouseSmbusProofs -------------------------
(***************************************************************************)
(* Proofs about PsmouseSmbus, for any records, ports, clients and adapters *)
(* and any events.                                                         *)
(*                                                                         *)
(* Ports says what the port has at each of its steps, Records which        *)
(* records may be in the list and whose they are: one that is not dead is  *)
(* the port's, and a dead one waits for its client, or its port for the    *)
(* disconnect that frees it, never both.  Clients and Adapters, on top of  *)
(* them, follow the clients and the adapters that were looked at.          *)
(***************************************************************************)
EXTENDS PsmouseSmbus, TLAPS

Walking == port.pc \in {"walk", "assign"}

Ports ==
  /\ port.pc \in {"idle", "leave"} <=> port.proto # "none"
  /\ port.pc # "off" => port.ps \in alive
  /\ Walking \/ port.proto = "smbus" => port.priv \in list /\ rec[port.priv].ps = port.ps
  /\ Walking => ~rec[port.priv].dead /\ rec[port.priv].client = NoOne
  /\ port.proto = "smbus" => rec[port.priv].client # NoOne
  /\ port.pc = "assign" => port.client # NoOne /\ client[port.client] \in bus \ leaving
                           /\ port.client \notin jobs
  /\ leaving \cap adding = {}

\* The record of the port, and a breadcrumb that waits beside another protocol
Current(r) == r = port.priv /\ (Walking \/ port.proto = "smbus")
Waiting(r) ==
  /\ rec[r].client = NoOne
  /\ port.proto = "ps2" \/ (port.pc = "ps2" /\ port.next = "auto")
Records ==
  \A r \in list :
    /\ ~rec[r].dead => rec[r].ps = port.ps /\ (Current(r) \/ Waiting(r))
    /\ rec[r].dead => rec[r].client # NoOne
    /\ ~rec[r].dead /\ rec[r].client # NoOne => client[rec[r].client] # NoOne
    /\ rec[r].dead => (client[rec[r].client] = NoOne <=> Current(r))

\* A client is the port's, or it is on its way out.
Clients ==
  past["alloc"] = 0 =>
    \A c \in Client : client[c] # NoOne =>
      \/ c \in jobs
      \/ port.pc = "assign" /\ port.client = c
      \/ port.proto = "smbus" /\ ~rec[port.priv].dead /\ rec[port.priv].client = c

\* A breadcrumb, or the record of a walk, was looked for on each adapter, or will be.
Adapters ==
  port.pc \in {"walk", "ps2", "idle"} =>
    \A r \in list :
      Crumb(r) => \A a \in bus \ leaving :
        a \in tried[r] \/ a \in adding \/ rescan \/ (port.pc = "walk" /\ a \in port.todo)

Base == TypeOK /\ Ports /\ Records

-----------------------------------------------------------------------------
(* Types. *)

RecType == [ps : Ps \cup {NoOne}, client : Client \cup {NoOne}, dead : BOOLEAN]
PortType ==
  [pc : {"off", "choose", "init", "walk", "assign", "ps2", "plain", "idle", "leave", "free"},
   ps : Ps \cup {NoOne}, proto : {"none", "smbus", "ps2", "plain"},
   priv : Rec \cup {NoOne}, todo : SUBSET Adapter, client : Client \cup {NoOne},
   next : {"none", "auto", "smbus", "absolute"}]

LEMMA Spent ==
  ASSUME past \in [Events -> Nat], NEW e \in Events, Spend(e)
  PROVE  past' \in [Events -> Nat] /\ past'[e] = past[e] + 1
         /\ \A k \in Events \ {e} : past'[k] = past[k]
<1>1. past[e] + 1 \in Nat
  OBVIOUS
<1>. QED  BY <1>1 DEF Spend

\* The port keeps Base.
LEMMA PortBase ==
  ASSUME Base, Port \/ Unbind \/ Bind \/ SwitchProtocol
  PROVE  Base'
<1>. USE NoOneAssumption, BudgetAssumption DEF Base, i2c, Goes, Leave, Left, Walking
<1>t. port \in PortType /\ rec \in [Rec -> RecType]  BY DEF TypeOK, PortType, RecType
<1>1. CASE Connect
  <2>1. port' \in PortType  BY <1>1, <1>t DEF Connect, PortType, TypeOK
  <2>2. TypeOK'  BY <1>1, <1>t, <2>1 DEF Connect, TypeOK, PortType, RecType
  <2>3. Ports'
    BY <1>1, <1>t DEF Connect, TypeOK, PortType, RecType, Ports, Records, Current, Waiting
  <2>4. Records'
    BY <1>1, <1>t DEF Connect, TypeOK, PortType, RecType, Ports, Records, Current, Waiting
  <2>. QED  BY <2>2, <2>3, <2>4
<1>2. CASE Choose
  <2>1. port' \in PortType  BY <1>2, <1>t DEF Choose, PortType, TypeOK
  <2>2. TypeOK'  BY <1>2, <1>t, <2>1 DEF Choose, TypeOK, PortType, RecType
  <2>3. Ports'
    BY <1>2, <1>t DEF Choose, TypeOK, PortType, RecType, Ports, Records, Current, Waiting
  <2>4. Records'
    BY <1>2, <1>t DEF Choose, TypeOK, PortType, RecType, Ports, Records, Current, Waiting
  <2>. QED  BY <2>2, <2>3, <2>4
<1>3. CASE SmbusInit
  <2>1. PICK r \in Rec \ live :
          /\ live' = live \cup {r} /\ list' = list \cup {r}
          /\ rec' = [rec EXCEPT ![r] = [NoRecord EXCEPT !.ps = port.ps]]
          /\ port' = [port EXCEPT !.pc = "walk", !.priv = r, !.todo = bus \ leaving]
          /\ tried' = [tried EXCEPT ![r] = {}]
    BY <1>3 DEF SmbusInit
  <2>2. UNCHANGED <<alive, client, pdata, leaked, jobs, bus, adding, leaving, rescan, past>>
        /\ port.pc = "init"
    BY <1>3 DEF SmbusInit
  <2>3. NoRecord \in RecType /\ NoRecord.client = NoOne /\ NoRecord.dead = FALSE
    BY DEF NoRecord, RecType
  <2>n. [NoRecord EXCEPT !.ps = port.ps] \in RecType
    BY <1>t, <2>3 DEF RecType, PortType
  <2>4. /\ rec'[r].ps = port.ps /\ rec'[r].client = NoOne /\ rec'[r].dead = FALSE
        /\ rec' \in [Rec -> RecType]
        /\ \A q \in Rec \ {r} : rec'[q] = rec[q]
    BY <1>t, <2>1, <2>3, <2>n DEF RecType
  <2>5. port' \in PortType /\ port'.pc = "walk" /\ port'.priv = r
        /\ port'.ps = port.ps /\ port'.proto = port.proto
    BY <1>t, <2>1 DEF PortType, TypeOK
  <2>6. tried' \in [Rec -> SUBSET Adapter]  BY <2>1 DEF TypeOK
  <2>7. list' \subseteq live' /\ live' \subseteq Rec /\ r \notin list  BY <2>1 DEF TypeOK
  <2>8. TypeOK'  BY <2>2, <2>4, <2>5, <2>6, <2>7 DEF TypeOK, PortType, RecType
  <2>9. Ports'  BY <2>1, <2>2, <2>4, <2>5, <2>7 DEF Ports, TypeOK
  <2>10. Records'
    BY <2>1, <2>2, <2>4, <2>5, <2>7 DEF Ports, Records, Current, Waiting, TypeOK
  <2>. QED  BY <2>8, <2>9, <2>10
<1>4. CASE WalkMiss
  <2>1. port' \in PortType  BY <1>4, <1>t DEF WalkMiss, PortType, TypeOK
  <2>2. TypeOK'
    <3>1. PICK a \in Adapter : tried' = [tried EXCEPT ![port.priv] = @ \cup {a}]
      BY <1>4, <1>t DEF WalkMiss, PortType
    <3>2. port.priv \in Rec  BY <1>4 DEF WalkMiss, Ports, TypeOK
    <3>3. tried[port.priv] \cup {a} \in SUBSET Adapter  BY <3>2 DEF TypeOK
    <3>4. tried' \in [Rec -> SUBSET Adapter]  BY <3>1, <3>2, <3>3 DEF TypeOK
    <3>. QED  BY <1>4, <1>t, <2>1, <3>4 DEF WalkMiss, TypeOK, PortType, RecType
  <2>3. Ports'
    BY <1>4, <1>t DEF WalkMiss, TypeOK, PortType, RecType, Ports, Records, Current, Waiting
  <2>4. Records'
    BY <1>4, <1>t DEF WalkMiss, TypeOK, PortType, RecType, Ports, Records, Current, Waiting
  <2>. QED  BY <2>2, <2>3, <2>4
<1>5. CASE WalkHit
  <2>0. PICK c \in Client : port' = [port EXCEPT !.pc = "assign", !.client = c]
    BY <1>5 DEF WalkHit
  <2>1. port' \in PortType  BY <1>t, <2>0 DEF PortType
  <2>2. TypeOK'  BY <1>5, <1>t, <2>1 DEF WalkHit, TypeOK, PortType, RecType
  <2>3. Ports'
    BY <1>5, <1>t DEF WalkHit, TypeOK, PortType, RecType, Ports, Records, Current, Waiting
  <2>4. Records'
    BY <1>5, <1>t DEF WalkHit, TypeOK, PortType, RecType, Ports, Records, Current, Waiting
  <2>. QED  BY <2>2, <2>3, <2>4
<1>6. CASE Assign
  <2>1. port' \in PortType  BY <1>6, <1>t DEF Assign, PortType, TypeOK
  <2>2. TypeOK'
    <3>1. rec' \in [Rec -> RecType]  BY <1>6, <1>t DEF Assign, RecType, PortType
    <3>. QED  BY <1>6, <1>t, <2>1, <3>1 DEF Assign, TypeOK, PortType, RecType
  <2>3. Ports'
    BY <1>6, <1>t DEF Assign, TypeOK, PortType, RecType, Ports, Records, Current, Waiting
  <2>4. Records'
    BY <1>6, <1>t DEF Assign, TypeOK, PortType, RecType, Ports, Records, Current, Waiting
  <2>. QED  BY <2>2, <2>3, <2>4
<1>7. CASE NoCompanion
  <2>1. port' \in PortType  BY <1>7, <1>t DEF NoCompanion, PortType, TypeOK
  <2>2. TypeOK'  BY <1>7, <1>t, <2>1 DEF NoCompanion, Cleanup, Drop, TypeOK, PortType, RecType
  <2>3. Ports'
    BY <1>7, <1>t DEF NoCompanion, Cleanup, Drop, TypeOK, PortType, RecType, Ports, Records,
       Current, Waiting
  <2>4. Records'
    BY <1>7, <1>t DEF NoCompanion, Cleanup, Drop, TypeOK, PortType, RecType, Ports, Records,
       Current, Waiting
  <2>. QED  BY <2>2, <2>3, <2>4
<1>8. CASE SetupPs2
  <2>1. PICK proto \in {"ps2", "plain"} :
          /\ port' = [port EXCEPT !.pc = "idle", !.proto = proto, !.next = "none", !.priv = NoOne]
          /\ IF proto = "plain" /\ port.next = "auto" THEN Cleanup ELSE UNCHANGED <<live, list>>
    BY <1>8 DEF SetupPs2
  <2>2. port' \in PortType /\ port'.pc = "idle" /\ port'.proto = proto /\ port'.ps = port.ps
    BY <1>t, <2>1 DEF PortType
  <2>3. UNCHANGED <<rec, alive, client, pdata, leaked, jobs, bus, adding, leaving, rescan, tried,
          past>>
        /\ port.pc = "ps2"
    BY <1>8 DEF SetupPs2
  <2>4. list' \subseteq list /\ list' \subseteq live' /\ live' \subseteq Rec
    BY <2>1 DEF Cleanup, Drop, TypeOK
  <2>5. TypeOK'  BY <2>2, <2>3, <2>4 DEF TypeOK, PortType
  <2>6. Ports'  BY <2>2, <2>3 DEF Ports
  <2>7. port.proto = "none" /\ \A r \in list : ~Current(r)
    BY <2>3 DEF Ports, Current
  <2>8. \A r \in list' : ~rec[r].dead => proto = "ps2"
    BY <2>1, <2>3, <2>7 DEF Cleanup, Drop, Records, Waiting
  <2>9. Records'
    BY <2>2, <2>3, <2>4, <2>7, <2>8 DEF Records, Current, Waiting
  <2>. QED  BY <2>5, <2>6, <2>9
<1>9. CASE Plain
  <2>1. port' \in PortType  BY <1>9, <1>t DEF Plain, PortType, TypeOK
  <2>2. TypeOK'  BY <1>9, <1>t, <2>1 DEF Plain, TypeOK, PortType, RecType
  <2>3. Ports'
    BY <1>9, <1>t DEF Plain, TypeOK, PortType, RecType, Ports, Records, Current, Waiting
  <2>4. Records'
    BY <1>9, <1>t DEF Plain, TypeOK, PortType, RecType, Ports, Records, Current, Waiting
  <2>. QED  BY <2>2, <2>3, <2>4
<1>10. CASE Rescan
  <2>1. CASE port.pc = "idle"
    <3>1. port' = [port EXCEPT !.pc = "leave", !.next = "auto"]  BY <1>10, <2>1 DEF Rescan
    <3>2. port' \in PortType /\ port'.pc = "leave" /\ port'.ps = port.ps
          /\ port'.proto = port.proto /\ port'.priv = port.priv
      BY <1>t, <3>1 DEF PortType
    <3>. QED
      BY <1>10, <2>1, <3>2 DEF Rescan, TypeOK, PortType, Ports, Records, Current, Waiting
  <2>2. CASE port.pc = "off"
    <3>1. port' = [port EXCEPT !.next = "auto"]  BY <1>10, <2>2 DEF Rescan
    <3>2. port' \in PortType /\ port'.pc = "off" /\ port'.ps = port.ps
          /\ port'.proto = port.proto /\ port'.priv = port.priv
      BY <1>t, <2>2, <3>1 DEF PortType
    <3>. QED
      BY <1>10, <2>2, <3>2 DEF Rescan, TypeOK, PortType, Ports, Records, Current, Waiting
  <2>. QED  BY <1>10, <2>1, <2>2 DEF Rescan
<1>11. CASE SmbusDisconnect
  <2>1. port' \in PortType  BY <1>11, <1>t DEF SmbusDisconnect, PortType, TypeOK
  <2>2. TypeOK'
    <3>1. port.priv \in list /\ rec[port.priv].client # NoOne /\ port.priv \in Rec
      BY <1>11 DEF SmbusDisconnect, Ports, TypeOK
    <3>2. rec' \in [Rec -> RecType]
      <4>1. [rec[port.priv] EXCEPT !.dead = TRUE] \in RecType  BY <1>t, <3>1 DEF RecType
      <4>2. rec' = rec \/ rec' = [rec EXCEPT ![port.priv] = [rec[port.priv] EXCEPT !.dead = TRUE]]
        BY <1>11 DEF SmbusDisconnect
      <4>. QED  BY <1>t, <4>1, <4>2
    <3>3. jobs' \subseteq Client /\ past' \in [Events -> Nat]
      BY <1>11, <1>t, <3>1, Spent DEF SmbusDisconnect, RecType, TypeOK, Events
    <3>4. list' \subseteq live' /\ live' \subseteq Rec
      BY <1>11 DEF SmbusDisconnect, Drop, TypeOK
    <3>. QED
      BY <1>11, <2>1, <3>2, <3>3, <3>4 DEF SmbusDisconnect, TypeOK, PortType, RecType
  <2>3. Ports'
    BY <1>11, <1>t DEF SmbusDisconnect, Cleanup, Drop, TypeOK, PortType, RecType, Ports, Records,
       Current, Waiting
  <2>4. Records'
    BY <1>11, <1>t DEF SmbusDisconnect, Cleanup, Drop, TypeOK, PortType, RecType, Ports, Records,
       Current, Waiting
  <2>. QED  BY <2>2, <2>3, <2>4
<1>12. CASE Ps2Disconnect
  <2>1. port' \in PortType  BY <1>12, <1>t DEF Ps2Disconnect, PortType, TypeOK
  <2>2. TypeOK'  BY <1>12, <1>t, <2>1 DEF Ps2Disconnect, Cleanup, Drop, TypeOK, PortType, RecType
  <2>3. Ports'
    BY <1>12, <1>t DEF Ps2Disconnect, Cleanup, Drop, TypeOK, PortType, RecType, Ports, Records,
       Current, Waiting
  <2>4. Records'
    BY <1>12, <1>t DEF Ps2Disconnect, Cleanup, Drop, TypeOK, PortType, RecType, Ports, Records,
       Current, Waiting
  <2>. QED  BY <2>2, <2>3, <2>4
<1>13. CASE FreePsmouse
  <2>1. port' \in PortType  BY <1>13, <1>t DEF FreePsmouse, PortType, TypeOK
  <2>2. TypeOK'  BY <1>13, <1>t, <2>1 DEF FreePsmouse, TypeOK, PortType, RecType
  <2>3. Ports'
    BY <1>13, <1>t DEF FreePsmouse, TypeOK, PortType, RecType, Ports, Records, Current, Waiting
  <2>4. Records'
    BY <1>13, <1>t DEF FreePsmouse, TypeOK, PortType, RecType, Ports, Records, Current, Waiting
  <2>. QED  BY <2>2, <2>3, <2>4
<1>14. CASE Unbind
  <2>1. port' \in PortType  BY <1>14, <1>t DEF Unbind, PortType, TypeOK
  <2>2. TypeOK'  BY <1>14, <1>t, <2>1, Spent DEF Unbind, TypeOK, PortType, RecType, Events
  <2>3. Ports'
    BY <1>14, <1>t DEF Unbind, TypeOK, PortType, RecType, Ports, Records, Current, Waiting
  <2>4. Records'
    BY <1>14, <1>t DEF Unbind, TypeOK, PortType, RecType, Ports, Records, Current, Waiting
  <2>. QED  BY <2>2, <2>3, <2>4
<1>15. CASE Bind
  <2>1. port' \in PortType  BY <1>15, <1>t DEF Bind, PortType, TypeOK
  <2>2. TypeOK'  BY <1>15, <1>t, <2>1, Spent DEF Bind, TypeOK, PortType, RecType, Events
  <2>3. Ports'
    BY <1>15, <1>t DEF Bind, TypeOK, PortType, RecType, Ports, Records, Current, Waiting
  <2>4. Records'
    BY <1>15, <1>t DEF Bind, TypeOK, PortType, RecType, Ports, Records, Current, Waiting
  <2>. QED  BY <2>2, <2>3, <2>4
<1>16. CASE SwitchProtocol
  <2>1. port' \in PortType  BY <1>16, <1>t DEF SwitchProtocol, PortType, TypeOK
  <2>2. TypeOK'  BY <1>16, <1>t, <2>1, Spent DEF SwitchProtocol, TypeOK, PortType, RecType, Events
  <2>3. Ports'
    BY <1>16, <1>t DEF SwitchProtocol, TypeOK, PortType, RecType, Ports, Records, Current, Waiting
  <2>4. Records'
    BY <1>16, <1>t DEF SwitchProtocol, TypeOK, PortType, RecType, Ports, Records, Current, Waiting
  <2>. QED  BY <2>2, <2>3, <2>4
<1>. QED  BY <1>1, <1>2, <1>3, <1>4, <1>5, <1>6, <1>7, <1>8, <1>9, <1>10, <1>11, <1>12, <1>13,
             <1>14, <1>15, <1>16 DEF Port

\* The end of a client marks the record it belongs to, or frees it.
LEMMA Destroyed ==
  ASSUME Base, NEW c \in Client, client[c] # NoOne, Destroy(c)
  PROVE  /\ rec' \in [Rec -> RecType]
         /\ \A r \in Rec : rec'[r].ps = rec[r].ps /\ rec'[r].client = rec[r].client
                           /\ (rec[r].dead => rec'[r].dead)
         /\ list' \subseteq live' /\ live' \subseteq live
         /\ \A r \in list : rec[r].client # c => r \in list' /\ rec'[r] = rec[r]
         /\ \A r \in list' : rec[r].client = c => Current(r) /\ ~rec[r].dead /\ rec'[r].dead
         /\ \A r \in list : Current(r) => r \in list'
         /\ list' \subseteq list
         /\ client' \in [Client -> Adapter \cup {NoOne}] /\ client'[c] = NoOne
         /\ \A d \in Client \ {c} : client'[d] = client[d]
<1>. DEFINE mine == {r \in list : rec[r].client = c}
<1>1. /\ rec' = [r \in Rec |-> IF r \in mine THEN [rec[r] EXCEPT !.dead = TRUE] ELSE rec[r]]
      /\ live' = live \ {r \in mine : rec[r].dead} /\ list' = list \ {r \in mine : rec[r].dead}
      /\ client' = [client EXCEPT ![c] = NoOne]
  BY DEF Destroy, Detach, Drop
<1>2. rec \in [Rec -> RecType] /\ list \subseteq live /\ live \subseteq Rec
      /\ client \in [Client -> Adapter \cup {NoOne}]
  BY DEF Base, TypeOK, RecType
<1>3. \A r \in Rec : [rec[r] EXCEPT !.dead = TRUE] \in RecType
  BY <1>2 DEF RecType
<1>4. rec' \in [Rec -> RecType]  BY <1>1, <1>2, <1>3
<1>5. \A r \in Rec : rec'[r].ps = rec[r].ps /\ rec'[r].client = rec[r].client
                     /\ (rec[r].dead => rec'[r].dead) /\ (r \in mine => rec'[r].dead)
                     /\ (r \notin mine => rec'[r] = rec[r])
  BY <1>1, <1>2 DEF RecType
<1>6. \A r \in mine : ~rec[r].dead => Current(r)
  BY NoOneAssumption DEF Base, Records, Waiting
<1>7. \A r \in mine : Current(r) => ~rec[r].dead
  BY DEF Base, Records
<1>. HIDE DEF mine
<1>8. \A r \in list : r \in mine <=> rec[r].client = c  BY DEF mine
<1>9. mine \subseteq list  BY DEF mine
<1>. QED  BY <1>1, <1>2, <1>4, <1>5, <1>6, <1>7, <1>8, <1>9

\* The bus, its notifier and the work keep it.
LEMMA BusBase ==
  ASSUME Base, Bus \/ RunJob \/ AddAdapter \/ StartRemove
  PROVE  Base'
<1>. USE NoOneAssumption, BudgetAssumption DEF Base, i2c, Walking
<1>t. port \in PortType /\ rec \in [Rec -> RecType]  BY DEF TypeOK, PortType, RecType
<1>d. ASSUME NEW c \in Client, client[c] # NoOne, Destroy(c), leaving' = leaving, tried' = tried,
             past' = past, jobs' \subseteq jobs,
             port.pc = "assign" => port.client # c
      PROVE  Base'
  <2>1. UNCHANGED <<alive, port, bus, adding, leaving, tried, past>>
    BY <1>d DEF Destroy
  <2>2. pdata' = pdata \ {c} /\ leaked' \in BOOLEAN /\ rescan' \in BOOLEAN
    BY <1>d DEF Destroy, Detach, TypeOK
  <2>3. TypeOK'
    BY <1>d, <1>t, <2>1, <2>2, Destroyed DEF TypeOK, PortType, RecType
  <2>4. Current(port.priv) => port.priv \in list /\ port.priv \in Rec
    BY DEF Current, Ports, TypeOK
  <2>5. Walking => port.priv \in list' /\ rec'[port.priv] = rec[port.priv]
    BY <1>d, Destroyed DEF Ports, TypeOK
  <2>6. port.proto = "smbus" => port.priv \in list' /\ rec'[port.priv].ps = rec[port.priv].ps
                                /\ rec'[port.priv].client = rec[port.priv].client
    BY <1>d, <2>4, Destroyed DEF Ports, TypeOK, Current
  <2>7. port.pc = "assign" => client'[port.client] = client[port.client]
    BY <1>d, <1>t, Destroyed DEF Ports, PortType
  <2>8. Ports'  BY <1>d, <2>1, <2>5, <2>6, <2>7 DEF Ports
  <2>9. ASSUME NEW r \in list'
        PROVE  /\ ~rec'[r].dead => rec'[r].ps = port.ps /\ (Current(r) \/ Waiting(r)')
               /\ rec'[r].dead => rec'[r].client # NoOne
               /\ ~rec'[r].dead /\ rec'[r].client # NoOne => client'[rec'[r].client] # NoOne
               /\ rec'[r].dead => (client'[rec'[r].client] = NoOne <=> Current(r))
    <3>1. r \in list /\ r \in Rec  BY <1>d, Destroyed DEF TypeOK
    <3>2. CASE rec[r].client = c
      <4>1. Current(r) /\ rec'[r].dead /\ rec'[r].client = c /\ client'[c] = NoOne
        BY <1>d, <3>1, <3>2, Destroyed
      <4>. QED  BY <4>1
    <3>3. CASE rec[r].client # c
      <4>1. rec'[r] = rec[r]  BY <1>d, <3>1, <3>3, Destroyed
      <4>2. rec[r].client # NoOne => client'[rec[r].client] = client[rec[r].client]
        BY <1>d, <1>t, <3>1, <3>3, Destroyed DEF RecType
      <4>. QED  BY <2>1, <3>1, <4>1, <4>2 DEF Records, Waiting
    <3>. QED  BY <3>2, <3>3
  <2>10. \A r : Current(r)' <=> Current(r)  BY <2>1 DEF Current
  <2>11. Records'  BY <2>1, <2>9, <2>10 DEF Records
  <2>. QED  BY <2>3, <2>8, <2>11
<1>1. CASE CheckAdapter
  <2>1. TypeOK'  BY <1>1 DEF CheckAdapter, TypeOK
  <2>. QED  BY <1>1, <2>1 DEF CheckAdapter, Ports, Records, Current, Waiting
<1>2. CASE RemoveClient
  <2>1. PICK c \in Client : client[c] \in leaving /\ Destroy(c)  BY <1>2 DEF RemoveClient
  <2>2. client[c] # NoOne  BY <2>1 DEF TypeOK
  <2>3. port.pc = "assign" => port.client # c  BY <2>1 DEF Ports
  <2>4. UNCHANGED <<jobs, leaving, tried, past>>  BY <1>2 DEF RemoveClient
  <2>. QED  BY <1>d, <2>1, <2>2, <2>3, <2>4
<1>3. CASE EndRemove
  <2>1. TypeOK'  BY <1>3 DEF EndRemove, TypeOK, Ports
  <2>2. Ports'
    <3>1. PICK a \in leaving :
            (\A c \in Client : client[c] # a) /\ bus' = bus \ {a} /\ leaving' = leaving \ {a}
      BY <1>3 DEF EndRemove
    <3>. QED  BY <1>3, <3>1 DEF EndRemove, Ports, TypeOK
  <2>3. Records'  BY <1>3 DEF EndRemove, Records, Current, Waiting
  <2>. QED  BY <2>1, <2>2, <2>3
<1>4. CASE RunJob
  <2>1. PICK c \in jobs :
          /\ jobs' = jobs \ {c}
          /\ IF client[c] # NoOne THEN Destroy(c)
             ELSE UNCHANGED <<rec, live, list, alive, port, client, pdata, leaked, bus, adding,
               rescan, tried>>
          /\ UNCHANGED <<leaving, tried, past>>
    BY <1>4 DEF RunJob
  <2>2. c \in Client /\ (port.pc = "assign" => port.client # c)
    BY DEF TypeOK, Ports
  <2>3. CASE client[c] # NoOne  BY <1>d, <2>1, <2>2, <2>3
  <2>4. CASE client[c] = NoOne
    <3>1. TypeOK'  BY <2>1, <2>4 DEF TypeOK
    <3>. QED  BY <2>1, <2>4, <3>1 DEF Ports, Records, Current, Waiting
  <2>. QED  BY <2>3, <2>4
<1>5. CASE AddAdapter
  <2>1. TypeOK'  BY <1>5, Spent DEF AddAdapter, TypeOK, Events
  <2>. QED  BY <1>5, <2>1 DEF AddAdapter, Ports, Records, Current, Waiting, TypeOK
<1>6. CASE StartRemove
  <2>1. TypeOK'  BY <1>6, Spent DEF StartRemove, TypeOK, Events
  <2>. QED  BY <1>6, <2>1 DEF StartRemove, Ports, Records, Current, Waiting, TypeOK
<1>. QED  BY <1>1, <1>2, <1>3, <1>4, <1>5, <1>6 DEF Bus

LEMMA InitBase == Init => Base
<1>. SUFFICES ASSUME Init  PROVE Base
  OBVIOUS
<1>1. NoPort \in PortType /\ NoPort.pc = "off" /\ NoPort.proto = "none"
  BY DEF NoPort, PortType
<1>2. port \in PortType /\ port.pc = "off" /\ port.proto = "none"
  BY <1>1 DEF Init, PortType
<1>3. rec \in [Rec -> RecType]  BY DEF Init, NoRecord, RecType
<1>4. TypeOK  BY <1>2, <1>3 DEF Init, TypeOK, PortType, RecType, Events
<1>. QED  BY <1>2, <1>4 DEF Init, Base, Ports, Records, Walking

LEMMA BaseStep == Base /\ [Next]_vars => Base'
<1>. SUFFICES ASSUME Base, [Next]_vars  PROVE Base'
  OBVIOUS
<1>1. CASE UNCHANGED vars
  BY <1>1 DEF vars, i2c, Base, TypeOK, Ports, Records, Walking, Current, Waiting
<1>. QED  BY <1>1, PortBase, BusBase DEF Next

\* In every reachable state the variables keep to their types, a port's pointer and
\* the list lead to records that are live, and the step of each thread says which
\* record it holds: the invariant the theorems below rest on.
THEOREM SmbusBase == Spec => []Base
<1>. QED  BY InitBase, BaseStep, PTL DEF Spec

\* The variables keep to their types: records, clients and adapters are only ever
\* those that exist, at every step of connect, disconnect and the notifier.
THEOREM SmbusTypes == Spec => []TypeOK
<1>1. Base => TypeOK  BY DEF Base
<1>. QED  BY <1>1, SmbusBase, PTL

\* The record that a port will use is there and its own, and no record that is
\* not dead outlives its psmouse.
THEOREM SmbusRecordsValid == Spec => []RecordsValid
<1>1. Base => RecordsValid
  BY DEF Base, TypeOK, Ports, Records, RecordsValid, Walking, Current, Waiting
<1>. QED  BY <1>1, SmbusBase, PTL

-----------------------------------------------------------------------------
(* Where the clients and the adapters are. *)

Kept(c) ==
  \/ c \in jobs
  \/ port.pc = "assign" /\ port.client = c
  \/ port.proto = "smbus" /\ ~rec[port.priv].dead /\ rec[port.priv].client = c

LEMMA ClientsStep ==
  ASSUME Base, Clients, [Next]_vars
  PROVE  Clients'
<1>. SUFFICES ASSUME past'["alloc"] = 0, NEW c \in Client, client'[c] # NoOne
              PROVE  Kept(c)'
  BY DEF Clients, Kept
<1>. USE NoOneAssumption DEF Base, i2c, Goes, Leave, Left, Walking
<1>t. port \in PortType /\ rec \in [Rec -> RecType]  BY DEF TypeOK, PortType, RecType
<1>k. ASSUME past["alloc"] = 0, client[c] # NoOne
      PROVE  Kept(c)
  BY <1>k DEF Clients, Kept
<1>s. ASSUME NEW e \in Events \ {"alloc"}, Spend(e)
      PROVE  past["alloc"] = 0
  BY <1>s, Spent DEF TypeOK, Events
<1>d. ASSUME NEW d \in Client, client[d] # NoOne, Destroy(d), past' = past,
        jobs \subseteq jobs' \cup {d}
      PROVE  Kept(c)'
  <2>1. c # d /\ client[c] # NoOne  BY <1>d, Destroyed
  <2>2. Kept(c) /\ port' = port  BY <1>d, <1>k, <2>1 DEF Destroy
  <2>3. port.proto = "smbus" => port.priv \in list  BY DEF Ports
  <2>4. port.proto = "smbus" /\ rec[port.priv].client = c => rec'[port.priv] = rec[port.priv]
    BY <1>d, <2>1, <2>3, Destroyed
  <2>. QED  BY <1>d, <2>1, <2>2, <2>4 DEF Kept
<1>1. CASE Connect
  BY <1>1, <1>t, <1>k DEF Connect, TypeOK, PortType, RecType, Ports, Kept
<1>2. CASE Choose
  BY <1>2, <1>t, <1>k DEF Choose, TypeOK, PortType, RecType, Ports, Kept
<1>3. CASE SmbusInit
  BY <1>3, <1>t, <1>k DEF SmbusInit, TypeOK, PortType, RecType, Ports, Kept
<1>4. CASE WalkMiss
  BY <1>4, <1>t, <1>k DEF WalkMiss, TypeOK, PortType, RecType, Ports, Kept
<1>5. CASE WalkHit
  BY <1>5, <1>t, <1>k DEF WalkHit, TypeOK, PortType, RecType, Ports, Kept
<1>6. CASE Assign
  BY <1>6, <1>t, <1>k DEF Assign, TypeOK, PortType, RecType, Ports, Kept
<1>7. CASE NoCompanion
  BY <1>7, <1>t, <1>k DEF NoCompanion, Cleanup, Drop, TypeOK, PortType, RecType, Ports, Kept
<1>8. CASE SetupPs2
  BY <1>8, <1>t, <1>k DEF SetupPs2, Cleanup, Drop, TypeOK, PortType, RecType, Ports, Kept
<1>9. CASE Plain
  BY <1>9, <1>t, <1>k DEF Plain, TypeOK, PortType, RecType, Ports, Kept
<1>10. CASE Rescan
  BY <1>10, <1>t, <1>k DEF Rescan, TypeOK, PortType, RecType, Ports, Kept
<1>11. CASE SmbusDisconnect
  <2>1. past["alloc"] = 0 /\ past' = past
    <3>1. past' = past \/ Spend("alloc")  BY <1>11 DEF SmbusDisconnect
    <3>2. ASSUME Spend("alloc")  PROVE FALSE  BY <3>2, Spent DEF TypeOK, Events
    <3>. QED  BY <3>1, <3>2
  <2>2. client[c] # NoOne /\ port.pc = "leave"  BY <1>11 DEF SmbusDisconnect
  <2>3. ~Spend("alloc")  BY <2>1, Spent DEF TypeOK, Events
  <2>4. Kept(c)  BY <1>k, <2>1, <2>2
  <2>5. CASE rec[port.priv].dead
    BY <1>11, <2>2, <2>4, <2>5 DEF SmbusDisconnect, Kept
  <2>6. CASE ~rec[port.priv].dead
    BY <1>11, <2>2, <2>3, <2>4, <2>6 DEF SmbusDisconnect, Kept
  <2>. QED  BY <2>5, <2>6
<1>12. CASE Ps2Disconnect
  BY <1>12, <1>t, <1>k DEF Ps2Disconnect, Cleanup, Drop, TypeOK, PortType, RecType, Ports, Kept
<1>13. CASE FreePsmouse
  BY <1>13, <1>t, <1>k DEF FreePsmouse, TypeOK, PortType, RecType, Ports, Kept
<1>14. CASE Unbind
  BY <1>14, <1>t, <1>k, <1>s DEF Unbind, TypeOK, PortType, RecType, Ports, Kept, Events
<1>15. CASE Bind
  BY <1>15, <1>t, <1>k, <1>s DEF Bind, TypeOK, PortType, RecType, Ports, Kept, Events
<1>16. CASE SwitchProtocol
  BY <1>16, <1>t, <1>k, <1>s DEF SwitchProtocol, TypeOK, PortType, RecType, Ports, Kept, Events
<1>17. CASE AddAdapter
  BY <1>17, <1>t, <1>k, <1>s DEF AddAdapter, TypeOK, PortType, RecType, Ports, Kept, Events
<1>18. CASE StartRemove
  BY <1>18, <1>t, <1>k, <1>s DEF StartRemove, TypeOK, PortType, RecType, Ports, Kept, Events
<1>19. CASE CheckAdapter
  BY <1>19, <1>t, <1>k DEF CheckAdapter, TypeOK, PortType, RecType, Ports, Kept
<1>20. CASE EndRemove
  BY <1>20, <1>t, <1>k DEF EndRemove, TypeOK, PortType, RecType, Ports, Kept
<1>21. CASE RemoveClient
  <2>1. PICK d \in Client : client[d] \in leaving /\ Destroy(d)  BY <1>21 DEF RemoveClient
  <2>2. client[d] # NoOne  BY <2>1 DEF TypeOK
  <2>. QED  BY <1>d, <1>21, <2>1, <2>2 DEF RemoveClient
<1>22. CASE RunJob
  <2>1. PICK d \in jobs :
          /\ jobs' = jobs \ {d}
          /\ IF client[d] # NoOne THEN Destroy(d)
             ELSE UNCHANGED <<rec, live, list, alive, port, client, pdata, leaked, bus, adding,
               rescan, tried>>
          /\ UNCHANGED <<leaving, tried, past>>
    BY <1>22 DEF RunJob
  <2>2. CASE client[d] # NoOne  BY <1>d, <2>1, <2>2 DEF TypeOK
  <2>3. CASE client[d] = NoOne  BY <1>k, <2>1, <2>3 DEF Kept
  <2>. QED  BY <2>2, <2>3
<1>23. CASE UNCHANGED vars
  BY <1>23, <1>k DEF vars, Kept
<1>. QED  BY <1>1, <1>2, <1>3, <1>4, <1>5, <1>6, <1>7, <1>8, <1>9, <1>10, <1>11, <1>12, <1>13,
             <1>14, <1>15, <1>16, <1>17, <1>18, <1>19, <1>20, <1>21, <1>22, <1>23 DEF Next, Port,
             Bus

\* A client whose record is dead by a disconnect is on its way out.
THEOREM SmbusExclusive == Spec => []Exclusive
<1>1. Init => Clients  BY DEF Init, Clients
<1>2. Base /\ Clients => Exclusive
  BY DEF Base, Clients, Exclusive
<1>. QED  BY <1>1, <1>2, ClientsStep, SmbusBase, PTL DEF Spec

Sought(r, a) ==
  a \in tried[r] \/ a \in adding \/ rescan \/ (port.pc = "walk" /\ a \in port.todo)

LEMMA AdaptersStep ==
  ASSUME Base, Adapters, [Next]_vars
  PROVE  Adapters'
<1>. SUFFICES ASSUME port'.pc \in {"walk", "ps2", "idle"}, NEW r \in list', Crumb(r)',
                     NEW a \in bus' \ leaving'
              PROVE  Sought(r, a)'
  BY DEF Adapters, Sought
<1>. USE NoOneAssumption DEF Base, i2c, Goes, Leave, Left, Walking, Crumb
<1>t. port \in PortType /\ rec \in [Rec -> RecType]  BY DEF TypeOK, PortType, RecType
<1>k. ASSUME port.pc \in {"walk", "ps2", "idle"}, r \in list, ~rec[r].dead, rec[r].client = NoOne,
             a \in bus \ leaving
      PROVE  Sought(r, a)
  BY <1>k DEF Adapters, Sought
<1>d. ASSUME NEW d \in Client, client[d] # NoOne, Destroy(d), leaving' = leaving
      PROVE  Sought(r, a)'
  <2>1. r \in list /\ rec'[r].client = rec[r].client /\ (rec[r].dead => rec'[r].dead)
    BY <1>d, Destroyed DEF TypeOK
  <2>2. UNCHANGED <<port, bus, adding, tried>> /\ (rescan => rescan')
    BY <1>d DEF Destroy, Detach
  <2>. QED  BY <1>d, <1>k, <2>1, <2>2 DEF Sought
<1>1. CASE Connect
  BY <1>1, <1>t, <1>k DEF Connect, TypeOK, PortType, RecType, Ports, Records, Current, Waiting,
     Sought
<1>2. CASE Choose
  BY <1>2, <1>t, <1>k DEF Choose, TypeOK, PortType, RecType, Ports, Records, Current, Waiting,
     Sought
<1>3. CASE SmbusInit
  BY <1>3, <1>t, <1>k DEF SmbusInit, TypeOK, PortType, RecType, Ports, Records, Current, Waiting,
     Sought
<1>4. CASE WalkMiss
  BY <1>4, <1>t, <1>k DEF WalkMiss, TypeOK, PortType, RecType, Ports, Records, Current, Waiting,
     Sought
<1>5. CASE WalkHit
  BY <1>5, <1>t, <1>k DEF WalkHit, TypeOK, PortType, RecType, Ports, Records, Current, Waiting,
     Sought
<1>6. CASE Assign
  BY <1>6, <1>t, <1>k DEF Assign, TypeOK, PortType, RecType, Ports, Records, Current, Waiting,
     Sought
<1>7. CASE NoCompanion
  BY <1>7, <1>t, <1>k DEF NoCompanion, Cleanup, Drop, TypeOK, PortType, RecType, Ports, Records,
     Current, Waiting, Sought
<1>8. CASE SetupPs2
  BY <1>8, <1>t, <1>k DEF SetupPs2, Cleanup, Drop, TypeOK, PortType, RecType, Ports, Records,
     Current, Waiting, Sought
<1>9. CASE Plain
  BY <1>9, <1>t, <1>k DEF Plain, TypeOK, PortType, RecType, Ports, Records, Current, Waiting,
     Sought
<1>10. CASE Rescan
  <2>1. port'.pc \in {"leave", "off"}  BY <1>10, <1>t DEF Rescan, PortType
  <2>. QED  BY <2>1
<1>11. CASE SmbusDisconnect
  BY <1>11, <1>t, <1>k DEF SmbusDisconnect, Cleanup, Drop, TypeOK, PortType, RecType, Ports,
     Records, Current, Waiting, Sought
<1>12. CASE Ps2Disconnect
  BY <1>12, <1>t, <1>k DEF Ps2Disconnect, Cleanup, Drop, TypeOK, PortType, RecType, Ports,
     Records, Current, Waiting, Sought
<1>13. CASE FreePsmouse
  BY <1>13, <1>t, <1>k DEF FreePsmouse, TypeOK, PortType, RecType, Ports, Records, Current,
     Waiting, Sought
<1>14. CASE Unbind
  BY <1>14, <1>t, <1>k DEF Unbind, TypeOK, PortType, RecType, Ports, Records, Current, Waiting,
     Sought
<1>15. CASE Bind
  BY <1>15, <1>t, <1>k DEF Bind, TypeOK, PortType, RecType, Ports, Records, Current, Waiting,
     Sought
<1>16. CASE SwitchProtocol
  BY <1>16, <1>t, <1>k DEF SwitchProtocol, TypeOK, PortType, RecType, Ports, Records, Current,
     Waiting, Sought
<1>17. CASE AddAdapter
  BY <1>17, <1>t, <1>k DEF AddAdapter, TypeOK, PortType, RecType, Ports, Records, Current,
     Waiting, Sought
<1>18. CASE StartRemove
  BY <1>18, <1>t, <1>k DEF StartRemove, TypeOK, PortType, RecType, Ports, Records, Current,
     Waiting, Sought
<1>19. CASE CheckAdapter
  BY <1>19, <1>t, <1>k DEF CheckAdapter, TypeOK, PortType, RecType, Ports, Records, Current,
     Waiting, Sought
<1>20. CASE EndRemove
  BY <1>20, <1>t, <1>k DEF EndRemove, TypeOK, PortType, RecType, Ports, Records, Current,
     Waiting, Sought
<1>21. CASE RemoveClient
  <2>1. PICK d \in Client : client[d] \in leaving /\ Destroy(d)  BY <1>21 DEF RemoveClient
  <2>2. client[d] # NoOne  BY <2>1 DEF TypeOK
  <2>. QED  BY <1>d, <1>21, <2>1, <2>2 DEF RemoveClient
<1>22. CASE RunJob
  <2>1. PICK d \in jobs :
          /\ jobs' = jobs \ {d}
          /\ IF client[d] # NoOne THEN Destroy(d)
             ELSE UNCHANGED <<rec, live, list, alive, port, client, pdata, leaked, bus, adding,
               rescan, tried>>
          /\ UNCHANGED <<leaving, tried, past>>
    BY <1>22 DEF RunJob
  <2>2. CASE client[d] # NoOne  BY <1>d, <2>1, <2>2 DEF TypeOK
  <2>3. CASE client[d] = NoOne  BY <1>k, <2>1, <2>3 DEF Sought
  <2>. QED  BY <2>2, <2>3
<1>23. CASE UNCHANGED vars
  BY <1>23, <1>k DEF vars, Sought
<1>. QED  BY <1>1, <1>2, <1>3, <1>4, <1>5, <1>6, <1>7, <1>8, <1>9, <1>10, <1>11, <1>12, <1>13,
             <1>14, <1>15, <1>16, <1>17, <1>18, <1>19, <1>20, <1>21, <1>22, <1>23 DEF Next, Port,
             Bus

\* An adapter that appears while a port waits with a breadcrumb makes it look
\* again.
THEOREM SmbusNoAdapterMissed == Spec => []NoAdapterMissed
<1>1. Init => Adapters  BY DEF Init, Adapters
<1>2. Base /\ Adapters => NoAdapterMissed
  BY DEF Base, Adapters, NoAdapterMissed
<1>. QED  BY <1>1, <1>2, AdaptersStep, SmbusBase, PTL DEF Spec
=============================================================================
