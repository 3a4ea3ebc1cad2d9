---------------------------- MODULE RmiCoreProofs ----------------------------
(***************************************************************************)
(* Proofs about RmiCore, for any order of the functions, any mask that a   *)
(* reset leaves and any failures, resets, sleeps and removals, of a device *)
(* that has no events while the driver probes.                             *)
(*                                                                         *)
(* Places says where the three contexts can be, and what each of them has  *)
(* there; Probing that nothing is noticed before the probe is over;        *)
(* Handed that what was read from the status register is on its way to its *)
(* function.  Masks, on top of them, relates the mask of the device, the   *)
(* driver's copy of it and the functions that the driver listens to, while *)
(* they are changed one bit at a time.                                     *)
(***************************************************************************)
EXTENDS RmiCore, TLAPS

Label == {"idle", "request", "config", "lock", "write", "store", "changed", "mask", "keep",
  "status",
          "and", "nested", "quit", "disable", "sync", "free", "enable", "wake"}
CtxType == [at : Label, op : {"set", "clear"}, bit : Fns, new : SUBSET Fns, fns : Seq(Fns),
            pos : Nat, failed : BOOLEAN]
DevType == [mask : SUBSET Fns, status : SUBSET Fns, mode : {"normal", "sleep"}, unconf : BOOLEAN]

Types ==
  /\ dev \in DevType /\ ctx \in [Contexts -> CtxType]
  /\ attn \in BOOLEAN /\ irq \in {"none", "on", "off"}
  /\ current \subseteq Fns /\ listen \subseteq {"f03", "f12"} /\ buffer \subseteq Fns
       /\ due \subseteq Fns
  /\ ctrl0 \in {"normal", "sleep"} /\ port \in {"none", "closed", "open"}
  /\ life \in {"off", "probing", "up", "suspending", "aborting", "asleep", "resuming", "removing"}
  /\ holder \in Contexts \cup {"none"} /\ sound \in BOOLEAN /\ past \in [Events -> Nat]
  /\ \A c \in Contexts : ctx[c].at \in {"write", "store"} <=> holder = c

Changing == {"lock", "write", "store", "changed"}

\* What the driver core does with the device, and where M is then
Lives ==
  /\ life \in {"off", "up", "asleep"} => ctx["M"].at = "idle"
  /\ life = "probing" => ctx["M"].at \in Changing \cup {"request", "config", "status", "and",
       "nested", "quit"}
  /\ life \in {"suspending", "aborting"} => ctx["M"].at \in {"disable", "sync"}
  /\ life = "resuming" => ctx["M"].at \in Changing \cup {"mask", "keep", "config", "enable",
       "wake"}
  /\ life = "removing" => ctx["M"].at \in Changing \cup {"disable", "sync", "free"}
  /\ life = "off" => port = "none" /\ irq = "none" /\ listen = {} /\ due = {} /\ buffer = {}
                     /\ ctx["I"].at = "idle"
  /\ ctx["M"].at = "sync" => irq = "off"
  /\ life = "removing" /\ ctx["M"].at \notin {"disable", "sync"} => irq = "off"
       /\ ctx["I"].at = "idle"
  /\ life = "removing" /\ ctx["M"].at \in Changing =>
       port = "none" /\ ctx["M"].fns = <<>> /\ ctx["S"].at = "idle"
       /\ (ctx["M"].at # "changed" => ctx["M"].bit = "f03" /\ ctx["M"].op = "clear")

\* The other contexts, and a pass over the functions
Places ==
  /\ ctx["I"].at \in {"idle", "status", "and", "nested"}
  /\ ctx["S"].at \in Changing \cup {"idle"}
  /\ ctx["S"].at # "idle" =>
       ctx["S"].bit = "f03" /\ port = IF ctx["S"].op = "set" THEN "closed" ELSE "open"
  /\ life # "removing" /\ ctx["M"].at \in Changing =>
       ctx["M"].fns # <<>> /\ ctx["M"].bit = Head(ctx["M"].fns) /\ ctx["M"].op = "set"
       /\ ctx["M"].bit \in {"f03", "f12"} /\ (ctx["M"].bit = "f03" => port # "none")

Left(s) == {s[i] : i \in 1 .. Len(s)}
Probing ==
  /\ life = "probing" =>
       /\ dev.status = {} /\ due = {} /\ buffer = {} /\ ctx["I"].at = "idle" /\ ctrl0 = "normal"
       /\ IF ctx["M"].at = "request" THEN irq = "none" ELSE irq = "on" /\ ~attn
  /\ life \in {"off", "removing"} \/ port # "none" \/ ctx["M"].at \in {"request", "quit"}
     \/ (life = "probing" /\ ctx["M"].at \in Changing \cup {"config"}
       /\ "f03" \in Left(ctx["M"].fns))

Handed ==
  /\ ctx["I"].at \in {"idle", "status"} => due = {}
  /\ ctx["I"].at = "and" => due \subseteq buffer
  /\ ctx["I"].at = "nested" =>
       due \subseteq buffer /\ "f01" \notin buffer
       /\ due \subseteq {Order[i] : i \in ctx["I"].pos .. Len(Order)}

\* What M will still have set for the function f, in a probe or a resume
Todo(f) ==
  /\ life \in {"probing", "resuming"}
  /\ \/ ctx["M"].at \in {"request", "mask", "keep"}
     \/ ctx["M"].at \in {"config", "lock", "write"} /\ f \in Left(ctx["M"].fns)
     \/ ctx["M"].at \in {"store", "changed"} /\ f \in Left(Tail(ctx["M"].fns))
Stale == life = "resuming" /\ Todo("f12") /\ Todo("f03")

Changed(c) == IF ctx[c].op = "set" THEN current \cup {ctx[c].bit} ELSE current \ {ctx[c].bit}
Pending ==
  /\ ctx["M"].at \in {"write", "store"} =>
       (ctx["M"].op = "set" <=> ctx["M"].bit \in ctx["M"].new)
  /\ ctx["S"].at \in {"write", "store"} =>
       (ctx["S"].op = "set" <=> ctx["S"].bit \in ctx["S"].new)
  /\ ctx["M"].at = "write" => ctx["M"].new = Changed("M")
  /\ ctx["S"].at \in {"write", "store"} /\ ctx["S"].op = "clear" => "f03" \notin listen
  /\ ctx["S"].at = "changed" /\ ctx["S"].op = "set" /\ ~ctx["S"].failed => "f03" \in listen
  /\ port = "open" /\ ~(ctx["S"].op = "clear" /\ ctx["S"].at \in {"write", "store", "changed"}) =>
       "f03" \in listen
  /\ port = "none" /\ life # "removing" => "f03" \notin listen

Live == sound /\ life \notin {"off", "removing"}
Masks ==
  Live =>
    /\ ~Stale => dev.mask = IF ctx["M"].at = "store" THEN ctx["M"].new
                            ELSE IF ctx["S"].at = "store" THEN ctx["S"].new ELSE current
    /\ ctx["S"].at = "write" /\ ~Stale => ctx["S"].new = Changed("S")
    /\ \A f \in listen : f \in dev.mask \/ Todo(f)
    /\ "f12" \in listen \/ Todo("f12") \/ (ctx["M"].at = "store" /\ ctx["M"].bit = "f12")

Awake ==
  /\ life = "aborting" => ~sound
  /\ sound /\ life \in {"probing", "up"} => dev.mode = "normal" /\ ~dev.unconf
  /\ sound /\ life = "up" => irq = "on"
  /\ ctx["M"].at = "wake" => irq = "on"

Inv == Types /\ Lives /\ Places /\ Probing /\ Handed /\ Pending /\ Masks /\ Awake

-----------------------------------------------------------------------------
(* What a pass over the functions has left, and how a context moves. *)

\* The function that a pass comes to, and those behind it.
LEMMA Passing ==
  ASSUME NEW s \in Seq(Fns), s # <<>>
  PROVE  Tail(s) \in Seq(Fns) /\ Head(s) \in Fns /\ Left(s) = {Head(s)} \cup Left(Tail(s))
<1>1. Len(s) \in Nat \ {0} /\ Tail(s) \in Seq(Fns) /\ Head(s) \in Fns /\ Head(s) = s[1]
  OBVIOUS
<1>2. Len(Tail(s)) = Len(s) - 1 /\ \A i \in 1 .. Len(s) - 1 : Tail(s)[i] = s[i + 1]
  OBVIOUS
<1>3. ASSUME NEW f \in Left(s), f # Head(s) PROVE f \in Left(Tail(s))
  <2>1. PICK i \in 1 .. Len(s) : s[i] = f  BY <1>3 DEF Left
  <2>2. i # 1 /\ i - 1 \in 1 .. Len(s) - 1  BY <1>1, <2>1, <1>3
  <2>. QED  BY <1>2, <2>1, <2>2 DEF Left
<1>4. ASSUME NEW f \in Left(Tail(s)) PROVE f \in Left(s)
  <2>1. PICK i \in 1 .. Len(s) - 1 : Tail(s)[i] = f  BY <1>2, <1>4 DEF Left
  <2>. QED  BY <1>1, <1>2, <2>1 DEF Left
<1>5. Head(s) \in Left(s)  BY <1>1 DEF Left
<1>. QED  BY <1>1, <1>3, <1>4, <1>5

\* At the end of a pass nothing is left, at its start everything is.
LEMMA PassDone == Left(<<>>) = {}
BY DEF Left

LEMMA PassAll == Order \in Seq(Fns) /\ Order # <<>> /\ Left(Order) = Fns
<1>1. Left(Order) = ToSet(Order)  BY OrderAssumption DEF Left, ToSet
<1>2. Len(Order) = 3 /\ Len(<<>>) = 0  BY OrderAssumption
<1>. QED  BY <1>1, <1>2, OrderAssumption

\* The context c has moved, and the others have not.
Becomes(c, at, op, bit, new, fns, pos, failed) ==
  /\ ctx' \in [Contexts -> CtxType]
  /\ ctx'[c].at = at /\ ctx'[c].op = op /\ ctx'[c].bit = bit /\ ctx'[c].new = new
  /\ ctx'[c].fns = fns /\ ctx'[c].pos = pos /\ ctx'[c].failed = failed
  /\ c # "M" => ctx'["M"] = ctx["M"]
  /\ c # "I" => ctx'["I"] = ctx["I"]
  /\ c # "S" => ctx'["S"] = ctx["S"]
Goes(c, l) ==
  Becomes(c, l, ctx[c].op, ctx[c].bit, ctx[c].new, ctx[c].fns, ctx[c].pos, ctx[c].failed)
Rests(c) == Becomes(c, "idle", "set", "f12", {}, <<>>, 0, FALSE)

\* A context that goes on to another place.
LEMMA Gone ==
  ASSUME ctx \in [Contexts -> CtxType], NEW c \in Contexts, NEW l \in Label, l # "idle", Go(c, l)
  PROVE  Goes(c, l)
<1>1. ctx' = [ctx EXCEPT ![c] = [ctx[c] EXCEPT !.at = l]]  BY DEF Go
<1>2. [ctx[c] EXCEPT !.at = l] \in CtxType  BY DEF CtxType
<1>. QED  BY <1>1, <1>2 DEF Becomes, Goes, CtxType, Contexts

\* A context that comes to rest.
LEMMA Rested ==
  ASSUME ctx \in [Contexts -> CtxType], NEW c \in Contexts, Go(c, "idle")
  PROVE  Rests(c)
<1>1. ctx' = [ctx EXCEPT ![c] = Resting]  BY DEF Go
<1>2. Resting \in CtxType  BY DEF Resting, CtxType, Fns, Label
<1>. QED  BY <1>1, <1>2 DEF Becomes, Rests, Resting, Contexts

\* The critical section of irq_mutex.
LEMMA OneWriter ==
  ASSUME Types
  PROVE  /\ holder = "none" =>
              ctx["M"].at \notin {"write", "store"} /\ ctx["S"].at \notin {"write", "store"}
         /\ ctx["M"].at \in {"write", "store"} => ctx["S"].at \notin {"write", "store"}
         /\ ctx["S"].at \in {"write", "store"} => ctx["M"].at \notin {"write", "store"}
BY DEF Types, Contexts

\* Counting an event keeps the counters.
LEMMA Spent ==
  ASSUME past \in [Events -> Nat], NEW e \in Events, Spend(e)
  PROVE  past' \in [Events -> Nat]
<1>1. past[e] + 1 \in Nat  OBVIOUS
<1>. QED  BY <1>1 DEF Spend

-----------------------------------------------------------------------------
(* One lemma for each action. *)

LEMMA LockMStep ==
  ASSUME Inv, Lock("M")
  PROVE  Inv'
<1>. USE DEF Inv
<1>1. /\ ctx["M"].at = "lock"
      /\ holder = "none"
      /\ holder' = "M"
      /\ Becomes("M", "write", ctx["M"].op, ctx["M"].bit, Changed("M"), ctx["M"].fns,
                 ctx["M"].pos, ctx["M"].failed)
      /\ listen' = IF ctx["M"].op = "set" THEN listen ELSE listen \ {ctx["M"].bit}
      /\ UNCHANGED <<dev, attn, irq, current, buffer, ctrl0, port, life, due, sound, past>>
  <2>1. ctx["M"] \in CtxType  BY DEF Types, Contexts
  <2>2. Changed("M") \in SUBSET Fns
    BY <2>1 DEF Types, Lock, At, CtxType, Changed
  <2>3. [ctx["M"] EXCEPT !.at = "write", !.new = Changed("M")] \in CtxType
    BY <2>1, <2>2 DEF CtxType, Label, Fns
  <2>4. ctx' = [ctx EXCEPT !["M"] = [ctx["M"] EXCEPT !.at = "write", !.new = Changed("M")]]
    BY DEF Lock, At, Changed
  <2>5. Becomes("M", "write", ctx["M"].op, ctx["M"].bit, Changed("M"), ctx["M"].fns,
                ctx["M"].pos, ctx["M"].failed)
    BY <2>3, <2>4 DEF Types, CtxType, Contexts, Becomes
  <2>. QED  BY <2>5 DEF Types, Lock, At
<1>2. Types'  BY <1>1 DEF Contexts, Becomes, Types
<1>3. Lives'  BY <1>1 DEF Becomes, Lives, Types, Changing
<1>4. Places'  BY <1>1 DEF Becomes, Places, Types, Lives, Changing
<1>5. Probing'  BY <1>1 DEF Becomes, Probing, Types, Lives, Places, Changing
<1>6. Handed'  BY <1>1 DEF Becomes, Handed, Types, Lives, Places
<1>7. Pending'
  <2>1. ctx["S"].at \notin {"write", "store"}  BY <1>1, OneWriter
  <2>2. ctx["M"].op \in {"set", "clear"}  BY DEF Types, CtxType, Contexts
  <2>3. ctx["M"].op = "clear" => life = "removing" /\ port = "none" /\ ctx["S"].at = "idle"
    BY <1>1, <2>2 DEF Places, Lives, Changing
  <2>4. ctx["M"].op = "set" <=> ctx["M"].bit \in Changed("M")  BY <2>2 DEF Changed
  <2>. QED  BY <1>1, <2>1, <2>2, <2>3, <2>4 DEF Becomes, Pending, Changed
<1>8. Masks'
  <2>1. ctx["S"].at \notin {"write", "store"}  BY <1>1, OneWriter
  <2>2. ctx["M"].op \in {"set", "clear"}  BY DEF Types, CtxType, Contexts
  <2>3. ctx["M"].op = "clear" => life = "removing" /\ port = "none" /\ ctx["S"].at = "idle"
    BY <1>1, <2>2 DEF Places, Lives, Changing
  <2>. QED  BY <1>1, <2>1, <2>2, <2>3 DEF Becomes, Masks, Live, Stale, Todo, Changed
<1>9. Awake'  BY <1>1 DEF Becomes, Awake, Types, Lives, Probing
<1>. QED  BY <1>2, <1>3, <1>4, <1>5, <1>6, <1>7, <1>8, <1>9

LEMMA WriteMStep ==
  ASSUME Inv, Write("M")
  PROVE  Inv'
<1>. USE DEF Inv
<1>1. /\ ctx["M"].at = "write"
      /\ Goes("M", "store")
      /\ dev' \in DevType
      /\ dev'.mask = ctx["M"].new
      /\ dev'.status = dev.status
      /\ dev'.mode = dev.mode
      /\ dev'.unconf = dev.unconf
      /\ attn' \in BOOLEAN
      /\ dev.status = {} => attn' = attn
      /\ UNCHANGED <<irq, current, listen, buffer, ctrl0, port, holder, life, due, sound, past>>
  <2>1. Goes("M", "store")
    BY Gone DEF Types, Write, At, Label, Contexts
  <2>2. ctx["M"].new \in SUBSET Fns  BY DEF Types, CtxType, Contexts
  <2>3. attn' \in BOOLEAN /\ (dev.status = {} => attn' = attn)  BY DEF Write, Types
  <2>. QED  BY <2>1, <2>2, <2>3 DEF Types, Write, At, DevType
<1>2. Types'  BY <1>1 DEF Contexts, Becomes, Goes, Types
<1>3. Lives'  BY <1>1 DEF Becomes, Goes, Lives, Types, Changing
<1>4. Places'  BY <1>1 DEF Becomes, Goes, Places, Types, Lives, Changing
<1>5. Probing'  BY <1>1 DEF Becomes, Goes, Probing, Types, Lives, Places, Changing
<1>6. Handed'  BY <1>1 DEF Becomes, Goes, Handed, Types, Lives, Places
<1>7. Pending'  BY <1>1 DEF Becomes, Goes, Pending, Changed, Lives, Places
<1>8. Masks'
  <2>1. ctx["S"].at \notin {"write", "store"}  BY <1>1, OneWriter
  <2>2. CASE Live
    <3>1. /\ ctx["M"].fns # <<>> /\ ctx["M"].fns \in Seq(Fns) /\ ctx["M"].bit = Head(ctx["M"].fns)
          /\ ctx["M"].op = "set" /\ ctx["M"].bit \in {"f03", "f12"}
      BY <1>1, <2>2 DEF Live, Places, Changing, Types, CtxType, Contexts
    <3>2. Left(ctx["M"].fns) = {ctx["M"].bit} \cup Left(Tail(ctx["M"].fns))  BY <3>1, Passing
    <3>3. ctx["M"].new = current \cup {ctx["M"].bit}  BY <1>1, <3>1 DEF Pending, Changed
    <3>4. \A f : Todo(f) /\ f # ctx["M"].bit => Todo(f)'  BY <1>1, <3>2 DEF Todo, Becomes, Goes
    <3>5. \A f \in {"f03", "f12"} : Stale => Todo(f)  BY DEF Stale
    <3>6. ASSUME NEW f \in listen PROVE f \in ctx["M"].new \/ Todo(f)'
      BY <1>1, <2>1, <2>2, <3>3, <3>4, <3>5 DEF Masks, Types
    <3>7. "f12" \in listen \/ Todo("f12")' \/ ctx["M"].bit = "f12"
      BY <1>1, <2>2, <3>4 DEF Masks
    <3>. QED  BY <1>1, <2>1, <3>6, <3>7 DEF Masks, Becomes, Goes
  <2>. QED  BY <1>1, <2>2 DEF Masks, Live
<1>9. Awake'  BY <1>1 DEF Becomes, Goes, Awake, Types, Lives, Probing
<1>. QED  BY <1>2, <1>3, <1>4, <1>5, <1>6, <1>7, <1>8, <1>9

LEMMA WriteFailsMStep ==
  ASSUME Inv, WriteFails("M")
  PROVE  Inv'
<1>. USE DEF Inv
<1>1. /\ ctx["M"].at = "write"
      /\ holder' = "none"
      /\ sound' = FALSE
      /\ past' \in [Events -> Nat]
      /\ Becomes("M", "changed", ctx["M"].op, ctx["M"].bit, {}, ctx["M"].fns, ctx["M"].pos, TRUE)
      /\ UNCHANGED <<dev, attn, irq, current, listen, buffer, ctrl0, port, life, due>>
  <2>1. ctx["M"] \in CtxType  BY DEF Types, Contexts
  <2>2. Order \in Seq(Fns) /\ <<>> \in Seq(Fns)  BY PassAll
  <2>3. [ctx["M"] EXCEPT !.at = "changed", !.new = {}, !.failed = TRUE] \in CtxType
    BY <2>1, <2>2 DEF CtxType, Label, Fns
  <2>4. ctx' = [ctx EXCEPT !["M"] = [ctx["M"] EXCEPT !.at = "changed", !.new = {},
          !.failed = TRUE]]
    BY DEF WriteFails, At, Fail
  <2>5. Becomes("M", "changed", ctx["M"].op, ctx["M"].bit, {}, ctx["M"].fns, ctx["M"].pos, TRUE)
    BY <2>3, <2>4 DEF Types, CtxType, Contexts, Becomes
  <2>. QED  BY Spent, <2>5 DEF Types, WriteFails, At, Fail, Events
<1>2. Types'  BY <1>1 DEF Contexts, Becomes, Types
<1>3. Lives'  BY <1>1 DEF Becomes, Lives, Types, Changing
<1>4. Places'  BY <1>1 DEF Becomes, Places, Types, Lives, Changing
<1>5. Probing'  BY <1>1 DEF Becomes, Probing, Types, Lives, Places, Changing
<1>6. Handed'  BY <1>1 DEF Becomes, Handed, Types, Lives, Places
<1>7. Pending'  BY <1>1 DEF Becomes, Pending, Changed, Lives, Places
<1>8. Masks'  BY <1>1 DEF Becomes, Masks, Live, Stale, Todo, Changed, Lives
<1>9. Awake'  BY <1>1 DEF Becomes, Awake, Types, Lives, Probing
<1>. QED  BY <1>2, <1>3, <1>4, <1>5, <1>6, <1>7, <1>8, <1>9

LEMMA StoreMStep ==
  ASSUME Inv, Store("M")
  PROVE  Inv'
<1>. USE DEF Inv
<1>1. /\ ctx["M"].at = "store"
      /\ holder' = "none"
      /\ Becomes("M", "changed", ctx["M"].op, ctx["M"].bit, {}, ctx["M"].fns, ctx["M"].pos,
                 ctx["M"].failed)
      /\ current' = ctx["M"].new
      /\ listen' = IF ctx["M"].op = "set" THEN listen \cup {ctx["M"].bit} ELSE listen
      /\ UNCHANGED <<dev, attn, irq, buffer, ctrl0, port, life, due, sound, past>>
  <2>1. ctx["M"] \in CtxType  BY DEF Types, Contexts
  <2>2. Order \in Seq(Fns) /\ <<>> \in Seq(Fns)  BY PassAll
  <2>3. [ctx["M"] EXCEPT !.at = "changed", !.new = {}] \in CtxType
    BY <2>1, <2>2 DEF CtxType, Label, Fns
  <2>4. ctx' = [ctx EXCEPT !["M"] = [ctx["M"] EXCEPT !.at = "changed", !.new = {}]]
    BY DEF Store, At
  <2>5. Becomes("M", "changed", ctx["M"].op, ctx["M"].bit, {}, ctx["M"].fns, ctx["M"].pos,
                ctx["M"].failed)
    BY <2>3, <2>4 DEF Types, CtxType, Contexts, Becomes
  <2>. QED  BY <2>5 DEF Types, Store, At
<1>2. Types'
  <2>1. ctx["M"].new \in SUBSET Fns  BY DEF Types, CtxType, Contexts
  <2>2. ctx["M"].op = "set" => ctx["M"].bit \in {"f03", "f12"}
    BY <1>1 DEF Lives, Places, Changing
  <2>. QED  BY <1>1, <2>1, <2>2 DEF Contexts, Becomes, Types
<1>3. Lives'  BY <1>1 DEF Becomes, Lives, Types, Changing
<1>4. Places'  BY <1>1 DEF Becomes, Places, Types, Lives, Changing
<1>5. Probing'  BY <1>1 DEF Becomes, Probing, Types, Lives, Places, Changing
<1>6. Handed'  BY <1>1 DEF Becomes, Handed, Types, Lives, Places
<1>7. Pending'
  <2>1. ctx["S"].at \notin {"write", "store"}  BY <1>1, OneWriter
  <2>2. ctx["M"].op \in {"set", "clear"}  BY DEF Types, CtxType, Contexts
  <2>3. ctx["M"].op = "clear" => life = "removing" /\ port = "none" /\ ctx["S"].at = "idle"
    BY <1>1, <2>2 DEF Places, Lives, Changing
  <2>4. ctx["M"].op = "set" /\ ctx["M"].bit = "f03" => port # "none"
    BY <1>1 DEF Places, Lives, Changing
  <2>. QED  BY <1>1, <2>1, <2>2, <2>3, <2>4 DEF Becomes, Pending, Changed
<1>8. Masks'
  <2>1. ctx["S"].at \notin {"write", "store"}  BY <1>1, OneWriter
  <2>2. ctx["M"].op \in {"set", "clear"}  BY DEF Types, CtxType, Contexts
  <2>3. ctx["M"].op = "clear" => life = "removing" /\ port = "none" /\ ctx["S"].at = "idle"
    BY <1>1, <2>2 DEF Places, Lives, Changing
  <2>4. CASE Live
    <3>1. ctx["M"].op = "set" /\ ctx["M"].bit \in {"f03", "f12"} /\ ctx["M"].bit \in ctx["M"].new
      BY <1>1, <2>4 DEF Live, Places, Changing, Pending
    <3>2. (Stale <=> Stale') /\ \A f : Todo(f) <=> Todo(f)'  BY <1>1 DEF Stale, Todo, Becomes
    <3>3. \A f \in {"f03", "f12"} : Stale => Todo(f)  BY DEF Stale
    <3>4. ~Stale => dev.mask = ctx["M"].new  BY <1>1, <2>4 DEF Masks
    <3>5. ASSUME NEW f \in listen' PROVE f \in dev.mask \/ Todo(f)
      BY <1>1, <2>4, <3>1, <3>3, <3>4 DEF Masks
    <3>6. "f12" \in listen' \/ Todo("f12")  BY <1>1, <2>4, <3>1 DEF Masks
    <3>. QED  BY <1>1, <2>1, <3>2, <3>4, <3>5, <3>6 DEF Masks, Becomes
  <2>. QED  BY <1>1, <2>4 DEF Masks, Live
<1>9. Awake'  BY <1>1 DEF Becomes, Awake, Types, Lives, Probing
<1>. QED  BY <1>2, <1>3, <1>4, <1>5, <1>6, <1>7, <1>8, <1>9

LEMMA LockSStep ==
  ASSUME Inv, Lock("S")
  PROVE  Inv'
<1>. USE DEF Inv
<1>1. /\ ctx["S"].at = "lock"
      /\ holder = "none"
      /\ holder' = "S"
      /\ Becomes("S", "write", ctx["S"].op, ctx["S"].bit, Changed("S"), ctx["S"].fns,
                 ctx["S"].pos, ctx["S"].failed)
      /\ listen' = IF ctx["S"].op = "set" THEN listen ELSE listen \ {ctx["S"].bit}
      /\ UNCHANGED <<dev, attn, irq, current, buffer, ctrl0, port, life, due, sound, past>>
  <2>1. ctx["S"] \in CtxType  BY DEF Types, Contexts
  <2>2. Changed("S") \in SUBSET Fns
    BY <2>1 DEF Types, Lock, At, CtxType, Changed
  <2>3. [ctx["S"] EXCEPT !.at = "write", !.new = Changed("S")] \in CtxType
    BY <2>1, <2>2 DEF CtxType, Label, Fns
  <2>4. ctx' = [ctx EXCEPT !["S"] = [ctx["S"] EXCEPT !.at = "write", !.new = Changed("S")]]
    BY DEF Lock, At, Changed
  <2>5. Becomes("S", "write", ctx["S"].op, ctx["S"].bit, Changed("S"), ctx["S"].fns,
                ctx["S"].pos, ctx["S"].failed)
    BY <2>3, <2>4 DEF Types, CtxType, Contexts, Becomes
  <2>. QED  BY <2>5 DEF Types, Lock, At
<1>2. Types'  BY <1>1 DEF Contexts, Becomes, Types
<1>3. Lives'  BY <1>1 DEF Becomes, Lives, Types, Changing
<1>4. Places'  BY <1>1 DEF Becomes, Places, Types, Lives, Changing
<1>5. Probing'  BY <1>1 DEF Becomes, Probing, Types, Lives, Places, Changing
<1>6. Handed'  BY <1>1 DEF Becomes, Handed, Types, Lives, Places
<1>7. Pending'
  <2>1. ctx["M"].at \notin {"write", "store"}  BY <1>1, OneWriter
  <2>2. ctx["S"].op \in {"set", "clear"} /\ ctx["S"].bit = "f03"
        /\ port = IF ctx["S"].op = "set" THEN "closed" ELSE "open"
    BY <1>1 DEF Types, CtxType, Contexts, Places
  <2>4. ctx["S"].op = "set" <=> ctx["S"].bit \in Changed("S")  BY <2>2 DEF Changed
  <2>. QED  BY <1>1, <2>1, <2>2, <2>4 DEF Becomes, Pending, Changed
<1>8. Masks'
  <2>1. ctx["M"].at \notin {"write", "store"}  BY <1>1, OneWriter
  <2>2. ctx["S"].op \in {"set", "clear"} /\ ctx["S"].bit = "f03"
        /\ port = IF ctx["S"].op = "set" THEN "closed" ELSE "open"
    BY <1>1 DEF Types, CtxType, Contexts, Places
  <2>. QED  BY <1>1, <2>1, <2>2 DEF Becomes, Masks, Live, Stale, Todo, Changed
<1>9. Awake'  BY <1>1 DEF Becomes, Awake, Types, Lives, Probing
<1>. QED  BY <1>2, <1>3, <1>4, <1>5, <1>6, <1>7, <1>8, <1>9

LEMMA WriteSStep ==
  ASSUME Inv, Write("S")
  PROVE  Inv'
<1>. USE DEF Inv
<1>1. /\ ctx["S"].at = "write"
      /\ Goes("S", "store")
      /\ dev' \in DevType
      /\ dev'.mask = ctx["S"].new
      /\ dev'.status = dev.status
      /\ dev'.mode = dev.mode
      /\ dev'.unconf = dev.unconf
      /\ attn' \in BOOLEAN
      /\ dev.status = {} => attn' = attn
      /\ UNCHANGED <<irq, current, listen, buffer, ctrl0, port, holder, life, due, sound, past>>
  <2>1. Goes("S", "store")
    BY Gone DEF Types, Write, At, Label, Contexts
  <2>2. ctx["S"].new \in SUBSET Fns  BY DEF Types, CtxType, Contexts
  <2>3. attn' \in BOOLEAN /\ (dev.status = {} => attn' = attn)  BY DEF Write, Types
  <2>. QED  BY <2>1, <2>2, <2>3 DEF Types, Write, At, DevType
<1>2. Types'  BY <1>1 DEF Contexts, Becomes, Goes, Types
<1>3. Lives'  BY <1>1 DEF Becomes, Goes, Lives, Types, Changing
<1>4. Places'  BY <1>1 DEF Becomes, Goes, Places, Types, Lives, Changing
<1>5. Probing'  BY <1>1 DEF Becomes, Goes, Probing, Types, Lives, Places, Changing
<1>6. Handed'  BY <1>1 DEF Becomes, Goes, Handed, Types, Lives, Places
<1>7. Pending'  BY <1>1 DEF Becomes, Goes, Pending, Changed, Lives, Places
<1>8. Masks'
  <2>1. ctx["M"].at \notin {"write", "store"}  BY <1>1, OneWriter
  <2>2. ctx["S"].op \in {"set", "clear"} /\ ctx["S"].bit = "f03"
        /\ port = IF ctx["S"].op = "set" THEN "closed" ELSE "open"
    BY <1>1 DEF Types, CtxType, Contexts, Places
  <2>3. (Stale <=> Stale') /\ \A f : Todo(f) <=> Todo(f)'  BY <1>1 DEF Stale, Todo, Becomes, Goes
  <2>4. CASE Live
    <3>1. \A f \in {"f03", "f12"} : Stale => Todo(f)  BY DEF Stale
    <3>2. ~Stale => dev.mask = current /\ ctx["S"].new = Changed("S")
      BY <1>1, <2>1, <2>4 DEF Masks
    <3>3. ctx["S"].op = "clear" => "f03" \notin listen  BY <1>1 DEF Pending
    <3>4. ASSUME NEW f \in listen PROVE f \in ctx["S"].new \/ Todo(f)
      BY <1>1, <2>2, <2>4, <3>1, <3>2, <3>3 DEF Masks, Types, Changed
    <3>. QED  BY <1>1, <2>1, <2>3, <2>4, <3>4 DEF Masks, Becomes, Goes
  <2>. QED  BY <1>1, <2>4 DEF Masks, Live
<1>9. Awake'  BY <1>1 DEF Becomes, Goes, Awake, Types, Lives, Probing
<1>. QED  BY <1>2, <1>3, <1>4, <1>5, <1>6, <1>7, <1>8, <1>9

LEMMA WriteFailsSStep ==
  ASSUME Inv, WriteFails("S")
  PROVE  Inv'
<1>. USE DEF Inv
<1>1. /\ ctx["S"].at = "write"
      /\ holder' = "none"
      /\ sound' = sound
      /\ past' \in [Events -> Nat]
      /\ Becomes("S", "changed", ctx["S"].op, ctx["S"].bit, {}, ctx["S"].fns, ctx["S"].pos, TRUE)
      /\ UNCHANGED <<dev, attn, irq, current, listen, buffer, ctrl0, port, life, due>>
  <2>1. ctx["S"] \in CtxType  BY DEF Types, Contexts
  <2>2. Order \in Seq(Fns) /\ <<>> \in Seq(Fns)  BY PassAll
  <2>3. [ctx["S"] EXCEPT !.at = "changed", !.new = {}, !.failed = TRUE] \in CtxType
    BY <2>1, <2>2 DEF CtxType, Label, Fns
  <2>4. ctx' = [ctx EXCEPT !["S"] = [ctx["S"] EXCEPT !.at = "changed", !.new = {},
          !.failed = TRUE]]
    BY DEF WriteFails, At, Fail
  <2>5. Becomes("S", "changed", ctx["S"].op, ctx["S"].bit, {}, ctx["S"].fns, ctx["S"].pos, TRUE)
    BY <2>3, <2>4 DEF Types, CtxType, Contexts, Becomes
  <2>. QED  BY Spent, <2>5 DEF Types, WriteFails, At, Fail, Events
<1>2. Types'  BY <1>1 DEF Contexts, Becomes, Types
<1>3. Lives'  BY <1>1 DEF Becomes, Lives, Types, Changing
<1>4. Places'  BY <1>1 DEF Becomes, Places, Types, Lives, Changing
<1>5. Probing'  BY <1>1 DEF Becomes, Probing, Types, Lives, Places, Changing
<1>6. Handed'  BY <1>1 DEF Becomes, Handed, Types, Lives, Places
<1>7. Pending'  BY <1>1 DEF Becomes, Pending, Changed, Lives, Places
<1>8. Masks'  BY <1>1 DEF Becomes, Masks, Live, Stale, Todo, Changed, Lives
<1>9. Awake'  BY <1>1 DEF Becomes, Awake, Types, Lives, Probing
<1>. QED  BY <1>2, <1>3, <1>4, <1>5, <1>6, <1>7, <1>8, <1>9

LEMMA StoreSStep ==
  ASSUME Inv, Store("S")
  PROVE  Inv'
<1>. USE DEF Inv
<1>1. /\ ctx["S"].at = "store"
      /\ holder' = "none"
      /\ Becomes("S", "changed", ctx["S"].op, ctx["S"].bit, {}, ctx["S"].fns, ctx["S"].pos,
                 ctx["S"].failed)
      /\ current' = ctx["S"].new
      /\ listen' = IF ctx["S"].op = "set" THEN listen \cup {ctx["S"].bit} ELSE listen
      /\ UNCHANGED <<dev, attn, irq, buffer, ctrl0, port, life, due, sound, past>>
  <2>1. ctx["S"] \in CtxType  BY DEF Types, Contexts
  <2>2. Order \in Seq(Fns) /\ <<>> \in Seq(Fns)  BY PassAll
  <2>3. [ctx["S"] EXCEPT !.at = "changed", !.new = {}] \in CtxType
    BY <2>1, <2>2 DEF CtxType, Label, Fns
  <2>4. ctx' = [ctx EXCEPT !["S"] = [ctx["S"] EXCEPT !.at = "changed", !.new = {}]]
    BY DEF Store, At
  <2>5. Becomes("S", "changed", ctx["S"].op, ctx["S"].bit, {}, ctx["S"].fns, ctx["S"].pos,
                ctx["S"].failed)
    BY <2>3, <2>4 DEF Types, CtxType, Contexts, Becomes
  <2>. QED  BY <2>5 DEF Types, Store, At
<1>2. Types'
  <2>1. ctx["S"].new \in SUBSET Fns  BY DEF Types, CtxType, Contexts
  <2>2. ctx["S"].op = "set" => ctx["S"].bit \in {"f03", "f12"}
    BY <1>1 DEF Lives, Places, Changing
  <2>. QED  BY <1>1, <2>1, <2>2 DEF Contexts, Becomes, Types
<1>3. Lives'
  <2>1. life # "off" /\ ~(life = "removing" /\ ctx["M"].at \in Changing)
    BY <1>1 DEF Lives, Places, Types
  <2>. QED  BY <1>1, <2>1 DEF Becomes, Lives
<1>4. Places'  BY <1>1 DEF Becomes, Places, Types, Lives, Changing
<1>5. Probing'  BY <1>1 DEF Becomes, Probing, Types, Lives, Places, Changing
<1>6. Handed'  BY <1>1 DEF Becomes, Handed, Types, Lives, Places
<1>7. Pending'
  <2>1. ctx["M"].at \notin {"write", "store"}  BY <1>1, OneWriter
  <2>2. ctx["S"].op \in {"set", "clear"} /\ ctx["S"].bit = "f03"
        /\ port = IF ctx["S"].op = "set" THEN "closed" ELSE "open"
    BY <1>1 DEF Types, CtxType, Contexts, Places
  <2>. QED  BY <1>1, <2>1, <2>2 DEF Becomes, Pending, Changed
<1>8. Masks'
  <2>1. ctx["M"].at \notin {"write", "store"}  BY <1>1, OneWriter
  <2>2. ctx["S"].op \in {"set", "clear"} /\ ctx["S"].bit = "f03"
        /\ port = IF ctx["S"].op = "set" THEN "closed" ELSE "open"
    BY <1>1 DEF Types, CtxType, Contexts, Places
  <2>3. (Stale <=> Stale') /\ \A f : Todo(f) <=> Todo(f)'  BY <1>1 DEF Stale, Todo, Becomes
  <2>4. CASE Live
    <3>1. \A f \in {"f03", "f12"} : Stale => Todo(f)  BY DEF Stale
    <3>2. ~Stale => dev.mask = ctx["S"].new  BY <1>1, <2>1, <2>4 DEF Masks
    <3>3. ctx["S"].op = "set" => "f03" \in ctx["S"].new  BY <1>1, <2>2 DEF Pending
    <3>4. ASSUME NEW f \in listen' PROVE f \in dev.mask \/ Todo(f)
      BY <1>1, <2>2, <2>4, <3>1, <3>2, <3>3 DEF Masks
    <3>. QED  BY <1>1, <2>1, <2>2, <2>3, <2>4, <3>2, <3>4 DEF Masks, Becomes
  <2>. QED  BY <1>1, <2>4 DEF Masks, Live
<1>9. Awake'  BY <1>1 DEF Becomes, Awake, Types, Lives, Probing
<1>. QED  BY <1>2, <1>3, <1>4, <1>5, <1>6, <1>7, <1>8, <1>9

LEMMA ReadMaskStep ==
  ASSUME Inv, ReadMask("M")
  PROVE  Inv'
<1>. USE DEF Inv
<1>1. /\ ctx["M"].at = "mask"
      /\ Becomes("M", "keep", ctx["M"].op, ctx["M"].bit, dev.mask, ctx["M"].fns, ctx["M"].pos,
                 ctx["M"].failed)
      /\ UNCHANGED <<dev, attn, irq, current, listen, buffer, ctrl0, port, holder, life, due,
                     sound, past>>
  <2>1. ctx["M"] \in CtxType  BY DEF Types, Contexts
  <2>2. dev.mask \in SUBSET Fns
    BY <2>1 DEF Types, ReadMask, At, CtxType, DevType
  <2>3. [ctx["M"] EXCEPT !.at = "keep", !.new = dev.mask] \in CtxType
    BY <2>1, <2>2 DEF CtxType, Label, Fns
  <2>4. ctx' = [ctx EXCEPT !["M"] = [ctx["M"] EXCEPT !.at = "keep", !.new = dev.mask]]
    BY DEF ReadMask, At
  <2>5. Becomes("M", "keep", ctx["M"].op, ctx["M"].bit, dev.mask, ctx["M"].fns, ctx["M"].pos,
                ctx["M"].failed)
    BY <2>3, <2>4 DEF Types, CtxType, Contexts, Becomes
  <2>. QED  BY <2>5 DEF Types, ReadMask, At
<1>2. Types'  BY <1>1 DEF Contexts, Becomes, Types
<1>3. Lives'  BY <1>1 DEF Becomes, Lives, Types, Changing
<1>4. Places'  BY <1>1 DEF Becomes, Places, Types, Lives, Changing
<1>5. Probing'  BY <1>1 DEF Becomes, Probing, Types, Lives, Places, Changing
<1>6. Handed'  BY <1>1 DEF Becomes, Handed, Types, Lives, Places
<1>7. Pending'  BY <1>1 DEF Becomes, Pending, Changed, Lives, Places
<1>8. Masks'  BY <1>1 DEF Becomes, Masks, Live, Stale, Todo, Changed, Lives
<1>9. Awake'  BY <1>1 DEF Becomes, Awake, Types, Lives, Probing
<1>. QED  BY <1>2, <1>3, <1>4, <1>5, <1>6, <1>7, <1>8, <1>9

LEMMA ReadMaskFailsStep ==
  ASSUME Inv, ReadMaskFails("M")
  PROVE  Inv'
<1>. USE DEF Inv
<1>1. /\ ctx["M"].at = "mask"
      /\ sound' = FALSE
      /\ past' \in [Events -> Nat]
      /\ Goes("M", IF life = "probing" THEN "quit" ELSE "enable")
      /\ UNCHANGED <<dev, attn, irq, current, listen, buffer, ctrl0, port, holder, life, due>>
  <2>1. Goes("M", IF life = "probing" THEN "quit" ELSE "enable")
    BY Gone DEF Types, ReadMaskFails, At, AfterFailure, AfterPass, Fail, Label, Contexts
  <2>. QED  BY Spent, <2>1 DEF Types, ReadMaskFails, At, AfterFailure, AfterPass, Fail, Events
<1>2. Types'  BY <1>1 DEF Contexts, Becomes, Goes, Types
<1>3. Lives'
  <2>1. life = "resuming"  BY <1>1 DEF Lives, Types, Changing
  <2>. QED  BY <1>1, <2>1 DEF Becomes, Goes, Lives, Changing
<1>4. Places'  BY <1>1 DEF Becomes, Goes, Places, Types, Lives, Changing
<1>5. Probing'  BY <1>1 DEF Becomes, Goes, Probing, Types, Lives, Places, Changing
<1>6. Handed'  BY <1>1 DEF Becomes, Goes, Handed, Types, Lives, Places
<1>7. Pending'  BY <1>1 DEF Becomes, Goes, Pending, Changed, Lives, Places
<1>8. Masks'  BY <1>1 DEF Becomes, Goes, Masks, Live, Stale, Todo, Changed, Lives
<1>9. Awake'  BY <1>1 DEF Becomes, Goes, Awake, Types, Lives, Probing
<1>. QED  BY <1>2, <1>3, <1>4, <1>5, <1>6, <1>7, <1>8, <1>9

LEMMA KeepMaskStep ==
  ASSUME Inv, KeepMask("M")
  PROVE  Inv'
<1>. USE DEF Inv
<1>1. /\ ctx["M"].at = "keep"
      /\ current' = ctx["M"].new
      /\ sound' = TRUE
      /\ Becomes("M", "config", ctx["M"].op, ctx["M"].bit, {}, Order, ctx["M"].pos,
                 ctx["M"].failed)
      /\ UNCHANGED <<dev, attn, irq, listen, buffer, ctrl0, port, holder, life, due, past>>
  <2>1. ctx["M"] \in CtxType  BY DEF Types, Contexts
  <2>2. Order \in Seq(Fns) /\ <<>> \in Seq(Fns)  BY PassAll
  <2>3. [ctx["M"] EXCEPT !.at = "config", !.new = {}, !.fns = Order] \in CtxType
    BY <2>1, <2>2 DEF CtxType, Label, Fns
  <2>4. ctx' = [ctx EXCEPT !["M"] = [ctx["M"] EXCEPT !.at = "config", !.new = {}, !.fns = Order]]
    BY DEF KeepMask, At, Pass
  <2>5. Becomes("M", "config", ctx["M"].op, ctx["M"].bit, {}, Order, ctx["M"].pos,
                ctx["M"].failed)
    BY <2>3, <2>4 DEF Types, CtxType, Contexts, Becomes
  <2>. QED  BY <2>5 DEF Types, KeepMask, At, Pass
<1>2. Types'
  <2>1. ctx["M"].new \in SUBSET Fns  BY DEF Types, CtxType, Contexts
  <2>. QED  BY <1>1, <2>1 DEF Contexts, Becomes, Types
<1>3. Lives'  BY <1>1 DEF Becomes, Lives, Types, Changing
<1>4. Places'  BY <1>1 DEF Becomes, Places, Types, Lives, Changing
<1>5. Probing'  BY <1>1 DEF Becomes, Probing, Types, Lives, Places, Changing
<1>6. Handed'  BY <1>1 DEF Becomes, Handed, Types, Lives, Places
<1>7. Pending'  BY <1>1 DEF Becomes, Pending, Changed, Lives, Places
<1>8. Masks'
  <2>1. life = "resuming"  BY <1>1 DEF Lives, Types, Changing
  <2>2. Todo("f03")' /\ Todo("f12")'
    BY <1>1, <2>1, PassAll DEF Becomes, Todo, Fns
  <2>. QED  BY <1>1, <2>1, <2>2 DEF Becomes, Masks, Stale, Types
<1>9. Awake'
  <2>1. life = "resuming"  BY <1>1 DEF Lives, Types, Changing
  <2>. QED  BY <1>1, <2>1 DEF Becomes, Awake
<1>. QED  BY <1>2, <1>3, <1>4, <1>5, <1>6, <1>7, <1>8, <1>9

LEMMA ConfigF01Step ==
  ASSUME Inv, ConfigF01("M")
  PROVE  Inv'
<1>. USE DEF Inv
<1>1. /\ ctx["M"].at = "config"
      /\ ctx["M"].fns # <<>>
      /\ Head(ctx["M"].fns) = "f01"
      /\ Becomes("M", ctx["M"].at, ctx["M"].op, ctx["M"].bit, ctx["M"].new, Tail(ctx["M"].fns),
                 ctx["M"].pos, ctx["M"].failed)
      /\ dev' \in DevType
      /\ dev'.mask = dev.mask
      /\ dev'.status = dev.status
      /\ dev'.mode = ctrl0
      /\ dev'.unconf = FALSE
      /\ UNCHANGED <<attn, irq, current, listen, buffer, ctrl0, port, holder, life, due, sound,
                     past>>
  <2>1. ctx["M"] \in CtxType  BY DEF Types, Contexts
  <2>2. Tail(ctx["M"].fns) \in Seq(Fns)
    BY <2>1, Passing DEF Types, ConfigF01, Config, At, CtxType
  <2>3. [ctx["M"] EXCEPT !.fns = Tail(ctx["M"].fns)] \in CtxType
    BY <2>1, <2>2 DEF CtxType, Label, Fns
  <2>4. ctx' = [ctx EXCEPT !["M"] = [ctx["M"] EXCEPT !.fns = Tail(ctx["M"].fns)]]
    BY DEF ConfigF01, Config, At
  <2>5. Becomes("M", ctx["M"].at, ctx["M"].op, ctx["M"].bit, ctx["M"].new, Tail(ctx["M"].fns),
                ctx["M"].pos, ctx["M"].failed)
    BY <2>3, <2>4 DEF Types, CtxType, Contexts, Becomes
  <2>. QED  BY <2>5 DEF Types, ConfigF01, Config, At, DevType
<1>2. Types'  BY <1>1 DEF Contexts, Becomes, Types
<1>3. Lives'  BY <1>1 DEF Becomes, Lives, Types, Changing
<1>4. Places'  BY <1>1 DEF Becomes, Places, Types, Lives, Changing
<1>5. Probing'
  <2>1. ctx["M"].fns \in Seq(Fns)  BY DEF Types, CtxType, Contexts
  <2>2. Left(ctx["M"].fns) = {Head(ctx["M"].fns)} \cup Left(Tail(ctx["M"].fns))
    BY <1>1, <2>1, Passing
  <2>. QED  BY <1>1, <2>2 DEF Becomes, Probing, Changing
<1>6. Handed'  BY <1>1 DEF Becomes, Handed, Types, Lives, Places
<1>7. Pending'  BY <1>1 DEF Becomes, Pending, Changed, Lives, Places
<1>8. Masks'
  <2>1. ctx["M"].fns \in Seq(Fns)  BY DEF Types, CtxType, Contexts
  <2>2. Left(ctx["M"].fns) = {Head(ctx["M"].fns)} \cup Left(Tail(ctx["M"].fns))
    BY <1>1, <2>1, Passing
  <2>3. \A f \in {"f03", "f12"} : Todo(f) <=> Todo(f)'  BY <1>1, <2>2 DEF Todo, Becomes
  <2>. QED  BY <1>1, <2>3 DEF Becomes, Masks, Live, Stale, Changed, Types
<1>9. Awake'
  <2>1. life \in {"probing", "resuming"}  BY <1>1 DEF Lives, Types, Changing
  <2>2. life = "probing" => ctrl0 = "normal"  BY DEF Probing
  <2>. QED  BY <1>1, <2>1, <2>2 DEF Becomes, Awake
<1>. QED  BY <1>2, <1>3, <1>4, <1>5, <1>6, <1>7, <1>8, <1>9

LEMMA ConfigF01FailsStep ==
  ASSUME Inv, ConfigF01Fails("M")
  PROVE  Inv'
<1>. USE DEF Inv
<1>1. /\ ctx["M"].at = "config"
      /\ ctx["M"].fns # <<>>
      /\ Head(ctx["M"].fns) = "f01"
      /\ sound' = FALSE
      /\ past' \in [Events -> Nat]
      /\ Goes("M", IF life = "probing" THEN "quit" ELSE "enable")
      /\ UNCHANGED <<dev, attn, irq, current, listen, buffer, ctrl0, port, holder, life, due>>
  <2>1. Goes("M", IF life = "probing" THEN "quit" ELSE "enable")
    BY Gone DEF Types, ConfigF01Fails, Config, At, AfterFailure, AfterPass, Fail, Label, Contexts
  <2>. QED  BY Spent, <2>1 DEF Types, ConfigF01Fails, Config, At, AfterFailure, AfterPass, Fail,
               Events
<1>2. Types'  BY <1>1 DEF Contexts, Becomes, Goes, Types
<1>3. Lives'  BY <1>1 DEF Becomes, Goes, Lives, Types, Changing
<1>4. Places'  BY <1>1 DEF Becomes, Goes, Places, Types, Lives, Changing
<1>5. Probing'  BY <1>1 DEF Becomes, Goes, Probing, Types, Lives, Places, Changing
<1>6. Handed'  BY <1>1 DEF Becomes, Goes, Handed, Types, Lives, Places
<1>7. Pending'  BY <1>1 DEF Becomes, Goes, Pending, Changed, Lives, Places
<1>8. Masks'  BY <1>1 DEF Becomes, Goes, Masks, Live, Stale, Todo, Changed, Lives
<1>9. Awake'  BY <1>1 DEF Becomes, Goes, Awake, Types, Lives, Probing
<1>. QED  BY <1>2, <1>3, <1>4, <1>5, <1>6, <1>7, <1>8, <1>9

LEMMA ConfigF12Step ==
  ASSUME Inv, ConfigF12("M")
  PROVE  Inv'
<1>. USE DEF Inv
<1>1. /\ ctx["M"].at = "config"
      /\ ctx["M"].fns # <<>>
      /\ Head(ctx["M"].fns) = "f12"
      /\ Becomes("M", "lock", "set", "f12", ctx["M"].new, ctx["M"].fns, ctx["M"].pos, FALSE)
      /\ UNCHANGED <<dev, attn, irq, current, listen, buffer, ctrl0, port, holder, life, due,
                     sound, past>>
  <2>1. ctx["M"] \in CtxType  BY DEF Types, Contexts
  <2>2. Order \in Seq(Fns) /\ <<>> \in Seq(Fns)  BY PassAll
  <2>3. [ctx["M"] EXCEPT !.at = "lock", !.op = "set", !.bit = "f12", !.failed = FALSE] \in CtxType
    BY <2>1, <2>2 DEF CtxType, Label, Fns
  <2>4. ctx' = [ctx EXCEPT !["M"] = [ctx["M"] EXCEPT !.at = "lock", !.op = "set", !.bit = "f12",
          !.failed = FALSE]]
    BY DEF ConfigF12, Config, Change, At
  <2>5. Becomes("M", "lock", "set", "f12", ctx["M"].new, ctx["M"].fns, ctx["M"].pos, FALSE)
    BY <2>3, <2>4 DEF Types, CtxType, Contexts, Becomes
  <2>. QED  BY <2>5 DEF Types, ConfigF12, Config, Change, At
<1>2. Types'  BY <1>1 DEF Contexts, Becomes, Types
<1>3. Lives'  BY <1>1 DEF Becomes, Lives, Types, Changing
<1>4. Places'  BY <1>1 DEF Becomes, Places, Types, Lives, Changing
<1>5. Probing'  BY <1>1 DEF Becomes, Probing, Types, Lives, Places, Changing
<1>6. Handed'  BY <1>1 DEF Becomes, Handed, Types, Lives, Places
<1>7. Pending'  BY <1>1 DEF Becomes, Pending, Changed, Lives, Places
<1>8. Masks'  BY <1>1 DEF Becomes, Masks, Live, Stale, Todo, Changed, Lives
<1>9. Awake'  BY <1>1 DEF Becomes, Awake, Types, Lives, Probing
<1>. QED  BY <1>2, <1>3, <1>4, <1>5, <1>6, <1>7, <1>8, <1>9

LEMMA ConfigF03NewStep ==
  ASSUME Inv, ConfigF03("M"), port = "none"
  PROVE  Inv'
<1>. USE DEF Inv
<1>1. /\ ctx["M"].at = "config"
      /\ ctx["M"].fns # <<>>
      /\ Head(ctx["M"].fns) = "f03"
      /\ port = "none"
      /\ port' = "closed"
      /\ Becomes("M", ctx["M"].at, ctx["M"].op, ctx["M"].bit, ctx["M"].new, Tail(ctx["M"].fns),
                 ctx["M"].pos, ctx["M"].failed)
      /\ UNCHANGED <<dev, attn, irq, current, listen, buffer, ctrl0, holder, life, due, sound,
                     past>>
  <2>1. ctx["M"] \in CtxType  BY DEF Types, Contexts
  <2>2. Tail(ctx["M"].fns) \in Seq(Fns)
    BY <2>1, Passing DEF Types, ConfigF03, Config, At, CtxType
  <2>3. [ctx["M"] EXCEPT !.fns = Tail(ctx["M"].fns)] \in CtxType
    BY <2>1, <2>2 DEF CtxType, Label, Fns
  <2>4. ctx' = [ctx EXCEPT !["M"] = [ctx["M"] EXCEPT !.fns = Tail(ctx["M"].fns)]]
    BY DEF ConfigF03, Config, At
  <2>5. Becomes("M", ctx["M"].at, ctx["M"].op, ctx["M"].bit, ctx["M"].new, Tail(ctx["M"].fns),
                ctx["M"].pos, ctx["M"].failed)
    BY <2>3, <2>4 DEF Types, CtxType, Contexts, Becomes
  <2>. QED  BY <2>5 DEF Types, ConfigF03, Config, At
<1>2. Types'  BY <1>1 DEF Contexts, Becomes, Types
<1>3. Lives'  BY <1>1 DEF Becomes, Lives, Types, Changing
<1>4. Places'  BY <1>1 DEF Becomes, Places, Types, Lives, Changing
<1>5. Probing'  BY <1>1 DEF Becomes, Probing, Types, Lives, Places, Changing
<1>6. Handed'  BY <1>1 DEF Becomes, Handed, Types, Lives, Places
<1>7. Pending'  BY <1>1 DEF Becomes, Pending, Changed, Lives, Places
<1>8. Masks'
  <2>1. ctx["M"].fns \in Seq(Fns)  BY DEF Types, CtxType, Contexts
  <2>2. Left(ctx["M"].fns) = {Head(ctx["M"].fns)} \cup Left(Tail(ctx["M"].fns))
    BY <1>1, <2>1, Passing
  <2>3. life = "probing" /\ "f03" \notin listen /\ ctx["S"].at = "idle"
    BY <1>1 DEF Probing, Lives, Changing, Pending, Places
  <2>4. Todo("f12") <=> Todo("f12")'  BY <1>1, <2>2 DEF Todo, Becomes
  <2>. QED  BY <1>1, <2>3, <2>4 DEF Becomes, Masks, Live, Stale, Todo, Types
<1>9. Awake'  BY <1>1 DEF Becomes, Awake, Types, Lives, Probing
<1>. QED  BY <1>2, <1>3, <1>4, <1>5, <1>6, <1>7, <1>8, <1>9

LEMMA ConfigF03AgainStep ==
  ASSUME Inv, ConfigF03("M"), port # "none"
  PROVE  Inv'
<1>. USE DEF Inv
<1>1. /\ ctx["M"].at = "config"
      /\ ctx["M"].fns # <<>>
      /\ Head(ctx["M"].fns) = "f03"
      /\ port # "none"
      /\ Becomes("M", "lock", "set", "f03", ctx["M"].new, ctx["M"].fns, ctx["M"].pos, FALSE)
      /\ UNCHANGED <<dev, attn, irq, current, listen, buffer, ctrl0, port, holder, life, due,
                     sound, past>>
  <2>1. ctx["M"] \in CtxType  BY DEF Types, Contexts
  <2>2. Order \in Seq(Fns) /\ <<>> \in Seq(Fns)  BY PassAll
  <2>3. [ctx["M"] EXCEPT !.at = "lock", !.op = "set", !.bit = "f03", !.failed = FALSE] \in CtxType
    BY <2>1, <2>2 DEF CtxType, Label, Fns
  <2>4. ctx' = [ctx EXCEPT !["M"] = [ctx["M"] EXCEPT !.at = "lock", !.op = "set", !.bit = "f03",
          !.failed = FALSE]]
    BY DEF ConfigF03, Config, Change, At
  <2>5. Becomes("M", "lock", "set", "f03", ctx["M"].new, ctx["M"].fns, ctx["M"].pos, FALSE)
    BY <2>3, <2>4 DEF Types, CtxType, Contexts, Becomes
  <2>. QED  BY <2>5 DEF Types, ConfigF03, Config, Change, At
<1>2. Types'  BY <1>1 DEF Contexts, Becomes, Types
<1>3. Lives'  BY <1>1 DEF Becomes, Lives, Types, Changing
<1>4. Places'  BY <1>1 DEF Becomes, Places, Types, Lives, Changing
<1>5. Probing'  BY <1>1 DEF Becomes, Probing, Types, Lives, Places, Changing
<1>6. Handed'  BY <1>1 DEF Becomes, Handed, Types, Lives, Places
<1>7. Pending'  BY <1>1 DEF Becomes, Pending, Changed, Lives, Places
<1>8. Masks'  BY <1>1 DEF Becomes, Masks, Live, Stale, Todo, Changed, Lives
<1>9. Awake'  BY <1>1 DEF Becomes, Awake, Types, Lives, Probing
<1>. QED  BY <1>2, <1>3, <1>4, <1>5, <1>6, <1>7, <1>8, <1>9

LEMMA ConfiguredStep ==
  ASSUME Inv, Configured("M")
  PROVE  Inv'
<1>. USE DEF Inv
<1>1. /\ ctx["M"].at = "changed"
      /\ ctx["M"].fns # <<>>
      /\ Becomes("M", "config", ctx["M"].op, ctx["M"].bit, ctx["M"].new, Tail(ctx["M"].fns),
                 ctx["M"].pos, ctx["M"].failed)
      /\ UNCHANGED <<dev, attn, irq, current, listen, buffer, ctrl0, port, holder, life, due,
                     sound, past>>
  <2>1. ctx["M"] \in CtxType  BY DEF Types, Contexts
  <2>2. Tail(ctx["M"].fns) \in Seq(Fns)
    BY <2>1, Passing DEF Types, Configured, At, CtxType
  <2>3. [ctx["M"] EXCEPT !.at = "config", !.fns = Tail(ctx["M"].fns)] \in CtxType
    BY <2>1, <2>2 DEF CtxType, Label, Fns
  <2>4. ctx' = [ctx EXCEPT !["M"] = [ctx["M"] EXCEPT !.at = "config", !.fns = Tail(ctx["M"].fns)]]
    BY DEF Configured, At
  <2>5. Becomes("M", "config", ctx["M"].op, ctx["M"].bit, ctx["M"].new, Tail(ctx["M"].fns),
                ctx["M"].pos, ctx["M"].failed)
    BY <2>3, <2>4 DEF Types, CtxType, Contexts, Becomes
  <2>. QED  BY <2>5 DEF Types, Configured, At
<1>2. Types'  BY <1>1 DEF Contexts, Becomes, Types
<1>3. Lives'  BY <1>1 DEF Becomes, Lives, Types, Changing
<1>4. Places'  BY <1>1 DEF Becomes, Places, Types, Lives, Changing
<1>5. Probing'
  <2>1. ctx["M"].fns \in Seq(Fns)  BY DEF Types, CtxType, Contexts
  <2>2. Left(ctx["M"].fns) = {Head(ctx["M"].fns)} \cup Left(Tail(ctx["M"].fns))
    BY <1>1, <2>1, Passing
  <2>3. life # "removing" /\ ctx["M"].bit = Head(ctx["M"].fns)
        /\ (ctx["M"].bit = "f03" => port # "none")
    BY <1>1 DEF Places, Lives, Changing
  <2>. QED  BY <1>1, <2>2, <2>3 DEF Becomes, Probing, Changing
<1>6. Handed'  BY <1>1 DEF Becomes, Handed, Types, Lives, Places
<1>7. Pending'  BY <1>1 DEF Becomes, Pending, Changed, Lives, Places
<1>8. Masks'  BY <1>1 DEF Becomes, Masks, Live, Stale, Todo, Changed, Lives
<1>9. Awake'  BY <1>1 DEF Becomes, Awake, Types, Lives, Probing
<1>. QED  BY <1>2, <1>3, <1>4, <1>5, <1>6, <1>7, <1>8, <1>9

LEMMA PassEndsStep ==
  ASSUME Inv, PassEnds("M")
  PROVE  Inv'
<1>. USE DEF Inv
<1>1. /\ ctx["M"].at = "config"
      /\ ctx["M"].fns = <<>>
      /\ Goes("M", IF life = "probing" THEN "status" ELSE "enable")
      /\ UNCHANGED <<dev, attn, irq, current, listen, buffer, ctrl0, port, holder, life, due,
                     sound, past>>
  <2>1. Goes("M", IF life = "probing" THEN "status" ELSE "enable")
    BY Gone DEF Types, PassEnds, At, AfterPass, Label, Contexts
  <2>. QED  BY <2>1 DEF Types, PassEnds, At, AfterPass
<1>2. Types'  BY <1>1 DEF Contexts, Becomes, Goes, Types
<1>3. Lives'  BY <1>1 DEF Becomes, Goes, Lives, Types, Changing
<1>4. Places'  BY <1>1 DEF Becomes, Goes, Places, Types, Lives, Changing
<1>5. Probing'
  <2>1. port # "none"  BY <1>1, PassDone DEF Probing, Lives, Changing
  <2>2. life \in {"probing", "resuming"}  BY <1>1 DEF Lives, Changing, Types
  <2>. QED  BY <1>1, <2>1, <2>2 DEF Becomes, Goes, Probing
<1>6. Handed'  BY <1>1 DEF Becomes, Goes, Handed, Types, Lives, Places
<1>7. Pending'  BY <1>1 DEF Becomes, Goes, Pending, Changed, Lives, Places
<1>8. Masks'
  <2>1. \A f : ~Todo(f) /\ ~Todo(f)'  BY <1>1, PassDone DEF Todo, Becomes, Goes
  <2>. QED  BY <1>1, <2>1 DEF Becomes, Goes, Masks, Live, Stale, Changed
<1>9. Awake'  BY <1>1 DEF Becomes, Goes, Awake, Types, Lives, Probing
<1>. QED  BY <1>2, <1>3, <1>4, <1>5, <1>6, <1>7, <1>8, <1>9

LEMMA ReadStatusMStep ==
  ASSUME Inv, ReadStatus("M")
  PROVE  Inv'
<1>. USE DEF Inv
<1>1. /\ ctx["M"].at = "status"
      /\ Goes("M", "and")
      /\ buffer' = dev.status
      /\ due' = due \cup dev.status
      /\ dev' \in DevType
      /\ dev'.mask = dev.mask
      /\ dev'.status = {}
      /\ dev'.mode = dev.mode
      /\ dev'.unconf = dev.unconf
      /\ UNCHANGED <<attn, irq, current, listen, ctrl0, port, holder, life, sound, past>>
  <2>1. Goes("M", "and")
    BY Gone DEF Types, ReadStatus, At, Label, Contexts
  <2>. QED  BY <2>1 DEF Types, ReadStatus, At, DevType
<1>2. Types'
  <2>1. dev.status \in SUBSET Fns /\ dev.mask \in SUBSET Fns  BY DEF Types, DevType
  <2>. QED  BY <1>1, <2>1 DEF Contexts, Becomes, Goes, Types
<1>3. Lives'  BY <1>1 DEF Becomes, Goes, Lives, Types, Changing
<1>4. Places'  BY <1>1 DEF Becomes, Goes, Places, Types, Lives, Changing
<1>5. Probing'  BY <1>1 DEF Becomes, Goes, Probing, Types, Lives, Places, Changing
<1>6. Handed'
  <2>1. life = "probing"  BY <1>1 DEF Lives, Types, Changing
  <2>2. due' = {} /\ buffer' = {} /\ ctx["I"].at = "idle"  BY <1>1, <2>1 DEF Probing
  <2>. QED  BY <1>1, <2>2 DEF Becomes, Goes, Handed
<1>7. Pending'  BY <1>1 DEF Becomes, Goes, Pending, Changed, Lives, Places
<1>8. Masks'  BY <1>1 DEF Becomes, Goes, Masks, Live, Stale, Todo, Changed, Lives
<1>9. Awake'  BY <1>1 DEF Becomes, Goes, Awake, Types, Lives, Probing
<1>. QED  BY <1>2, <1>3, <1>4, <1>5, <1>6, <1>7, <1>8, <1>9

LEMMA ReadStatusFailsMStep ==
  ASSUME Inv, ReadStatusFails("M")
  PROVE  Inv'
<1>. USE DEF Inv
<1>1. /\ ctx["M"].at = "status"
      /\ Goes("M", "quit")
      /\ sound' = FALSE
      /\ past' \in [Events -> Nat]
      /\ UNCHANGED <<dev, attn, irq, current, listen, buffer, ctrl0, port, holder, life, due>>
  <2>1. Goes("M", "quit")
    BY Gone DEF Types, ReadStatusFails, At, Fail, Label, Contexts
  <2>. QED  BY Spent, <2>1 DEF Types, ReadStatusFails, At, Fail, Events
<1>2. Types'  BY <1>1 DEF Contexts, Becomes, Goes, Types
<1>3. Lives'  BY <1>1 DEF Becomes, Goes, Lives, Types, Changing
<1>4. Places'  BY <1>1 DEF Becomes, Goes, Places, Types, Lives, Changing
<1>5. Probing'  BY <1>1 DEF Becomes, Goes, Probing, Types, Lives, Places, Changing
<1>6. Handed'  BY <1>1 DEF Becomes, Goes, Handed, Types, Lives, Places
<1>7. Pending'  BY <1>1 DEF Becomes, Goes, Pending, Changed, Lives, Places
<1>8. Masks'  BY <1>1 DEF Becomes, Goes, Masks, Live, Stale, Todo, Changed, Lives
<1>9. Awake'  BY <1>1 DEF Becomes, Goes, Awake, Types, Lives, Probing
<1>. QED  BY <1>2, <1>3, <1>4, <1>5, <1>6, <1>7, <1>8, <1>9

LEMMA AndListenedMStep ==
  ASSUME Inv, AndListened("M")
  PROVE  Inv'
<1>. USE DEF Inv
<1>1. /\ ctx["M"].at = "and"
      /\ Becomes("M", "nested", ctx["M"].op, ctx["M"].bit, ctx["M"].new, ctx["M"].fns, 1,
                 ctx["M"].failed)
      /\ buffer' = buffer \cap listen
      /\ due' = due \cap listen
      /\ UNCHANGED <<dev, attn, irq, current, listen, ctrl0, port, holder, life, sound, past>>
  <2>1. ctx["M"] \in CtxType  BY DEF Types, Contexts
  <2>2. Order \in Seq(Fns) /\ <<>> \in Seq(Fns)  BY PassAll
  <2>3. [ctx["M"] EXCEPT !.at = "nested", !.pos = 1] \in CtxType
    BY <2>1, <2>2 DEF CtxType, Label, Fns
  <2>4. ctx' = [ctx EXCEPT !["M"] = [ctx["M"] EXCEPT !.at = "nested", !.pos = 1]]
    BY DEF AndListened, At
  <2>5. Becomes("M", "nested", ctx["M"].op, ctx["M"].bit, ctx["M"].new, ctx["M"].fns, 1,
                ctx["M"].failed)
    BY <2>3, <2>4 DEF Types, CtxType, Contexts, Becomes
  <2>. QED  BY <2>5 DEF Types, AndListened, At
<1>2. Types'  BY <1>1 DEF Contexts, Becomes, Types
<1>3. Lives'  BY <1>1 DEF Becomes, Lives, Types, Changing
<1>4. Places'  BY <1>1 DEF Becomes, Places, Types, Lives, Changing
<1>5. Probing'  BY <1>1 DEF Becomes, Probing, Types, Lives, Places, Changing
<1>6. Handed'  BY <1>1 DEF Becomes, Handed, Types, Lives, Places
<1>7. Pending'  BY <1>1 DEF Becomes, Pending, Changed, Lives, Places
<1>8. Masks'  BY <1>1 DEF Becomes, Masks, Live, Stale, Todo, Changed, Lives
<1>9. Awake'  BY <1>1 DEF Becomes, Awake, Types, Lives, Probing
<1>. QED  BY <1>2, <1>3, <1>4, <1>5, <1>6, <1>7, <1>8, <1>9

LEMMA NestedEndsMStep ==
  ASSUME Inv, NestedEnds("M")
  PROVE  Inv'
<1>. USE DEF Inv
<1>1. /\ ctx["M"].at = "nested"
      /\ Rests("M")
      /\ \A i \in ctx["M"].pos .. Len(Order) : Order[i] \notin buffer
      /\ life' = "up"
      /\ UNCHANGED <<dev, attn, irq, current, listen, buffer, ctrl0, port, holder, due, sound,
                     past>>
  <2>1. Rests("M")
    BY Rested DEF Types, NestedEnds, At, Ahead, Done, Label, Contexts
  <2>. QED  BY <2>1 DEF Types, NestedEnds, At, Ahead, Done
<1>2. Types'  BY <1>1 DEF Contexts, Becomes, Rests, Types
<1>3. Lives'  BY <1>1 DEF Becomes, Rests, Lives, Types, Changing
<1>4. Places'  BY <1>1 DEF Becomes, Rests, Places, Types, Lives, Changing
<1>5. Probing'  BY <1>1 DEF Becomes, Rests, Probing, Types, Lives, Places, Changing
<1>6. Handed'  BY <1>1 DEF Becomes, Rests, Handed, Types, Lives, Places
<1>7. Pending'
  <2>1. life = "probing"  BY <1>1 DEF Lives, Types, Changing
  <2>. QED  BY <1>1, <2>1 DEF Becomes, Rests, Pending, Changed
<1>8. Masks'
  <2>1. life = "probing"  BY <1>1 DEF Lives, Types, Changing
  <2>. QED  BY <1>1, <2>1 DEF Becomes, Rests, Masks, Live, Stale, Todo, Changed
<1>9. Awake'
  <2>1. life = "probing"  BY <1>1 DEF Lives, Types, Changing
  <2>. QED  BY <1>1, <2>1 DEF Becomes, Rests, Awake, Probing
<1>. QED  BY <1>2, <1>3, <1>4, <1>5, <1>6, <1>7, <1>8, <1>9

LEMMA ReadStatusIStep ==
  ASSUME Inv, ReadStatus("I")
  PROVE  Inv'
<1>. USE DEF Inv
<1>1. /\ ctx["I"].at = "status"
      /\ Goes("I", "and")
      /\ buffer' = dev.status
      /\ due' = due \cup dev.status
      /\ dev' \in DevType
      /\ dev'.mask = dev.mask
      /\ dev'.status = {}
      /\ dev'.mode = dev.mode
      /\ dev'.unconf = dev.unconf
      /\ UNCHANGED <<attn, irq, current, listen, ctrl0, port, holder, life, sound, past>>
  <2>1. Goes("I", "and")
    BY Gone DEF Types, ReadStatus, At, Label, Contexts
  <2>. QED  BY <2>1 DEF Types, ReadStatus, At, DevType
<1>2. Types'
  <2>1. dev.status \in SUBSET Fns /\ dev.mask \in SUBSET Fns  BY DEF Types, DevType
  <2>. QED  BY <1>1, <2>1 DEF Contexts, Becomes, Goes, Types
<1>3. Lives'  BY <1>1 DEF Becomes, Goes, Lives, Types, Changing
<1>4. Places'  BY <1>1 DEF Becomes, Goes, Places, Types, Lives, Changing
<1>5. Probing'  BY <1>1 DEF Becomes, Goes, Probing, Types, Lives, Places, Changing
<1>6. Handed'  BY <1>1 DEF Becomes, Goes, Handed, Types, Lives, Places
<1>7. Pending'  BY <1>1 DEF Becomes, Goes, Pending, Changed, Lives, Places
<1>8. Masks'  BY <1>1 DEF Becomes, Goes, Masks, Live, Stale, Todo, Changed, Lives
<1>9. Awake'  BY <1>1 DEF Becomes, Goes, Awake, Types, Lives, Probing
<1>. QED  BY <1>2, <1>3, <1>4, <1>5, <1>6, <1>7, <1>8, <1>9

LEMMA ReadStatusFailsIStep ==
  ASSUME Inv, ReadStatusFails("I")
  PROVE  Inv'
<1>. USE DEF Inv
<1>1. /\ ctx["I"].at = "status"
      /\ Rests("I")
      /\ sound' = FALSE
      /\ past' \in [Events -> Nat]
      /\ UNCHANGED <<dev, attn, irq, current, listen, buffer, ctrl0, port, holder, life, due>>
  <2>1. Rests("I")
    BY Rested DEF Types, ReadStatusFails, At, Fail, Label, Contexts
  <2>. QED  BY Spent, <2>1 DEF Types, ReadStatusFails, At, Fail, Events
<1>2. Types'  BY <1>1 DEF Contexts, Becomes, Rests, Types
<1>3. Lives'  BY <1>1 DEF Becomes, Rests, Lives, Types, Changing
<1>4. Places'  BY <1>1 DEF Becomes, Rests, Places, Types, Lives, Changing
<1>5. Probing'  BY <1>1 DEF Becomes, Rests, Probing, Types, Lives, Places, Changing
<1>6. Handed'  BY <1>1 DEF Becomes, Rests, Handed, Types, Lives, Places
<1>7. Pending'  BY <1>1 DEF Becomes, Rests, Pending, Changed, Lives, Places
<1>8. Masks'  BY <1>1 DEF Becomes, Rests, Masks, Live, Stale, Todo, Changed, Lives
<1>9. Awake'  BY <1>1 DEF Becomes, Rests, Awake, Types, Lives, Probing
<1>. QED  BY <1>2, <1>3, <1>4, <1>5, <1>6, <1>7, <1>8, <1>9

LEMMA AndListenedIStep ==
  ASSUME Inv, AndListened("I")
  PROVE  Inv'
<1>. USE DEF Inv
<1>1. /\ ctx["I"].at = "and"
      /\ Becomes("I", "nested", ctx["I"].op, ctx["I"].bit, ctx["I"].new, ctx["I"].fns, 1,
                 ctx["I"].failed)
      /\ buffer' = buffer \cap listen
      /\ due' = due \cap listen
      /\ UNCHANGED <<dev, attn, irq, current, listen, ctrl0, port, holder, life, sound, past>>
  <2>1. ctx["I"] \in CtxType  BY DEF Types, Contexts
  <2>2. Order \in Seq(Fns) /\ <<>> \in Seq(Fns)  BY PassAll
  <2>3. [ctx["I"] EXCEPT !.at = "nested", !.pos = 1] \in CtxType
    BY <2>1, <2>2 DEF CtxType, Label, Fns
  <2>4. ctx' = [ctx EXCEPT !["I"] = [ctx["I"] EXCEPT !.at = "nested", !.pos = 1]]
    BY DEF AndListened, At
  <2>5. Becomes("I", "nested", ctx["I"].op, ctx["I"].bit, ctx["I"].new, ctx["I"].fns, 1,
                ctx["I"].failed)
    BY <2>3, <2>4 DEF Types, CtxType, Contexts, Becomes
  <2>. QED  BY <2>5 DEF Types, AndListened, At
<1>2. Types'  BY <1>1 DEF Contexts, Becomes, Types
<1>3. Lives'  BY <1>1 DEF Becomes, Lives, Types, Changing
<1>4. Places'  BY <1>1 DEF Becomes, Places, Types, Lives, Changing
<1>5. Probing'  BY <1>1 DEF Becomes, Probing, Types, Lives, Places, Changing
<1>6. Handed'
  <2>1. due' \subseteq buffer' /\ "f01" \notin buffer'  BY <1>1 DEF Handed, Types
  <2>2. due' \subseteq {Order[i] : i \in 1 .. Len(Order)}  BY <1>1, PassAll DEF Left, Types
  <2>. QED  BY <1>1, <2>1, <2>2 DEF Becomes, Handed
<1>7. Pending'  BY <1>1 DEF Becomes, Pending, Changed, Lives, Places
<1>8. Masks'  BY <1>1 DEF Becomes, Masks, Live, Stale, Todo, Changed, Lives
<1>9. Awake'  BY <1>1 DEF Becomes, Awake, Types, Lives, Probing
<1>. QED  BY <1>2, <1>3, <1>4, <1>5, <1>6, <1>7, <1>8, <1>9

LEMMA NestedEndsIStep ==
  ASSUME Inv, NestedEnds("I")
  PROVE  Inv'
<1>. USE DEF Inv
<1>1. /\ ctx["I"].at = "nested"
      /\ Rests("I")
      /\ \A i \in ctx["I"].pos .. Len(Order) : Order[i] \notin buffer
      /\ UNCHANGED <<dev, attn, irq, current, listen, buffer, ctrl0, port, holder, life, due,
                     sound, past>>
  <2>1. Rests("I")
    BY Rested DEF Types, NestedEnds, At, Ahead, Done, Label, Contexts
  <2>. QED  BY <2>1 DEF Types, NestedEnds, At, Ahead, Done
<1>2. Types'  BY <1>1 DEF Contexts, Becomes, Rests, Types
<1>3. Lives'  BY <1>1 DEF Becomes, Rests, Lives, Types, Changing
<1>4. Places'  BY <1>1 DEF Becomes, Rests, Places, Types, Lives, Changing
<1>5. Probing'  BY <1>1 DEF Becomes, Rests, Probing, Types, Lives, Places, Changing
<1>6. Handed'  BY <1>1 DEF Becomes, Rests, Handed, Types, Lives, Places
<1>7. Pending'  BY <1>1 DEF Becomes, Rests, Pending, Changed, Lives, Places
<1>8. Masks'  BY <1>1 DEF Becomes, Rests, Masks, Live, Stale, Todo, Changed, Lives
<1>9. Awake'  BY <1>1 DEF Becomes, Rests, Awake, Types, Lives, Probing
<1>. QED  BY <1>2, <1>3, <1>4, <1>5, <1>6, <1>7, <1>8, <1>9

LEMMA InterruptStep ==
  ASSUME Inv, Interrupt
  PROVE  Inv'
<1>. USE DEF Inv
<1>1. /\ ctx["I"].at = "idle"
      /\ irq = "on"
      /\ attn
      /\ attn' = FALSE
      /\ Goes("I", "status")
      /\ UNCHANGED <<dev, irq, current, listen, buffer, ctrl0, port, holder, life, due, sound,
                     past>>
  <2>1. Goes("I", "status")
    BY Gone DEF Types, Interrupt, Idle, At, Label, Contexts
  <2>. QED  BY <2>1 DEF Types, Interrupt, Idle, At
<1>2. Types'  BY <1>1 DEF Contexts, Becomes, Goes, Types
<1>3. Lives'  BY <1>1 DEF Becomes, Goes, Lives, Types, Changing
<1>4. Places'  BY <1>1 DEF Becomes, Goes, Places, Types, Lives, Changing
<1>5. Probing'  BY <1>1 DEF Becomes, Goes, Probing, Types, Lives, Places, Changing
<1>6. Handed'  BY <1>1 DEF Becomes, Goes, Handed, Types, Lives, Places
<1>7. Pending'  BY <1>1 DEF Becomes, Goes, Pending, Changed, Lives, Places
<1>8. Masks'  BY <1>1 DEF Becomes, Goes, Masks, Live, Stale, Todo, Changed, Lives
<1>9. Awake'  BY <1>1 DEF Becomes, Goes, Awake, Types, Lives, Probing
<1>. QED  BY <1>2, <1>3, <1>4, <1>5, <1>6, <1>7, <1>8, <1>9

LEMMA OpenStep ==
  ASSUME Inv, Open
  PROVE  Inv'
<1>. USE DEF Inv
<1>1. /\ ctx["S"].at = "idle"
      /\ port = "closed"
      /\ Becomes("S", "lock", "set", "f03", ctx["S"].new, ctx["S"].fns, ctx["S"].pos, FALSE)
      /\ UNCHANGED <<dev, attn, irq, current, listen, buffer, ctrl0, port, holder, life, due,
                     sound, past>>
  <2>1. ctx["S"] \in CtxType  BY DEF Types, Contexts
  <2>2. Order \in Seq(Fns) /\ <<>> \in Seq(Fns)  BY PassAll
  <2>3. [ctx["S"] EXCEPT !.at = "lock", !.op = "set", !.bit = "f03", !.failed = FALSE] \in CtxType
    BY <2>1, <2>2 DEF CtxType, Label, Fns
  <2>4. ctx' = [ctx EXCEPT !["S"] = [ctx["S"] EXCEPT !.at = "lock", !.op = "set", !.bit = "f03",
          !.failed = FALSE]]
    BY DEF Open, Idle, At, Change
  <2>5. Becomes("S", "lock", "set", "f03", ctx["S"].new, ctx["S"].fns, ctx["S"].pos, FALSE)
    BY <2>3, <2>4 DEF Types, CtxType, Contexts, Becomes
  <2>. QED  BY <2>5 DEF Types, Open, Idle, At, Change
<1>2. Types'  BY <1>1 DEF Contexts, Becomes, Types
<1>3. Lives'  BY <1>1 DEF Becomes, Lives, Types, Changing
<1>4. Places'  BY <1>1 DEF Becomes, Places, Types, Lives, Changing
<1>5. Probing'  BY <1>1 DEF Becomes, Probing, Types, Lives, Places, Changing
<1>6. Handed'  BY <1>1 DEF Becomes, Handed, Types, Lives, Places
<1>7. Pending'  BY <1>1 DEF Becomes, Pending, Changed, Lives, Places
<1>8. Masks'  BY <1>1 DEF Becomes, Masks, Live, Stale, Todo, Changed, Lives
<1>9. Awake'  BY <1>1 DEF Becomes, Awake, Types, Lives, Probing
<1>. QED  BY <1>2, <1>3, <1>4, <1>5, <1>6, <1>7, <1>8, <1>9

LEMMA CloseStep ==
  ASSUME Inv, Close
  PROVE  Inv'
<1>. USE DEF Inv
<1>1. /\ ctx["S"].at = "idle"
      /\ port = "open"
      /\ Becomes("S", "lock", "clear", "f03", ctx["S"].new, ctx["S"].fns, ctx["S"].pos, FALSE)
      /\ UNCHANGED <<dev, attn, irq, current, listen, buffer, ctrl0, port, holder, life, due,
                     sound, past>>
  <2>1. ctx["S"] \in CtxType  BY DEF Types, Contexts
  <2>2. Order \in Seq(Fns) /\ <<>> \in Seq(Fns)  BY PassAll
  <2>3. [ctx["S"] EXCEPT !.at = "lock", !.op = "clear", !.bit = "f03",
          !.failed = FALSE] \in CtxType
    BY <2>1, <2>2 DEF CtxType, Label, Fns
  <2>4. ctx' = [ctx EXCEPT !["S"] = [ctx["S"] EXCEPT !.at = "lock", !.op = "clear",
          !.bit = "f03", !.failed = FALSE]]
    BY DEF Close, Idle, At, Change
  <2>5. Becomes("S", "lock", "clear", "f03", ctx["S"].new, ctx["S"].fns, ctx["S"].pos, FALSE)
    BY <2>3, <2>4 DEF Types, CtxType, Contexts, Becomes
  <2>. QED  BY <2>5 DEF Types, Close, Idle, At, Change
<1>2. Types'  BY <1>1 DEF Contexts, Becomes, Types
<1>3. Lives'  BY <1>1 DEF Becomes, Lives, Types, Changing
<1>4. Places'  BY <1>1 DEF Becomes, Places, Types, Lives, Changing
<1>5. Probing'  BY <1>1 DEF Becomes, Probing, Types, Lives, Places, Changing
<1>6. Handed'  BY <1>1 DEF Becomes, Handed, Types, Lives, Places
<1>7. Pending'  BY <1>1 DEF Becomes, Pending, Changed, Lives, Places
<1>8. Masks'  BY <1>1 DEF Becomes, Masks, Live, Stale, Todo, Changed, Lives
<1>9. Awake'  BY <1>1 DEF Becomes, Awake, Types, Lives, Probing
<1>. QED  BY <1>2, <1>3, <1>4, <1>5, <1>6, <1>7, <1>8, <1>9

LEMMA PortChangedStep ==
  ASSUME Inv, PortChanged
  PROVE  Inv'
<1>. USE DEF Inv
<1>1. /\ ctx["S"].at = "changed"
      /\ port' = IF ctx["S"].op = "set" /\ ~ctx["S"].failed THEN "open" ELSE "closed"
      /\ Rests("S")
      /\ UNCHANGED <<dev, attn, irq, current, listen, buffer, ctrl0, holder, life, due, sound,
                     past>>
  <2>1. Rests("S")
    BY Rested DEF Types, PortChanged, At, Label, Contexts
  <2>. QED  BY <2>1 DEF Types, PortChanged, At
<1>2. Types'  BY <1>1 DEF Contexts, Becomes, Rests, Types
<1>3. Lives'
  <2>1. life # "off" /\ ~(life = "removing" /\ ctx["M"].at \in Changing)
    BY <1>1 DEF Lives, Places, Types
  <2>. QED  BY <1>1, <2>1 DEF Becomes, Rests, Lives
<1>4. Places'  BY <1>1 DEF Becomes, Rests, Places, Types, Lives, Changing
<1>5. Probing'  BY <1>1 DEF Becomes, Rests, Probing, Types, Lives, Places, Changing
<1>6. Handed'  BY <1>1 DEF Becomes, Rests, Handed, Types, Lives, Places
<1>7. Pending'  BY <1>1 DEF Becomes, Rests, Pending, Changed, Lives, Places
<1>8. Masks'  BY <1>1 DEF Becomes, Rests, Masks, Live, Stale, Todo, Changed, Lives
<1>9. Awake'  BY <1>1 DEF Becomes, Rests, Awake, Types, Lives, Probing
<1>. QED  BY <1>2, <1>3, <1>4, <1>5, <1>6, <1>7, <1>8, <1>9

LEMMA CreateStep ==
  ASSUME Inv, Create
  PROVE  Inv'
<1>. USE DEF Inv
<1>1. /\ life = "off"
      /\ ctx["M"].at = "idle"
      /\ life' = "probing"
      /\ sound' = TRUE
      /\ ctrl0' = "normal"
      /\ current' = dev.mask
      /\ Goes("M", "request")
      /\ dev' \in DevType
      /\ dev'.mask = dev.mask
      /\ dev'.status = {}
      /\ dev'.mode = "normal"
      /\ dev'.unconf = FALSE
      /\ UNCHANGED <<attn, irq, listen, buffer, port, holder, due, past>>
  <2>1. Goes("M", "request")
    BY Gone DEF Types, Create, Idle, At, Label, Contexts
  <2>. QED  BY <2>1 DEF Types, Create, Idle, At, DevType
<1>2. Types'
  <2>1. dev.status \in SUBSET Fns /\ dev.mask \in SUBSET Fns  BY DEF Types, DevType
  <2>. QED  BY <1>1, <2>1 DEF Contexts, Becomes, Goes, Types
<1>3. Lives'  BY <1>1 DEF Becomes, Goes, Lives, Types, Changing
<1>4. Places'  BY <1>1 DEF Becomes, Goes, Places, Types, Lives, Changing
<1>5. Probing'  BY <1>1 DEF Becomes, Goes, Probing, Types, Lives, Places, Changing
<1>6. Handed'  BY <1>1 DEF Becomes, Goes, Handed, Types, Lives, Places
<1>7. Pending'  BY <1>1 DEF Becomes, Goes, Pending, Changed, Lives, Places
<1>8. Masks'
  <2>1. listen = {} /\ ctx["S"].at = "idle"  BY <1>1 DEF Lives, Places
  <2>2. Todo("f12")'  BY <1>1 DEF Becomes, Goes, Todo
  <2>. QED  BY <1>1, <2>1, <2>2 DEF Becomes, Goes, Masks
<1>9. Awake'  BY <1>1 DEF Becomes, Goes, Awake, Types, Lives, Probing
<1>. QED  BY <1>2, <1>3, <1>4, <1>5, <1>6, <1>7, <1>8, <1>9

LEMMA RequestStep ==
  ASSUME Inv, Request
  PROVE  Inv'
<1>. USE DEF Inv
<1>1. /\ ctx["M"].at = "request"
      /\ irq' = "on"
      /\ attn' = FALSE
      /\ Becomes("M", "config", ctx["M"].op, ctx["M"].bit, {}, Order, ctx["M"].pos,
                 ctx["M"].failed)
      /\ UNCHANGED <<dev, current, listen, buffer, ctrl0, port, holder, life, due, sound, past>>
  <2>1. ctx["M"] \in CtxType  BY DEF Types, Contexts
  <2>2. Order \in Seq(Fns) /\ <<>> \in Seq(Fns)  BY PassAll
  <2>3. [ctx["M"] EXCEPT !.at = "config", !.new = {}, !.fns = Order] \in CtxType
    BY <2>1, <2>2 DEF CtxType, Label, Fns
  <2>4. ctx' = [ctx EXCEPT !["M"] = [ctx["M"] EXCEPT !.at = "config", !.new = {}, !.fns = Order]]
    BY DEF Request, At, Pass
  <2>5. Becomes("M", "config", ctx["M"].op, ctx["M"].bit, {}, Order, ctx["M"].pos,
                ctx["M"].failed)
    BY <2>3, <2>4 DEF Types, CtxType, Contexts, Becomes
  <2>. QED  BY <2>5 DEF Types, Request, At, Pass
<1>2. Types'  BY <1>1 DEF Contexts, Becomes, Types
<1>3. Lives'  BY <1>1 DEF Becomes, Lives, Types, Changing
<1>4. Places'  BY <1>1 DEF Becomes, Places, Types, Lives, Changing
<1>5. Probing'
  <2>1. life = "probing"  BY <1>1 DEF Lives, Types, Changing
  <2>2. "f03" \in Left(Order)  BY PassAll DEF Fns
  <2>. QED  BY <1>1, <2>1, <2>2 DEF Becomes, Probing, Changing
<1>6. Handed'  BY <1>1 DEF Becomes, Handed, Types, Lives, Places
<1>7. Pending'  BY <1>1 DEF Becomes, Pending, Changed, Lives, Places
<1>8. Masks'
  <2>1. life = "probing"  BY <1>1 DEF Lives, Types, Changing
  <2>2. \A f \in {"f03", "f12"} : Todo(f) /\ Todo(f)'
    BY <1>1, <2>1, PassAll DEF Becomes, Todo, Fns
  <2>. QED  BY <1>1, <2>1, <2>2 DEF Becomes, Masks, Live, Stale, Changed, Types
<1>9. Awake'  BY <1>1 DEF Becomes, Awake, Types, Lives, Probing
<1>. QED  BY <1>2, <1>3, <1>4, <1>5, <1>6, <1>7, <1>8, <1>9

LEMMA SuspendStep ==
  ASSUME Inv, Suspend
  PROVE  Inv'
<1>. USE DEF Inv
<1>1. /\ life = "up"
      /\ ctx["M"].at = "idle"
      /\ life' = "suspending"
      /\ ctrl0' = "sleep"
      /\ past' \in [Events -> Nat]
      /\ Goes("M", "disable")
      /\ dev' \in DevType
      /\ dev'.mask = dev.mask
      /\ dev'.status = dev.status
      /\ dev'.mode = "sleep"
      /\ dev'.unconf = dev.unconf
      /\ UNCHANGED <<attn, irq, current, listen, buffer, port, holder, due, sound>>
  <2>1. Goes("M", "disable")
    BY Gone DEF Types, Suspend, Idle, At, Label, Contexts
  <2>. QED  BY Spent, <2>1 DEF Types, Suspend, Idle, At, DevType, Events
<1>2. Types'  BY <1>1 DEF Contexts, Becomes, Goes, Types
<1>3. Lives'  BY <1>1 DEF Becomes, Goes, Lives, Types, Changing
<1>4. Places'  BY <1>1 DEF Becomes, Goes, Places, Types, Lives, Changing
<1>5. Probing'  BY <1>1 DEF Becomes, Goes, Probing, Types, Lives, Places, Changing
<1>6. Handed'  BY <1>1 DEF Becomes, Goes, Handed, Types, Lives, Places
<1>7. Pending'  BY <1>1 DEF Becomes, Goes, Pending, Changed, Lives, Places
<1>8. Masks'  BY <1>1 DEF Becomes, Goes, Masks, Live, Stale, Todo, Changed, Lives
<1>9. Awake'  BY <1>1 DEF Becomes, Goes, Awake, Types, Lives, Probing
<1>. QED  BY <1>2, <1>3, <1>4, <1>5, <1>6, <1>7, <1>8, <1>9

LEMMA SuspendFailsStep ==
  ASSUME Inv, SuspendFails
  PROVE  Inv'
<1>. USE DEF Inv
<1>1. /\ life = "up"
      /\ ctx["M"].at = "idle"
      /\ life' = "aborting"
      /\ ctrl0' = "normal"
      /\ past' \in [Events -> Nat]
      /\ sound' = FALSE
      /\ Goes("M", "disable")
      /\ UNCHANGED <<dev, attn, irq, current, listen, buffer, port, holder, due>>
  <2>1. Goes("M", "disable")
    BY Gone DEF Types, SuspendFails, Idle, At, Fail, Label, Contexts
  <2>. QED  BY Spent, <2>1 DEF Types, SuspendFails, Idle, At, Fail, Events
<1>2. Types'  BY <1>1 DEF Contexts, Becomes, Goes, Types
<1>3. Lives'  BY <1>1 DEF Becomes, Goes, Lives, Types, Changing
<1>4. Places'  BY <1>1 DEF Becomes, Goes, Places, Types, Lives, Changing
<1>5. Probing'  BY <1>1 DEF Becomes, Goes, Probing, Types, Lives, Places, Changing
<1>6. Handed'  BY <1>1 DEF Becomes, Goes, Handed, Types, Lives, Places
<1>7. Pending'  BY <1>1 DEF Becomes, Goes, Pending, Changed, Lives, Places
<1>8. Masks'  BY <1>1 DEF Becomes, Goes, Masks, Live, Stale, Todo, Changed, Lives
<1>9. Awake'  BY <1>1 DEF Becomes, Goes, Awake, Types, Lives, Probing
<1>. QED  BY <1>2, <1>3, <1>4, <1>5, <1>6, <1>7, <1>8, <1>9

LEMMA UnbindStep ==
  ASSUME Inv, Unbind
  PROVE  Inv'
<1>. USE DEF Inv
<1>1. /\ life = "up"
      /\ ctx["M"].at = "idle"
      /\ life' = "removing"
      /\ past' \in [Events -> Nat]
      /\ Goes("M", "disable")
      /\ UNCHANGED <<dev, attn, irq, current, listen, buffer, ctrl0, port, holder, due, sound>>
  <2>1. Goes("M", "disable")
    BY Gone DEF Types, Unbind, Idle, At, Label, Contexts
  <2>. QED  BY Spent, <2>1 DEF Types, Unbind, Idle, At, Events
<1>2. Types'  BY <1>1 DEF Contexts, Becomes, Goes, Types
<1>3. Lives'  BY <1>1 DEF Becomes, Goes, Lives, Types, Changing
<1>4. Places'  BY <1>1 DEF Becomes, Goes, Places, Types, Lives, Changing
<1>5. Probing'  BY <1>1 DEF Becomes, Goes, Probing, Types, Lives, Places, Changing
<1>6. Handed'  BY <1>1 DEF Becomes, Goes, Handed, Types, Lives, Places
<1>7. Pending'  BY <1>1 DEF Becomes, Goes, Pending, Changed, Lives, Places
<1>8. Masks'  BY <1>1 DEF Becomes, Goes, Masks, Live, Stale, Todo, Changed, Lives
<1>9. Awake'  BY <1>1 DEF Becomes, Goes, Awake, Types, Lives, Probing
<1>. QED  BY <1>2, <1>3, <1>4, <1>5, <1>6, <1>7, <1>8, <1>9

LEMMA QuitStep ==
  ASSUME Inv, Quit
  PROVE  Inv'
<1>. USE DEF Inv
<1>1. /\ ctx["M"].at = "quit"
      /\ life' = "removing"
      /\ Goes("M", "disable")
      /\ UNCHANGED <<dev, attn, irq, current, listen, buffer, ctrl0, port, holder, due, sound,
                     past>>
  <2>1. Goes("M", "disable")
    BY Gone DEF Types, Quit, At, Label, Contexts
  <2>. QED  BY <2>1 DEF Types, Quit, At
<1>2. Types'  BY <1>1 DEF Contexts, Becomes, Goes, Types
<1>3. Lives'  BY <1>1 DEF Becomes, Goes, Lives, Types, Changing
<1>4. Places'  BY <1>1 DEF Becomes, Goes, Places, Types, Lives, Changing
<1>5. Probing'  BY <1>1 DEF Becomes, Goes, Probing, Types, Lives, Places, Changing
<1>6. Handed'  BY <1>1 DEF Becomes, Goes, Handed, Types, Lives, Places
<1>7. Pending'  BY <1>1 DEF Becomes, Goes, Pending, Changed, Lives, Places
<1>8. Masks'  BY <1>1 DEF Becomes, Goes, Masks, Live, Stale, Todo, Changed, Lives
<1>9. Awake'  BY <1>1 DEF Becomes, Goes, Awake, Types, Lives, Probing
<1>. QED  BY <1>2, <1>3, <1>4, <1>5, <1>6, <1>7, <1>8, <1>9

LEMMA DisableStep ==
  ASSUME Inv, Disable
  PROVE  Inv'
<1>. USE DEF Inv
<1>1. /\ ctx["M"].at = "disable"
      /\ irq' = "off"
      /\ Goes("M", "sync")
      /\ UNCHANGED <<dev, attn, current, listen, buffer, ctrl0, port, holder, life, due, sound,
                     past>>
  <2>1. Goes("M", "sync")
    BY Gone DEF Types, Disable, At, Label, Contexts
  <2>. QED  BY <2>1 DEF Types, Disable, At
<1>2. Types'  BY <1>1 DEF Contexts, Becomes, Goes, Types
<1>3. Lives'  BY <1>1 DEF Becomes, Goes, Lives, Types, Changing
<1>4. Places'  BY <1>1 DEF Becomes, Goes, Places, Types, Lives, Changing
<1>5. Probing'  BY <1>1 DEF Becomes, Goes, Probing, Types, Lives, Places, Changing
<1>6. Handed'  BY <1>1 DEF Becomes, Goes, Handed, Types, Lives, Places
<1>7. Pending'  BY <1>1 DEF Becomes, Goes, Pending, Changed, Lives, Places
<1>8. Masks'  BY <1>1 DEF Becomes, Goes, Masks, Live, Stale, Todo, Changed, Lives
<1>9. Awake'  BY <1>1 DEF Becomes, Goes, Awake, Types, Lives, Probing
<1>. QED  BY <1>2, <1>3, <1>4, <1>5, <1>6, <1>7, <1>8, <1>9

LEMMA SyncRemovingStep ==
  ASSUME Inv, Sync, life = "removing"
  PROVE  Inv'
<1>. USE DEF Inv
<1>1. /\ ctx["M"].at = "sync"
      /\ ctx["I"].at = "idle"
      /\ life = "removing"
      /\ life' = life
      /\ Goes("M", "free")
      /\ UNCHANGED <<dev, attn, irq, current, listen, buffer, ctrl0, port, holder, due, sound,
                     past>>
  <2>1. Goes("M", "free")
    BY Gone DEF Types, Sync, Disabled, Idle, At, Label, Contexts
  <2>. QED  BY <2>1 DEF Types, Sync, Disabled, Idle, At
<1>2. Types'  BY <1>1 DEF Contexts, Becomes, Goes, Types
<1>3. Lives'  BY <1>1 DEF Becomes, Goes, Lives, Types, Changing
<1>4. Places'  BY <1>1 DEF Becomes, Goes, Places, Types, Lives, Changing
<1>5. Probing'  BY <1>1 DEF Becomes, Goes, Probing, Types, Lives, Places, Changing
<1>6. Handed'  BY <1>1 DEF Becomes, Goes, Handed, Types, Lives, Places
<1>7. Pending'  BY <1>1 DEF Becomes, Goes, Pending, Changed, Lives, Places
<1>8. Masks'  BY <1>1 DEF Becomes, Goes, Masks, Live, Stale, Todo, Changed, Lives
<1>9. Awake'  BY <1>1 DEF Becomes, Goes, Awake, Types, Lives, Probing
<1>. QED  BY <1>2, <1>3, <1>4, <1>5, <1>6, <1>7, <1>8, <1>9

LEMMA SyncSleepingStep ==
  ASSUME Inv, Sync, life # "removing"
  PROVE  Inv'
<1>. USE DEF Inv
<1>1. /\ ctx["M"].at = "sync"
      /\ ctx["I"].at = "idle"
      /\ life \in {"suspending", "aborting"}
      /\ life' = IF life = "suspending" THEN "asleep" ELSE "up"
      /\ Rests("M")
      /\ UNCHANGED <<dev, attn, irq, current, listen, buffer, ctrl0, port, holder, due, sound,
                     past>>
  <2>1. ctx["M"].at = "sync" /\ ctx["I"].at = "idle" /\ life \in {"suspending", "aborting"}
    BY DEF Sync, Disabled, Idle, At, Lives, Contexts, Changing, Types
  <2>2. Go("M", "idle")  BY DEF Sync, Disabled
  <2>3. Rests("M")
    BY <2>2, Rested DEF Types, Contexts
  <2>. QED  BY <2>1, <2>3 DEF Sync, Disabled
<1>2. Types'  BY <1>1 DEF Contexts, Becomes, Rests, Types
<1>3. Lives'  BY <1>1 DEF Becomes, Rests, Lives, Types, Changing
<1>4. Places'  BY <1>1 DEF Becomes, Rests, Places, Types, Lives, Changing
<1>5. Probing'  BY <1>1 DEF Becomes, Rests, Probing, Types, Lives, Places, Changing
<1>6. Handed'  BY <1>1 DEF Becomes, Rests, Handed, Types, Lives, Places
<1>7. Pending'  BY <1>1 DEF Becomes, Rests, Pending, Changed, Lives, Places
<1>8. Masks'  BY <1>1 DEF Becomes, Rests, Masks, Live, Stale, Todo, Changed, Lives
<1>9. Awake'  BY <1>1 DEF Becomes, Rests, Awake, Types, Lives, Probing
<1>. QED  BY <1>2, <1>3, <1>4, <1>5, <1>6, <1>7, <1>8, <1>9

LEMMA WakeStep ==
  ASSUME Inv, Wake
  PROVE  Inv'
<1>. USE DEF Inv
<1>1. /\ life = "asleep"
      /\ ctx["M"].at = "idle"
      /\ life' = "resuming"
      /\ Goes("M", "mask")
      /\ dev' \in DevType
      /\ attn' \in BOOLEAN
      /\ sound' \in BOOLEAN
      /\ (~sound' \/ (dev' = dev /\ sound' = sound))
      /\ UNCHANGED <<irq, current, listen, buffer, ctrl0, port, holder, due, past>>
  <2>1. ctx["M"].at = "idle" /\ Goes("M", "mask")
    BY Gone DEF Types, Wake, Idle, At, Label, Contexts
  <2>2. CASE IsReset
    <3>1. Fresh \in DevType  BY DefaultAssumption DEF Fresh, DevType, Fns
    <3>. QED  BY <2>1, <2>2, <3>1 DEF Wake, IsReset, Types
  <2>3. CASE UNCHANGED <<dev, attn, sound>>
    BY <2>1, <2>3 DEF Wake, Types
  <2>. QED  BY <2>2, <2>3 DEF Wake
<1>2. Types'  BY <1>1 DEF Contexts, Becomes, Goes, Types
<1>3. Lives'  BY <1>1 DEF Becomes, Goes, Lives, Types, Changing
<1>4. Places'  BY <1>1 DEF Becomes, Goes, Places, Types, Lives, Changing
<1>5. Probing'  BY <1>1 DEF Becomes, Goes, Probing, Types, Lives, Places, Changing
<1>6. Handed'  BY <1>1 DEF Becomes, Goes, Handed, Types, Lives, Places
<1>7. Pending'  BY <1>1 DEF Becomes, Goes, Pending, Changed, Lives, Places
<1>8. Masks'  BY <1>1 DEF Becomes, Goes, Masks, Live, Stale, Todo, Changed, Lives
<1>9. Awake'  BY <1>1 DEF Becomes, Goes, Awake, Types, Lives, Probing
<1>. QED  BY <1>2, <1>3, <1>4, <1>5, <1>6, <1>7, <1>8, <1>9

LEMMA EnableStep ==
  ASSUME Inv, Enable
  PROVE  Inv'
<1>. USE DEF Inv
<1>1. /\ ctx["M"].at = "enable"
      /\ irq' = "on"
      /\ Goes("M", "wake")
      /\ UNCHANGED <<dev, attn, current, listen, buffer, ctrl0, port, holder, life, due, sound,
                     past>>
  <2>1. Goes("M", "wake")
    BY Gone DEF Types, Enable, At, Label, Contexts
  <2>. QED  BY <2>1 DEF Types, Enable, At
<1>2. Types'  BY <1>1 DEF Contexts, Becomes, Goes, Types
<1>3. Lives'  BY <1>1 DEF Becomes, Goes, Lives, Types, Changing
<1>4. Places'  BY <1>1 DEF Becomes, Goes, Places, Types, Lives, Changing
<1>5. Probing'  BY <1>1 DEF Becomes, Goes, Probing, Types, Lives, Places, Changing
<1>6. Handed'  BY <1>1 DEF Becomes, Goes, Handed, Types, Lives, Places
<1>7. Pending'  BY <1>1 DEF Becomes, Goes, Pending, Changed, Lives, Places
<1>8. Masks'  BY <1>1 DEF Becomes, Goes, Masks, Live, Stale, Todo, Changed, Lives
<1>9. Awake'  BY <1>1 DEF Becomes, Goes, Awake, Types, Lives, Probing
<1>. QED  BY <1>2, <1>3, <1>4, <1>5, <1>6, <1>7, <1>8, <1>9

LEMMA WakeF01Step ==
  ASSUME Inv, WakeF01
  PROVE  Inv'
<1>. USE DEF Inv
<1>1. /\ ctx["M"].at = "wake"
      /\ life' = "up"
      /\ ctrl0' = "normal"
      /\ Rests("M")
      /\ dev' \in DevType
      /\ dev'.mask = dev.mask
      /\ dev'.status = dev.status
      /\ past' \in [Events -> Nat]
      /\ sound' \in BOOLEAN
      /\ (~sound' \/ (sound' = sound /\ dev'.mode = "normal" /\ dev'.unconf = FALSE))
      /\ UNCHANGED <<attn, irq, current, listen, buffer, port, holder, due>>
  <2>1. Rests("M")
    BY Rested DEF Types, WakeF01, At, Fail, Label, Contexts
  <2>. QED  BY Spent, <2>1 DEF Types, WakeF01, At, Fail, DevType, Events
<1>2. Types'  BY <1>1 DEF Contexts, Becomes, Rests, Types
<1>3. Lives'  BY <1>1 DEF Becomes, Rests, Lives, Types, Changing
<1>4. Places'  BY <1>1 DEF Becomes, Rests, Places, Types, Lives, Changing
<1>5. Probing'  BY <1>1 DEF Becomes, Rests, Probing, Types, Lives, Places, Changing
<1>6. Handed'  BY <1>1 DEF Becomes, Rests, Handed, Types, Lives, Places
<1>7. Pending'
  <2>1. life = "resuming"  BY <1>1 DEF Lives, Types, Changing
  <2>. QED  BY <1>1, <2>1 DEF Becomes, Rests, Pending, Changed
<1>8. Masks'
  <2>1. life = "resuming"  BY <1>1 DEF Lives, Types, Changing
  <2>2. \A f : ~Todo(f) /\ ~Todo(f)'  BY <1>1 DEF Todo, Becomes, Rests
  <2>. QED  BY <1>1, <2>1, <2>2 DEF Becomes, Rests, Masks, Live, Stale, Changed
<1>9. Awake'  BY <1>1 DEF Becomes, Rests, Awake, Types, Lives, Probing
<1>. QED  BY <1>2, <1>3, <1>4, <1>5, <1>6, <1>7, <1>8, <1>9

LEMMA UnregisterOpenStep ==
  ASSUME Inv, Unregister, port = "open"
  PROVE  Inv'
<1>. USE DEF Inv
<1>1. /\ ctx["M"].at = "free"
      /\ ctx["S"].at = "idle"
      /\ port' = "none"
      /\ Becomes("M", "lock", "clear", "f03", ctx["M"].new, <<>>, ctx["M"].pos, ctx["M"].failed)
      /\ UNCHANGED <<dev, attn, irq, current, listen, buffer, ctrl0, holder, life, due, sound,
                     past>>
  <2>1. ctx["M"] \in CtxType  BY DEF Types, Contexts
  <2>2. Order \in Seq(Fns) /\ <<>> \in Seq(Fns)  BY PassAll
  <2>3. [ctx["M"] EXCEPT !.at = "lock", !.op = "clear", !.bit = "f03", !.fns = <<>>] \in CtxType
    BY <2>1, <2>2 DEF CtxType, Label, Fns
  <2>4. ctx' = [ctx EXCEPT !["M"] = [ctx["M"] EXCEPT !.at = "lock", !.op = "clear",
          !.bit = "f03", !.fns = <<>>]]
    BY DEF Unregister, Idle, At
  <2>5. Becomes("M", "lock", "clear", "f03", ctx["M"].new, <<>>, ctx["M"].pos, ctx["M"].failed)
    BY <2>3, <2>4 DEF Types, CtxType, Contexts, Becomes
  <2>. QED  BY <2>5 DEF Types, Unregister, Idle, At
<1>2. Types'  BY <1>1 DEF Contexts, Becomes, Types
<1>3. Lives'  BY <1>1 DEF Becomes, Lives, Types, Changing
<1>4. Places'  BY <1>1 DEF Becomes, Places, Types, Lives, Changing
<1>5. Probing'  BY <1>1 DEF Becomes, Probing, Types, Lives, Places, Changing
<1>6. Handed'  BY <1>1 DEF Becomes, Handed, Types, Lives, Places
<1>7. Pending'
  <2>1. life = "removing"  BY <1>1 DEF Lives, Types, Changing
  <2>. QED  BY <1>1, <2>1 DEF Becomes, Pending, Changed
<1>8. Masks'  BY <1>1 DEF Becomes, Masks, Live, Stale, Todo, Changed, Lives
<1>9. Awake'  BY <1>1 DEF Becomes, Awake, Types, Lives, Probing
<1>. QED  BY <1>2, <1>3, <1>4, <1>5, <1>6, <1>7, <1>8, <1>9

LEMMA UnregisterShutStep ==
  ASSUME Inv, Unregister, port # "open"
  PROVE  Inv'
<1>. USE DEF Inv
<1>1. /\ ctx["M"].at = "free"
      /\ ctx["S"].at = "idle"
      /\ port' = "none"
      /\ Becomes("M", "changed", ctx["M"].op, ctx["M"].bit, ctx["M"].new, <<>>, ctx["M"].pos,
                 ctx["M"].failed)
      /\ UNCHANGED <<dev, attn, irq, current, listen, buffer, ctrl0, holder, life, due, sound,
                     past>>
  <2>1. ctx["M"] \in CtxType  BY DEF Types, Contexts
  <2>2. Order \in Seq(Fns) /\ <<>> \in Seq(Fns)  BY PassAll
  <2>3. [ctx["M"] EXCEPT !.at = "changed", !.fns = <<>>] \in CtxType
    BY <2>1, <2>2 DEF CtxType, Label, Fns
  <2>4. ctx' = [ctx EXCEPT !["M"] = [ctx["M"] EXCEPT !.at = "changed", !.fns = <<>>]]
    BY DEF Unregister, Idle, At
  <2>5. Becomes("M", "changed", ctx["M"].op, ctx["M"].bit, ctx["M"].new, <<>>, ctx["M"].pos,
                ctx["M"].failed)
    BY <2>3, <2>4 DEF Types, CtxType, Contexts, Becomes
  <2>. QED  BY <2>5 DEF Types, Unregister, Idle, At
<1>2. Types'  BY <1>1 DEF Contexts, Becomes, Types
<1>3. Lives'  BY <1>1 DEF Becomes, Lives, Types, Changing
<1>4. Places'  BY <1>1 DEF Becomes, Places, Types, Lives, Changing
<1>5. Probing'  BY <1>1 DEF Becomes, Probing, Types, Lives, Places, Changing
<1>6. Handed'  BY <1>1 DEF Becomes, Handed, Types, Lives, Places
<1>7. Pending'
  <2>1. life = "removing"  BY <1>1 DEF Lives, Types, Changing
  <2>. QED  BY <1>1, <2>1 DEF Becomes, Pending, Changed
<1>8. Masks'  BY <1>1 DEF Becomes, Masks, Live, Stale, Todo, Changed, Lives
<1>9. Awake'  BY <1>1 DEF Becomes, Awake, Types, Lives, Probing
<1>. QED  BY <1>2, <1>3, <1>4, <1>5, <1>6, <1>7, <1>8, <1>9

LEMMA FreedStep ==
  ASSUME Inv, Freed
  PROVE  Inv'
<1>. USE DEF Inv
<1>1. /\ ctx["M"].at = "changed"
      /\ life = "removing"
      /\ Rests("M")
      /\ life' = "off"
      /\ irq' = "none"
      /\ attn' = FALSE
      /\ current' = {}
      /\ listen' = {}
      /\ buffer' = {}
      /\ due' = {}
      /\ UNCHANGED <<dev, ctrl0, port, holder, sound, past>>
  <2>1. Go("M", "idle")  BY DEF Freed, Go
  <2>2. Rests("M")
    BY <2>1, Rested DEF Types, Contexts
  <2>. QED  BY <2>2 DEF Types, Freed, At
<1>2. Types'  BY <1>1 DEF Contexts, Becomes, Rests, Types
<1>3. Lives'  BY <1>1 DEF Becomes, Rests, Lives, Types, Changing
<1>4. Places'  BY <1>1 DEF Becomes, Rests, Places, Types, Lives, Changing
<1>5. Probing'  BY <1>1 DEF Becomes, Rests, Probing, Types, Lives, Places, Changing
<1>6. Handed'  BY <1>1 DEF Becomes, Rests, Handed, Types, Lives, Places
<1>7. Pending'  BY <1>1 DEF Becomes, Rests, Pending, Changed, Lives, Places
<1>8. Masks'  BY <1>1 DEF Becomes, Rests, Masks, Live, Stale, Todo, Changed, Lives
<1>9. Awake'  BY <1>1 DEF Becomes, Rests, Awake, Types, Lives, Probing
<1>. QED  BY <1>2, <1>3, <1>4, <1>5, <1>6, <1>7, <1>8, <1>9

LEMMA NestedIStep ==
  ASSUME Inv, Nested("I")
  PROVE  Inv'
<1>. USE DEF Inv
<1>1. /\ ctx["I"].at = "nested"
      /\ ctx' \in [Contexts -> CtxType]
      /\ ctx'["I"].at = "nested"
      /\ ctx'["M"] = ctx["M"] /\ ctx'["S"] = ctx["S"]
      /\ due' \subseteq due
      /\ due' \subseteq {Order[i] : i \in ctx'["I"].pos .. Len(Order)}
      /\ UNCHANGED <<dev, attn, irq, current, listen, buffer, ctrl0, port, holder, life, sound,
                     past>>
  <2>1. PICK i \in Ahead("I") :
          /\ \A j \in Ahead("I") : i <= j
          /\ due' = due \ {Order[i]}
          /\ ctx' = [ctx EXCEPT !["I"] = [ctx["I"] EXCEPT !.pos = i + 1,
                      !.at = IF Order[i] = "f01" /\ dev.unconf THEN "mask" ELSE "nested"]]
    BY DEF Nested
  <2>2. ctx["I"] \in CtxType /\ ctx["I"].pos \in Nat  BY DEF Types, CtxType, Contexts
  <2>3. i \in Nat /\ i \in ctx["I"].pos .. Len(Order) /\ Order[i] \in buffer
    BY <2>2 DEF Ahead
  <2>4. Order[i] # "f01" /\ due \subseteq buffer
        /\ due \subseteq {Order[j] : j \in ctx["I"].pos .. Len(Order)}
    BY <2>3 DEF Handed, Nested, At
  <2>5. ctx' = [ctx EXCEPT !["I"] = [ctx["I"] EXCEPT !.pos = i + 1, !.at = "nested"]]
    BY <2>1, <2>4
  <2>6. [ctx["I"] EXCEPT !.pos = i + 1, !.at = "nested"] \in CtxType
    <3>1. i + 1 \in Nat  BY <2>3
    <3>. QED  BY <2>2, <3>1 DEF CtxType, Label
  <2>7. /\ ctx' \in [Contexts -> CtxType] /\ ctx'["I"].at = "nested" /\ ctx'["I"].pos = i + 1
        /\ ctx'["M"] = ctx["M"] /\ ctx'["S"] = ctx["S"]
    BY <2>5, <2>6, <2>2 DEF Types, Contexts, CtxType
  <2>8. ASSUME NEW f \in due' PROVE f \in {Order[j] : j \in i + 1 .. Len(Order)}
    <3>1. f \in due /\ f # Order[i] /\ f \in buffer  BY <2>1, <2>4, <2>8
    <3>2. PICK j \in ctx["I"].pos .. Len(Order) : f = Order[j]  BY <2>4, <3>1
    <3>3. i <= j /\ i # j  BY <2>1, <3>1, <3>2 DEF Ahead
    <3>4. j \in i + 1 .. Len(Order)
      BY <3>2, <3>3, <2>2, <2>3, OrderAssumption
    <3>. QED  BY <3>2, <3>4
  <2>. QED  BY <2>1, <2>7, <2>8 DEF Nested, At
<1>2. Types'  BY <1>1 DEF Contexts, Becomes, Types
<1>3. Lives'  BY <1>1 DEF Becomes, Lives, Types, Changing
<1>4. Places'  BY <1>1 DEF Becomes, Places, Types, Lives, Changing
<1>5. Probing'  BY <1>1 DEF Becomes, Probing, Types, Lives, Places, Changing
<1>6. Handed'  BY <1>1 DEF Becomes, Handed, Types, Lives, Places
<1>7. Pending'  BY <1>1 DEF Becomes, Pending, Changed, Lives, Places
<1>8. Masks'  BY <1>1 DEF Becomes, Masks, Live, Stale, Todo, Changed, Lives
<1>9. Awake'  BY <1>1 DEF Becomes, Awake, Types, Lives, Probing
<1>. QED  BY <1>2, <1>3, <1>4, <1>5, <1>6, <1>7, <1>8, <1>9

LEMMA EventStep ==
  ASSUME Inv, Event, Early = FALSE
  PROVE  Inv'
<1>. USE DEF Inv
<1>1. /\ life \notin {"asleep", "probing"}
      /\ dev' \in DevType
      /\ dev'.mask = dev.mask
      /\ dev'.mode = dev.mode
      /\ dev'.unconf = dev.unconf
      /\ attn' \in BOOLEAN
      /\ UNCHANGED <<irq, current, listen, buffer, ctrl0, port, holder, ctx, life, due, sound,
                     past>>
  <2>1. PICK b \in {"f03", "f12"} :
          dev' = [dev EXCEPT !.status = @ \cup {b}] /\ attn' = (attn \/ b \in dev.mask)
    BY DEF Event
  <2>2. attn' \in BOOLEAN  BY <2>1 DEF Types
  <2>. QED  BY <2>1, <2>2 DEF Event, driver, Types, DevType, Fns
<1>2. Types'  BY <1>1 DEF Contexts, Becomes, Types
<1>3. Lives'  BY <1>1 DEF Becomes, Lives, Types, Changing
<1>4. Places'  BY <1>1 DEF Becomes, Places, Types, Lives, Changing
<1>5. Probing'  BY <1>1 DEF Becomes, Probing, Types, Lives, Places, Changing
<1>6. Handed'  BY <1>1 DEF Becomes, Handed, Types, Lives, Places
<1>7. Pending'  BY <1>1 DEF Becomes, Pending, Changed, Lives, Places
<1>8. Masks'  BY <1>1 DEF Becomes, Masks, Live, Stale, Todo, Changed, Lives
<1>9. Awake'  BY <1>1 DEF Becomes, Awake, Types, Lives, Probing
<1>. QED  BY <1>2, <1>3, <1>4, <1>5, <1>6, <1>7, <1>8, <1>9

LEMMA DeviceResetStep ==
  ASSUME Inv, DeviceReset
  PROVE  Inv'
<1>. USE DEF Inv
<1>1. /\ life = "up"
      /\ dev' \in DevType
      /\ attn' \in BOOLEAN
      /\ sound' = FALSE
      /\ past' \in [Events -> Nat]
      /\ UNCHANGED <<irq, current, listen, buffer, ctrl0, port, holder, ctx, life, due>>
  <2>1. Fresh \in DevType  BY DefaultAssumption DEF Fresh, DevType, Fns
  <2>2. attn' \in BOOLEAN  BY DEF DeviceReset, IsReset, Types
  <2>. QED  BY <2>1, <2>2, Spent DEF DeviceReset, IsReset, driver, Types, Events
<1>2. Types'  BY <1>1 DEF Contexts, Becomes, Types
<1>3. Lives'  BY <1>1 DEF Becomes, Lives, Types, Changing
<1>4. Places'  BY <1>1 DEF Becomes, Places, Types, Lives, Changing
<1>5. Probing'  BY <1>1 DEF Becomes, Probing, Types, Lives, Places, Changing
<1>6. Handed'  BY <1>1 DEF Becomes, Handed, Types, Lives, Places
<1>7. Pending'  BY <1>1 DEF Becomes, Pending, Changed, Lives, Places
<1>8. Masks'  BY <1>1 DEF Becomes, Masks, Live, Stale, Todo, Changed, Lives
<1>9. Awake'  BY <1>1 DEF Becomes, Awake, Types, Lives, Probing
<1>. QED  BY <1>2, <1>3, <1>4, <1>5, <1>6, <1>7, <1>8, <1>9

-----------------------------------------------------------------------------
(* The initial states and every step. *)

\* The initial states satisfy the invariant.
LEMMA InvInit == Init => Inv
<1>. SUFFICES ASSUME Init PROVE Inv
  OBVIOUS
<1>1. /\ ctx \in [Contexts -> CtxType] /\ \A c \in Contexts : ctx[c].at = "idle"
      /\ dev \in DevType
  <2>1. Resting \in CtxType /\ Resting.at = "idle"  BY DEF Resting, CtxType, Label, Fns
  <2>. QED  BY <2>1 DEF Init, DevType
<1>2. ctx["M"].at = "idle" /\ ctx["I"].at = "idle" /\ ctx["S"].at = "idle"  BY <1>1 DEF Contexts
<1>3. Types  BY <1>1 DEF Init, Types, Events, Contexts
<1>4. Lives /\ Places /\ Probing /\ Handed
  BY <1>2 DEF Init, Lives, Places, Probing, Handed, Changing
<1>5. Pending /\ Masks /\ Awake  BY <1>2 DEF Init, Pending, Masks, Live, Awake
<1>. QED  BY <1>3, <1>4, <1>5 DEF Inv

\* The interrupt's thread changes no mask, and comes to no reset: it never listens to F01.
LEMMA ChangeBitsStep ==
  ASSUME Inv, NEW c \in Contexts, ChangeBits(c)
  PROVE  Inv'
<1>1. CASE c = "M"
  BY <1>1, LockMStep, WriteMStep, WriteFailsMStep, StoreMStep DEF ChangeBits
<1>2. CASE c = "S"
  BY <1>2, LockSStep, WriteSStep, WriteFailsSStep, StoreSStep DEF ChangeBits
<1>3. CASE c = "I"
  BY <1>3 DEF ChangeBits, Lock, Write, WriteFails, Store, At, Inv, Places
<1>. QED  BY <1>1, <1>2, <1>3 DEF Contexts

LEMMA ResetHandlerStep ==
  ASSUME Inv, NEW c \in {"M", "I"}, ResetHandler(c)
  PROVE  Inv'
<1>1. CASE c = "M"
  BY <1>1, ReadMaskStep, ReadMaskFailsStep, KeepMaskStep, ConfigF01Step, ConfigF01FailsStep,
     ConfigF12Step, ConfigF03NewStep, ConfigF03AgainStep, ConfiguredStep, PassEndsStep
     DEF ResetHandler
<1>2. CASE c = "I"
  BY <1>2 DEF ResetHandler, ReadMask, ReadMaskFails, KeepMask, ConfigF01, ConfigF01Fails,
     ConfigF12,
     ConfigF03, Config, Configured, PassEnds, At, Inv, Places
<1>. QED  BY <1>1, <1>2

\* A probe finds nothing to hand on.
LEMMA ProcessStep ==
  ASSUME Inv, NEW c \in {"M", "I"}, Process(c)
  PROVE  Inv'
<1>1. CASE c = "M"
  <2>1. ~Nested("M")
    <3>1. SUFFICES ASSUME Nested("M") PROVE FALSE
      OBVIOUS
    <3>2. ctx["M"].at = "nested"  BY <3>1 DEF Nested, At
    <3>3. life = "probing"  BY <3>2 DEF Inv, Lives, Types, Changing
    <3>4. Ahead("M") = {}  BY <3>3 DEF Inv, Probing, Ahead
    <3>. QED  BY <3>1, <3>4 DEF Nested
  <2>. QED  BY <1>1, <2>1, ReadStatusMStep, ReadStatusFailsMStep, AndListenedMStep,
               NestedEndsMStep
            DEF Process
<1>2. CASE c = "I"
  BY <1>2, ReadStatusIStep, ReadStatusFailsIStep, AndListenedIStep, NestedIStep, NestedEndsIStep
     DEF Process
<1>. QED  BY <1>1, <1>2

\* Every step keeps it.
LEMMA InvNext == Early = FALSE /\ Inv /\ [Next]_vars => Inv'
<1>. SUFFICES ASSUME Early = FALSE, Inv, [Next]_vars PROVE Inv'
  OBVIOUS
<1>1. CASE MNext
  <2>1. CASE ChangeBits("M") \/ ResetHandler("M") \/ Process("M")
    BY <2>1, ChangeBitsStep, ResetHandlerStep, ProcessStep DEF Contexts
  <2>2. CASE Create \/ Request \/ Suspend \/ SuspendFails \/ Unbind \/ Quit \/ Disable
    BY <2>2, CreateStep, RequestStep, SuspendStep, SuspendFailsStep, UnbindStep, QuitStep,
       DisableStep
  <2>3. CASE Sync \/ Wake \/ Enable \/ WakeF01
    BY <2>3, SyncRemovingStep, SyncSleepingStep, WakeStep, EnableStep, WakeF01Step
  <2>4. CASE Unregister \/ Freed
    BY <2>4, UnregisterOpenStep, UnregisterShutStep, FreedStep
  <2>. QED  BY <1>1, <2>1, <2>2, <2>3, <2>4 DEF MNext
<1>2. CASE INext
  BY <1>2, InterruptStep, ProcessStep, ResetHandlerStep, ChangeBitsStep DEF INext, Contexts
<1>3. CASE SRun \/ Open \/ Close
  BY <1>3, ChangeBitsStep, PortChangedStep, OpenStep, CloseStep DEF SRun, Contexts
<1>4. CASE Event \/ DeviceReset
  BY <1>4, EventStep, DeviceResetStep
<1>5. CASE UNCHANGED vars
  BY <1>5 DEF vars, Inv, Types, Lives, Places, Probing, Handed, Pending, Masks, Awake, Changed,
     Live,
     Stale, Todo, Changing
<1>. QED  BY <1>1, <1>2, <1>3, <1>4, <1>5 DEF Next

\* What holds of every reachable state, of a device that has no events while the driver probes.
THEOREM CoreInv == Early = FALSE /\ Spec => []Inv
<1>1. SUFFICES ASSUME Early = FALSE PROVE Spec => []Inv
  OBVIOUS
<1>2. Inv /\ [Next]_vars => Inv'  BY <1>1, InvNext
<1>. QED  BY InvInit, <1>2, PTL DEF Spec

-----------------------------------------------------------------------------
(* The properties. *)

\* Every variable keeps its type, and the holder of irq_mutex is the one context between its
\* write of the interrupt mask and its copy (rmi_driver_set_irq_bits()).
THEOREM CoreTypes == Early = FALSE /\ Spec => []TypeOK
<1>1. Inv => TypeOK
  BY DEF Inv, Types, TypeOK, DevType, Fns
<1>. QED  BY CoreInv, <1>1, PTL

\* A touchpad that probe or resume left without a failure, and that was not reset since, is awake,
\* configured and heard, and the driver's copy of its interrupt mask is true, whatever the serio
\* thread did to the mask in the meantime.
THEOREM CoreWorking == Early = FALSE /\ Spec => []Working
<1>1. Inv => Working
  <2>. SUFFICES ASSUME Inv, Rest, sound PROVE Working
    BY DEF Working
  <2>1. life = "up" /\ ctx["M"].at = "idle" /\ ctx["S"].at = "idle"
    BY DEF Rest, Idle, At, Contexts
  <2>2. irq = "on" /\ dev.mode = "normal" /\ ~dev.unconf  BY <2>1 DEF Inv, Awake
  <2>3. \A f : ~Todo(f)  BY <2>1 DEF Todo
  <2>4. current = dev.mask /\ listen \subseteq dev.mask /\ "f12" \in listen
    BY <2>1, <2>3 DEF Inv, Masks, Live, Stale
  <2>5. port = "open" => "f03" \in listen  BY <2>1 DEF Inv, Pending
  <2>. QED  BY <2>2, <2>4, <2>5 DEF Working
<1>. QED  BY CoreInv, <1>1, PTL

\* Whatever is read from the clearing status register and listened to has reached its function
\* when the interrupt's thread is done with it.
THEOREM CoreEventsServed == Early = FALSE /\ Spec => []EventsServed
<1>1. Inv => EventsServed
  BY DEF Inv, Handed, EventsServed, Idle, At
<1>. QED  BY CoreInv, <1>1, PTL

\* The interrupt's thread and the serio thread are done with what remove frees.
THEOREM CoreFreedUnused == Early = FALSE /\ Spec => []FreedUnused
<1>1. Inv => FreedUnused
  <2>. SUFFICES ASSUME Inv, life = "off" PROVE Idle("I") /\ Idle("S") /\ holder = "none"
    BY DEF FreedUnused
  <2>1. ctx["M"].at = "idle" /\ ctx["I"].at = "idle" /\ port = "none"  BY DEF Inv, Lives
  <2>2. ctx["S"].at = "idle"  BY <2>1 DEF Inv, Places
  <2>3. holder = "none"  BY <2>1, <2>2 DEF Inv, Types, Contexts
  <2>. QED  BY <2>1, <2>2, <2>3 DEF Idle, At
<1>. QED  BY CoreInv, <1>1, PTL
=============================================================================
