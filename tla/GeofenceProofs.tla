--------------------------- MODULE GeofenceProofs ---------------------------
(* The theorems of the geofence adapter: whatever restarts, refusals, removals *)
(* and clean-ups come between, once both threads are idle the engine holds     *)
(* exactly the fences the adapter's two maps name for the registered clients,  *)
(* a breach on its way always finds its fence in the map, and every command is *)
(* answered with one collective response.  A run in which a command's arrays  *)
(* are used after their deletion has no further step of the adapter (Undefined *)
(* in Geofence): the theorems speak of the runs up to there.                   *)
(*                                                                            *)
(* The inductive invariant IInv follows the mail.  A message or call "bears" a *)
(* fence on its way to be added, "brings" the engine's id of one just added,   *)
(* "uses" an id the engine gave before, or reports that the engine "removes"   *)
(* or "modifies" it.  A fence is borne once, or known under one id (BorneOnce); *)
(* an id is brought once, before it is known and used (BroughtOnce); what the  *)
(* engine holds the adapter comes to know when it has read its mail, in the    *)
(* order it waits in (HeldIsKnown, BreachIsKnown), and what the adapter knows  *)
(* the engine holds, or the news of its loss is on the way (KnownIsHeld).      *)
(*                                                                            *)
(* The 24 actions are first sorted into five kinds of step: the adapter hands  *)
(* calls on, the engine answers a call, repauses or restarts, or a message is  *)
(* posted (StepKinds).  Each conjunct is then shown kind by kind.              *)
(*                                                                            *)
(* For the responses AnswersInv follows each command's items through their     *)
(* four stages: of two items the one that is a stage further, or ahead in the  *)
(* same queue, comes first in the command (Ordered), so the last is answered   *)
(* last (Owes).                                                               *)
EXTENDS Geofence, Integers, FiniteSetTheorems, TLAPS

----------------------------------------------------------------------------
(* What messages and calls carry.  "bt" stands for the commands.              *)

(* The key of an item.                                                        *)
KeyIn(bt, b, i) == <<bt[b].client, bt[b].ids[i]>>
IsItem(bt, b, i) == b \in DOMAIN bt /\ i \in DOMAIN bt[b].ids

ItemKinds == {"item", "callQueue", "done"} \cup Operation
HwCalls == (Operation \ {"add"}) \cup {"repause", "clear"}

(* m bears the fence k: it is on its way to be added, or to be added again.   *)
Bears(bt, m, k) ==
  \/ m.kind = "command" /\ bt[m.b].op = "add" /\ \E i \in DOMAIN bt[m.b].ids : KeyIn(bt, m.b, i) = k
  \/ m.kind \in ItemKinds /\ bt[m.b].op = "add" /\ KeyIn(bt, m.b, m.i) = k
  \/ m.kind \in {"readd", "restored"} /\ m.object.key = k

(* m brings the engine's new fence h; uses one it had; removes it; modified it. *)
Brings(bt, m, h) ==
  \/ m.kind = "done" /\ bt[m.b].op = "add" /\ m.err = "success" /\ m.hw = h
  \/ m.kind = "restored" /\ m.err = "success" /\ m.hw = h
Uses(bt, m, h) ==
  \/ m.kind \in HwCalls \cup {"cleared"} /\ m.hw = h
  \/ m.kind = "done" /\ bt[m.b].op # "add" /\ m.hw = h
Removes(bt, m, h) ==
  \/ m.kind = "done" /\ bt[m.b].op = "remove" /\ m.err = "success" /\ m.hw = h
  \/ m.kind = "cleared" /\ m.err = "success" /\ m.hw = h
Modifies(bt, m, h) == m.kind = "done" /\ bt[m.b].op = "modify" /\ m.err = "success" /\ m.hw = h
Brought(m) == IF m.kind = "restored" THEN m.object.modified ELSE FALSE
Forgets(bt, m, h) == m.kind = "ssr" \/ Removes(bt, m, h)

(* What is true of every message and call, when "id" was the last id given    *)
(* and "hw" the engine's last.                                                *)
Good(bt, id, hw, m) ==
  /\ m.kind = "command" => m.b \in DOMAIN bt
  /\ m.kind \in ItemKinds => IsItem(bt, m.b, m.i)
  /\ m.kind \in Operation => bt[m.b].op = m.kind
  /\ m.kind = "add" => m.key = KeyIn(bt, m.b, m.i)
  /\ m.kind \in {"readd", "restored"} => m.object.key[2] <= id
  /\ m.kind \in HwCalls \cup {"cleared", "breach"} => m.hw \in 1..hw
  /\ m.kind = "done" => /\ bt[m.b].op # "add" => m.hw \in 1..hw
                        /\ m.err = "success" => m.hw \in 1..hw
  /\ m.kind = "restored" /\ m.err = "success" => m.hw \in 1..hw

----------------------------------------------------------------------------
(* The inductive invariant. *)

GoodMail ==
  /\ \A i \in DOMAIN queue : Good(batch, lastId, hwLast, queue[i])
  /\ \A i \in DOMAIN calls : Good(batch, lastId, hwLast, calls[i])

IdsGiven ==
  /\ \A b \in DOMAIN batch : DOMAIN batch[b].ids \subseteq Items
  /\ \A b \in DOMAIN batch : \A i, j \in DOMAIN batch[b].ids :
       batch[b].ids[i] <= lastId /\ (batch[b].ids[i] = batch[b].ids[j] => i = j)
  /\ \A h \in HwIds : Knows(h) => geofences[h].key[2] <= lastId /\ h <= hwLast
  /\ \A h \in HwIds : Holds(h) => h <= hwLast

(* A fence is borne once, or known under one of the engine's ids.             *)
Single(bt, s, k) == \A i, j \in DOMAIN s : Bears(bt, s[i], k) /\ Bears(bt, s[j], k) => i = j
Free(bt, s, k) == \A i \in DOMAIN s : ~Bears(bt, s[i], k)
KnownOnce(g, k) == \A h1, h2 \in HwIds : g[h1].key = k /\ g[h2].key = k => h1 = h2
Unknown(g, k) == \A h \in HwIds : g[h].key # k

Borne(bt, s, t, g, k) ==
  /\ Single(bt, s, k) /\ Single(bt, t, k) /\ KnownOnce(g, k)
  /\ Free(bt, s, k) \/ Free(bt, t, k)
  /\ Unknown(g, k) \/ (Free(bt, s, k) /\ Free(bt, t, k))

BorneOnce == \A k \in Keys : Borne(batch, queue, calls, geofences, k)

(* A new fence of the engine is not yet known, nor used, and brought once.    *)
BroughtOnce ==
  \A h \in HwIds : \A i \in DOMAIN queue : Brings(batch, queue[i], h) =>
    /\ ~Knows(h)
    /\ \A j \in DOMAIN queue : Brings(batch, queue[j], h) => i = j
    /\ \A j \in DOMAIN queue : ~Uses(batch, queue[j], h)
    /\ \A j \in DOMAIN calls : ~Uses(batch, calls[j], h)

DownIsEmpty == Down => \A h \in HwIds : ~Holds(h)

GoneIsGone ==
  \A h \in HwIds : \A i \in DOMAIN queue : Removes(batch, queue[i], h) => ~Holds(h)

(* No id leads to a fence that is being cleared.                              *)
ClearsTheUnled ==
  /\ \A i \in DOMAIN queue : queue[i].kind = "cleared" => \A k \in Keys : geofenceIds[k] # queue[i].hw
  /\ \A i \in DOMAIN calls : calls[i].kind = "clear" => \A k \in Keys : geofenceIds[k] # calls[i].hw

(* Once the messages before p are handled the adapter knows h as k's: "s" are *)
(* the messages, "g" the fences it knows now.                                 *)
Reaches(bt, s, g, h, k, p) ==
  \/ g[h].key = k /\ \A q \in DOMAIN s : q < p => ~Forgets(bt, s[q], h)
  \/ \E q \in DOMAIN s :
       /\ q < p /\ Brings(bt, s[q], h) /\ Bears(bt, s[q], k)
       /\ \A r \in DOMAIN s : q < r /\ r < p => ~Forgets(bt, s[r], h)

HeldIsKnown ==
  \A h \in HwIds : Holds(h) => Reaches(batch, queue, geofences, h, engine[h].key, Len(queue) + 1)
BreachIsKnown ==
  \A p \in DOMAIN queue : queue[p].kind = "breach" =>
    Reaches(batch, queue, geofences, queue[p].hw, queue[p].key, p)

(* What the adapter knows, or is brought, the engine holds unless it removed  *)
(* it or restarted.                                                           *)
KnownIsHeld ==
  /\ \A h \in HwIds : Knows(h) /\ geofences[h].key[1] \in clients =>
       Holds(h) \/ Down \/ \E p \in DOMAIN queue : Forgets(batch, queue[p], h)
  /\ \A h \in HwIds : \A q \in DOMAIN queue : Brings(batch, queue[q], h) =>
       Holds(h) \/ Down \/ \E p \in DOMAIN queue : q < p /\ queue[p].kind = "ssr"

OptionsAgree ==
  \A h \in HwIds : Holds(h) =>
    /\ Knows(h) /\ engine[h].modified /\ ~geofences[h].modified =>
         \E p \in DOMAIN queue : Modifies(batch, queue[p], h)
    /\ Knows(h) /\ geofences[h].modified => engine[h].modified
    /\ \A p \in DOMAIN queue : Modifies(batch, queue[p], h) => engine[h].modified
    /\ \A q \in DOMAIN queue : Brings(batch, queue[q], h) => engine[h].modified = Brought(queue[q])

Typed == TypeOK /\ GoodMail /\ IdsGiven

IInv ==
  /\ Typed /\ BorneOnce /\ BroughtOnce
  /\ DownIsEmpty /\ GoneIsGone /\ ClearsTheUnled /\ MapsAgree
  /\ HeldIsKnown /\ BreachIsKnown /\ KnownIsHeld /\ OptionsAgree

----------------------------------------------------------------------------
(* Sequences: the elements of Append(s, m), Tail(s) and s \o t.               *)

LEMMA AppendElements ==
  ASSUME NEW S, NEW s \in Seq(S), NEW m \in S
  PROVE  /\ Append(s, m) \in Seq(S) /\ Len(Append(s, m)) = Len(s) + 1
         /\ DOMAIN Append(s, m) = DOMAIN s \cup {Len(s) + 1}
         /\ \A i \in DOMAIN s : Append(s, m)[i] = s[i] /\ i \in Nat /\ i > 0 /\ i < Len(s) + 1
         /\ Append(s, m)[Len(s) + 1] = m
         /\ Len(s) \in Nat
  OBVIOUS

LEMMA TailElements ==
  ASSUME NEW S, NEW s \in Seq(S), s # <<>>
  PROVE  /\ Tail(s) \in Seq(S) /\ Head(s) = s[1] /\ s[1] \in S /\ 1 \in DOMAIN s
         /\ \A i \in DOMAIN Tail(s) : /\ i \in Nat /\ i > 0
                                      /\ i + 1 \in DOMAIN s /\ Tail(s)[i] = s[i + 1]
         /\ \A i \in DOMAIN s : /\ i \in Nat /\ i > 0
                                /\ i # 1 => i - 1 \in DOMAIN Tail(s) /\ Tail(s)[i - 1] = s[i]
         /\ Len(s) \in Nat /\ Len(Tail(s)) = Len(s) - 1
  OBVIOUS

LEMMA ConcatElements ==
  ASSUME NEW S, NEW s \in Seq(S), NEW t \in Seq(S)
  PROVE  /\ s \o t \in Seq(S)
         /\ \A i \in DOMAIN s : i \in DOMAIN (s \o t) /\ (s \o t)[i] = s[i] /\ i \in Nat /\ i <= Len(s)
         /\ \A i \in DOMAIN t : /\ Len(s) + i \in DOMAIN (s \o t) /\ (s \o t)[Len(s) + i] = t[i]
                                /\ i \in Nat /\ i > 0
         /\ \A i \in DOMAIN (s \o t) : /\ i \in Nat
                                       /\ i \notin DOMAIN s => i - Len(s) \in DOMAIN t /\ i > Len(s)
         /\ Len(s) \in Nat
  OBVIOUS

LEMMA ConcatCases ==
  ASSUME NEW S, NEW s \in Seq(S), NEW t \in Seq(S), NEW i \in DOMAIN (s \o t)
  PROVE  \/ i \in DOMAIN s /\ (s \o t)[i] = s[i]
         \/ i - Len(s) \in DOMAIN t /\ (s \o t)[i] = t[i - Len(s)] /\ i > Len(s)
<1>1. CASE i \in DOMAIN s
  BY <1>1, ConcatElements
<1>2. CASE i \notin DOMAIN s
  <2>1. i - Len(s) \in DOMAIN t /\ i > Len(s) /\ i \in Nat /\ Len(s) \in Nat
    BY <1>2, ConcatElements
  <2>2. (s \o t)[Len(s) + (i - Len(s))] = t[i - Len(s)]
    BY <2>1, ConcatElements
  <2>3. Len(s) + (i - Len(s)) = i
    BY <2>1
  <2> QED
    BY <2>1, <2>2, <2>3
<1> QED
  BY <1>1, <1>2

LEMMA ElementTyped ==
  ASSUME NEW S, NEW s \in Seq(S), NEW i \in DOMAIN s
  PROVE  s[i] \in S
  OBVIOUS

LEMMA ConcatNothing ==
  ASSUME NEW S, NEW s \in Seq(S)
  PROVE  s \o <<>> = s
  OBVIOUS

LEMMA ConcatOne ==
  ASSUME NEW S, NEW s \in Seq(S), NEW m \in S
  PROVE  s \o <<m>> = Append(s, m)
  OBVIOUS

LEMMA Listed ==
  ASSUME NEW S, NEW n \in Nat, NEW f \in [1..n -> S]
  PROVE  f \in Seq(S) /\ Len(f) = n /\ DOMAIN f = 1..n
  OBVIOUS

----------------------------------------------------------------------------
(* What is borne, as mail moves on: L is what handling the head of s adds to  *)
(* t, g becomes g2.                                                           *)

LEMMA FreeTail ==
  ASSUME NEW S, NEW bt, NEW k, NEW s \in Seq(S), s # <<>>
  PROVE  /\ Free(bt, s, k) => Free(bt, Tail(s), k) /\ ~Bears(bt, Head(s), k)
         /\ Single(bt, s, k) => Single(bt, Tail(s), k)
         /\ Single(bt, s, k) /\ Bears(bt, Head(s), k) => Free(bt, Tail(s), k)
         /\ Free(bt, Tail(s), k) /\ ~Bears(bt, Head(s), k) => Free(bt, s, k)
<1>1. /\ Head(s) = s[1] /\ 1 \in DOMAIN s
      /\ \A i \in DOMAIN Tail(s) : i \in Nat /\ i > 0 /\ i + 1 \in DOMAIN s /\ Tail(s)[i] = s[i + 1]
      /\ \A i \in DOMAIN s : i \in Nat /\ (i # 1 => i - 1 \in DOMAIN Tail(s) /\ Tail(s)[i - 1] = s[i])
  BY TailElements
<1>2. Free(bt, s, k) => Free(bt, Tail(s), k) /\ ~Bears(bt, Head(s), k)
  BY <1>1 DEF Free
<1>3. Single(bt, s, k) => Single(bt, Tail(s), k)
  <2> SUFFICES ASSUME Single(bt, s, k), NEW i \in DOMAIN Tail(s), NEW j \in DOMAIN Tail(s),
                      Bears(bt, Tail(s)[i], k), Bears(bt, Tail(s)[j], k)
               PROVE  i = j
    BY DEF Single
  <2>1. i + 1 = j + 1
    BY <1>1 DEF Single
  <2> QED
    BY <1>1, <2>1
<1>4. Single(bt, s, k) /\ Bears(bt, Head(s), k) => Free(bt, Tail(s), k)
  <2> SUFFICES ASSUME Single(bt, s, k), Bears(bt, Head(s), k), NEW i \in DOMAIN Tail(s),
                      Bears(bt, Tail(s)[i], k)
               PROVE  FALSE
    BY DEF Free
  <2>1. i + 1 = 1
    BY <1>1 DEF Single
  <2> QED
    BY <1>1, <2>1
<1>5. Free(bt, Tail(s), k) /\ ~Bears(bt, Head(s), k) => Free(bt, s, k)
  BY <1>1 DEF Free
<1> QED
  BY <1>2, <1>3, <1>4, <1>5

LEMMA FreeConcat ==
  ASSUME NEW S, NEW bt, NEW k, NEW s \in Seq(S), NEW t \in Seq(S)
  PROVE  /\ Free(bt, s, k) /\ Free(bt, t, k) => Free(bt, s \o t, k)
         /\ /\ Single(bt, s, k) /\ Single(bt, t, k)
            /\ Free(bt, s, k) \/ Free(bt, t, k)
            => Single(bt, s \o t, k)
<1>1. Free(bt, s, k) /\ Free(bt, t, k) => Free(bt, s \o t, k)
  BY ConcatCases DEF Free
<1>2. ASSUME Single(bt, s, k), Free(bt, t, k)
      PROVE  Single(bt, s \o t, k)
  <2>1. \A i \in DOMAIN (s \o t) : Bears(bt, (s \o t)[i], k) => i \in DOMAIN s /\ (s \o t)[i] = s[i]
    BY <1>2, ConcatCases DEF Free
  <2> QED
    BY <1>2, <2>1 DEF Single
<1>3. ASSUME Single(bt, t, k), Free(bt, s, k)
      PROVE  Single(bt, s \o t, k)
  <2>1. \A i \in DOMAIN (s \o t) : Bears(bt, (s \o t)[i], k) =>
          i - Len(s) \in DOMAIN t /\ (s \o t)[i] = t[i - Len(s)] /\ i \in Nat
    BY <1>3, ConcatCases, ConcatElements DEF Free
  <2>2. ASSUME NEW i \in DOMAIN (s \o t), NEW j \in DOMAIN (s \o t),
               Bears(bt, (s \o t)[i], k), Bears(bt, (s \o t)[j], k)
        PROVE  i = j
    <3>1. i - Len(s) = j - Len(s) /\ i \in Nat /\ j \in Nat
      BY <1>3, <2>1, <2>2 DEF Single
    <3>2. Len(s) \in Nat
      OBVIOUS
    <3> QED
      BY <3>1, <3>2
  <2> QED
    BY <2>2 DEF Single
<1> QED
  BY <1>1, <1>2, <1>3

LEMMA Handover ==
  ASSUME NEW S, NEW T, NEW bt, NEW k, NEW g, NEW g2, NEW s \in Seq(S), s # <<>>,
         NEW t \in Seq(T), NEW L \in Seq(T),
         Borne(bt, s, t, g, k), Single(bt, L, k), KnownOnce(g2, k),
         Free(bt, L, k) \/ Unknown(g2, k),
         (Free(bt, L, k) /\ Unknown(g2, k)) \/ Bears(bt, Head(s), k) \/ ~Unknown(g, k)
  PROVE  Borne(bt, Tail(s), t \o L, g2, k)
<1>1. CASE Bears(bt, Head(s), k) \/ ~Unknown(g, k)
  <2>1. Free(bt, Tail(s), k) /\ Free(bt, t, k)
    BY <1>1, FreeTail DEF Borne
  <2>2. Single(bt, Tail(s), k) /\ Single(bt, t \o L, k)
    BY <2>1, FreeTail, FreeConcat DEF Borne
  <2>3. Free(bt, L, k) => Free(bt, t \o L, k)
    BY <2>1, FreeConcat
  <2> QED
    BY <2>1, <2>2, <2>3 DEF Borne
<1>2. CASE Free(bt, L, k) /\ Unknown(g2, k)
  <2>1. Single(bt, Tail(s), k) /\ Single(bt, t \o L, k)
    BY <1>2, FreeTail, FreeConcat DEF Borne
  <2>2. Free(bt, Tail(s), k) \/ Free(bt, t \o L, k)
    BY <1>2, FreeTail, FreeConcat DEF Borne
  <2> QED
    BY <1>2, <2>1, <2>2 DEF Borne
<1> QED
  BY <1>1, <1>2

LEMMA BorneSwap ==
  ASSUME NEW bt, NEW s, NEW t, NEW g, NEW k, Borne(bt, s, t, g, k)
  PROVE  Borne(bt, t, s, g, k)
  BY DEF Borne

----------------------------------------------------------------------------
(* Messages and calls by their kinds. *)

LEMMA MessageParts ==
  ASSUME NEW m \in Message
  PROVE  /\ m.kind \in {"command", "item", "done", "ssr", "restored", "cleared", "removeClient", "breach"}
         /\ m.kind \in {"command", "item", "done"} => m.b \in 1..MaxEvents
         /\ m.kind \in {"item", "done"} => m.i \in Items
         /\ m.kind \in {"done", "restored", "cleared"} => m.err \in Error
         /\ m.kind \in {"done", "restored"} => m.hw \in HwIds \cup {None}
         /\ m.kind \in {"cleared", "breach"} => m.hw \in HwIds
         /\ m.kind = "restored" => m.object \in GeofenceObject
         /\ m.kind = "removeClient" => m.client \in Clients
         /\ m.kind = "breach" => m.key \in Keys
  BY DEF Message

LEMMA CallParts ==
  ASSUME NEW m \in Call
  PROVE  /\ m.kind \in {"callQueue", "readd", "repause", "clear", "ssr"} \cup Operation
         /\ m.kind \in {"callQueue"} \cup Operation => m.b \in 1..MaxEvents /\ m.i \in Items
         /\ m.kind = "add" => m.key \in Keys
         /\ m.kind = "readd" => m.object \in GeofenceObject
         /\ m.kind \in HwCalls => m.hw \in HwIds
  BY DEF Call, Operation, HwCalls

LEMMA CallKinds ==
  ASSUME NEW b \in 1..MaxEvents, NEW i \in Items
  PROVE  /\ [kind |-> "callQueue", b |-> b, i |-> i] \in Call
         /\ \A k \in Keys : [kind |-> "add", b |-> b, i |-> i, key |-> k] \in Call
         /\ \A op \in Operation \ {"add"} : \A h \in HwIds : [kind |-> op, b |-> b, i |-> i, hw |-> h] \in Call
  BY DEF Call

LEMMA HwCallKinds ==
  /\ \A h \in HwIds : [kind |-> "repause", hw |-> h] \in Call /\ [kind |-> "clear", hw |-> h] \in Call
  /\ \A o \in GeofenceObject : [kind |-> "readd", object |-> o] \in Call
  /\ [kind |-> "ssr"] \in Call
  BY DEF Call

LEMMA EmptyIsNoKey == <<>> \notin Keys
  BY DEF Keys

LEMMA ObjectParts ==
  ASSUME NEW o \in GeofenceObject
  PROVE  /\ o.key \in Keys /\ o.key[1] \in Clients /\ o.key[2] \in 1..MaxId
         /\ o.paused \in BOOLEAN /\ o.modified \in BOOLEAN
         /\ o # NoObject /\ o.key # <<>>
<1>1. o.key \in Keys /\ o.paused \in BOOLEAN /\ o.modified \in BOOLEAN
  BY DEF GeofenceObject
<1>2. o.key[1] \in Clients /\ o.key[2] \in 1..MaxId
  BY <1>1 DEF Keys
<1>3. o.key # <<>>
  BY <1>1, EmptyIsNoKey
<1>4. NoObject.key = <<>>
  BY DEF NoObject
<1> QED
  BY <1>1, <1>2, <1>3, <1>4

LEMMA NoObjectHasNoKey == NoObject.key \notin Keys
  BY DEF NoObject, Keys

(* Who has a key is an object.                                                *)
LEMMA KnownParts ==
  ASSUME TypeOK, NEW h \in HwIds
  PROVE  /\ Knows(h) => geofences[h] \in GeofenceObject /\ geofences[h].key \in Keys
                        /\ geofences[h].modified \in BOOLEAN
         /\ geofences[h].key \in Keys => Knows(h)
         /\ Holds(h) => engine[h] \in GeofenceObject /\ engine[h].key \in Keys
                        /\ engine[h].modified \in BOOLEAN
         /\ engine[h].key \in Keys => Holds(h)
<1>1. geofences[h] \in GeofenceObject \cup {NoObject} /\ engine[h] \in GeofenceObject \cup {NoObject}
  BY DEF TypeOK
<1> QED
  BY <1>1, ObjectParts, NoObjectHasNoKey DEF Knows, Holds

LEMMA BatchParts ==
  ASSUME NEW x \in Batch
  PROVE  /\ x.op \in Operation /\ x.client \in Clients /\ x.ids \in Seq(1..MaxId)
         /\ x.errs \in [Items -> Error \cup {"uninitialised"}]
         /\ x.truth \in [Items -> Error \cup {"pending"}]
         /\ x.reports \in Nat /\ x.early \in BOOLEAN
  BY DEF Batch

LEMMA KeyTyped ==
  ASSUME TypeOK, NEW b, NEW i, IsItem(batch, b, i)
  PROVE  KeyIn(batch, b, i) \in Keys /\ KeyIn(batch, b, i)[2] = batch[b].ids[i]
<1>1. batch[b] \in Batch
  BY DEF TypeOK, IsItem
<1>2. batch[b].client \in Clients /\ batch[b].ids \in Seq(1..MaxId)
  BY <1>1, BatchParts
<1>3. batch[b].ids[i] \in 1..MaxId
  BY <1>2, ElementTyped DEF IsItem
<1> QED
  BY <1>2, <1>3 DEF KeyIn, Keys

----------------------------------------------------------------------------
(* Commands are added to, never changed but for their answers.                *)
SameItems(bt, bt2) ==
  \A b \in DOMAIN bt : /\ b \in DOMAIN bt2 /\ bt2[b].op = bt[b].op
                       /\ bt2[b].client = bt[b].client /\ bt2[b].ids = bt[b].ids

LEMMA SameMeaning ==
  ASSUME NEW bt, NEW bt2, SameItems(bt, bt2), NEW id, NEW hw, NEW m, Good(bt, id, hw, m)
  PROVE  /\ \A k : Bears(bt2, m, k) <=> Bears(bt, m, k)
         /\ \A h : /\ Brings(bt2, m, h) <=> Brings(bt, m, h)
                   /\ Uses(bt2, m, h) <=> Uses(bt, m, h)
                   /\ Removes(bt2, m, h) <=> Removes(bt, m, h)
                   /\ Forgets(bt2, m, h) <=> Forgets(bt, m, h)
                   /\ Modifies(bt2, m, h) <=> Modifies(bt, m, h)
<1>1. m.kind = "command" => /\ bt2[m.b].op = bt[m.b].op
                            /\ bt2[m.b].ids = bt[m.b].ids /\ bt2[m.b].client = bt[m.b].client
  BY DEF Good, SameItems
<1>2. m.kind \in ItemKinds => /\ bt2[m.b].op = bt[m.b].op
                              /\ bt2[m.b].ids = bt[m.b].ids /\ bt2[m.b].client = bt[m.b].client
  BY DEF Good, SameItems, IsItem
<1>3. m.kind = "done" => m.kind \in ItemKinds
  BY DEF ItemKinds
<1>4. \A k : Bears(bt2, m, k) <=> Bears(bt, m, k)
  BY <1>1, <1>2 DEF Bears, KeyIn
<1>5. \A h : Brings(bt2, m, h) <=> Brings(bt, m, h)
  BY <1>2, <1>3 DEF Brings
<1>6. \A h : Uses(bt2, m, h) <=> Uses(bt, m, h)
  BY <1>2, <1>3 DEF Uses
<1>7. \A h : Removes(bt2, m, h) <=> Removes(bt, m, h)
  BY <1>2, <1>3 DEF Removes
<1>8. \A h : Forgets(bt2, m, h) <=> Forgets(bt, m, h)
  BY <1>7 DEF Forgets
<1>9. \A h : Modifies(bt2, m, h) <=> Modifies(bt, m, h)
  BY <1>2, <1>3 DEF Modifies
<1> QED
  BY <1>4, <1>5, <1>6, <1>7, <1>8, <1>9

LEMMA GoodGrows ==
  ASSUME NEW bt, NEW bt2, SameItems(bt, bt2), NEW m \in Message \cup Call,
         NEW id \in Nat, NEW id2 \in Nat, id <= id2, NEW hw \in Nat, NEW hw2 \in Nat, hw <= hw2,
         Good(bt, id, hw, m)
  PROVE  Good(bt2, id2, hw2, m)
<1>1. m.kind = "command" => m.b \in DOMAIN bt2
  BY DEF Good, SameItems
<1>2. m.kind \in ItemKinds => IsItem(bt2, m.b, m.i) /\ bt2[m.b].op = bt[m.b].op
                              /\ KeyIn(bt2, m.b, m.i) = KeyIn(bt, m.b, m.i)
  BY DEF Good, SameItems, IsItem, KeyIn
<1>3. m.kind = "done" \/ m.kind \in Operation => m.kind \in ItemKinds
  BY DEF ItemKinds
<1>4. m.kind = "add" => m.key = KeyIn(bt2, m.b, m.i)
  BY <1>2, <1>3 DEF Good, Operation
<1>5. m.kind \in {"readd", "restored"} => m.object.key[2] <= id2
  <2> SUFFICES ASSUME m.kind \in {"readd", "restored"}
               PROVE  m.object.key[2] <= id2
    OBVIOUS
  <2>1. m.object \in GeofenceObject
    BY MessageParts, CallParts DEF Operation
  <2>2. m.object.key[2] \in Nat
    BY <2>1, ObjectParts
  <2>3. m.object.key[2] <= id
    BY DEF Good
  <2> QED
    BY <2>2, <2>3
<1>6. \A h \in 1..hw : h \in 1..hw2
  OBVIOUS
<1>7. m.kind \in HwCalls \cup {"cleared", "breach"} => m.hw \in 1..hw2
  BY <1>6 DEF Good
<1>8. m.kind = "done" => /\ bt2[m.b].op # "add" => m.hw \in 1..hw2
                         /\ m.err = "success" => m.hw \in 1..hw2
  BY <1>2, <1>3, <1>6 DEF Good
<1>9. m.kind = "restored" /\ m.err = "success" => m.hw \in 1..hw2
  BY <1>6 DEF Good
<1>10. m.kind \in Operation => bt2[m.b].op = m.kind
  BY <1>2, <1>3 DEF Good
<1> QED
  BY <1>1, <1>2, <1>4, <1>5, <1>7, <1>8, <1>9, <1>10 DEF Good

----------------------------------------------------------------------------
(* Types: at first, and of the commands' answers. *)

LEMMA TypedInit == Init => Typed
<1> SUFFICES ASSUME Init
             PROVE  Typed
  OBVIOUS
<1>1. \A h \in HwIds : ~Knows(h) /\ ~Holds(h)
  BY DEF Init, Knows, Holds
<1>2. 0 \in 0..MaxId /\ 0 \in 0..MaxHwId /\ 0 \in 0..MaxEvents
  BY BoundsAssumption
<1>3. TypeOK
  BY <1>2 DEF Init, TypeOK, None
<1>4. GoodMail /\ IdsGiven
  BY <1>1 DEF Init, GoodMail, IdsGiven
<1> QED
  BY <1>3, <1>4 DEF Typed

Status == {"nothing", "active", "paused", "removed"}

LEMMA ReadsTyped ==
  ASSUME TypeOK, NEW b \in DOMAIN batch, NEW errs
  PROVE  Reads(b, errs) \in [Keys -> Status]
<1>1. batch[b] \in Batch /\ told \in [Keys -> Status]
  BY DEF TypeOK, Status
<1>2. batch[b].op \in Operation
  BY <1>1, BatchParts
<1> SUFFICES ASSUME NEW k \in Keys
             PROVE  Reads(b, errs)[k] \in Status
  BY DEF Reads
<1> DEFINE at == {i \in DOMAIN batch[b].ids : KeyOf(b, i) = k /\ errs[i] = "success"}
           r  == IF at = {} \/ batch[b].op = "modify" THEN told[k]
                 ELSE CASE batch[b].op = "add" -> "active"
                        [] batch[b].op = "resume" -> "active"
                        [] batch[b].op = "pause" -> "paused"
                        [] batch[b].op = "remove" -> "removed"
<1>3. Reads(b, errs)[k] = r
  BY DEF Reads
<1>4. CASE at = {} \/ batch[b].op = "modify"
  BY <1>1, <1>3, <1>4
<1>5. CASE ~(at = {} \/ batch[b].op = "modify")
  <2>1. r = CASE batch[b].op = "add" -> "active"
              [] batch[b].op = "resume" -> "active"
              [] batch[b].op = "pause" -> "paused"
              [] batch[b].op = "remove" -> "removed"
    BY <1>5
  <2> HIDE DEF at, r
  <2>2. batch[b].op \in {"add", "remove", "pause", "resume"}
    BY <1>2, <1>5 DEF Operation
  <2>3. r \in Status
    BY <2>1, <2>2 DEF Status
  <2> QED
    BY <1>3, <2>3
<1> QED
  BY <1>4, <1>5

(* A command whose errs, truth, reports or early changed.                     *)
LEMMA BatchKept ==
  ASSUME TypeOK, NEW b \in DOMAIN batch, NEW x \in Batch,
         x.op = batch[b].op, x.client = batch[b].client, x.ids = batch[b].ids,
         batch' = [batch EXCEPT ![b] = x]
  PROVE  /\ batch' \in Seq(Batch) /\ Len(batch') = Len(batch) /\ DOMAIN batch' = DOMAIN batch
         /\ SameItems(batch, batch')
<1>1. batch \in Seq(Batch)
  BY DEF TypeOK
<1>2. DOMAIN batch' = DOMAIN batch /\ batch' \in Seq(Batch) /\ Len(batch') = Len(batch)
  BY <1>1
<1>3. \A c \in DOMAIN batch : batch'[c] = IF c = b THEN x ELSE batch[c]
  BY <1>1
<1> QED
  BY <1>2, <1>3 DEF SameItems

LEMMA AnswerKeeps ==
  ASSUME TypeOK, NEW b \in DOMAIN batch, NEW i \in Items, NEW err \in Error \cup {"uninitialised"},
         NEW truth \in Error, NEW answers \in BOOLEAN, Answer(b, i, err, truth, answers)
  PROVE  /\ batch' \in Seq(Batch) /\ Len(batch') = Len(batch) /\ SameItems(batch, batch')
         /\ told' \in [Keys -> Status]
<1> DEFINE errs == [batch[b].errs EXCEPT ![i] = err]
           report == answers /\ IsLast(b, i)
           early == \E j \in DOMAIN batch[b].ids : j # i /\ batch[b].truth[j] = "pending"
           truths == [batch[b].truth EXCEPT ![i] = truth]
           reports == IF report THEN batch[b].reports + 1 ELSE batch[b].reports
           was == batch[b].early \/ (report /\ early)
           x == [batch[b] EXCEPT !.errs = errs, !.truth = truths, !.reports = reports, !.early = was]
<1>1. batch[b] \in Batch
  BY DEF TypeOK
<1>2. /\ batch[b].op \in Operation /\ batch[b].client \in Clients /\ batch[b].ids \in Seq(1..MaxId)
      /\ batch[b].errs \in [Items -> Error \cup {"uninitialised"}]
      /\ batch[b].truth \in [Items -> Error \cup {"pending"}]
      /\ batch[b].reports \in Nat /\ batch[b].early \in BOOLEAN
  BY <1>1, BatchParts
<1>3. errs \in [Items -> Error \cup {"uninitialised"}]
  BY <1>2
<1>4. batch' = [batch EXCEPT ![b].errs = errs, ![b].truth[i] = truth,
                             ![b].reports = IF report THEN @ + 1 ELSE @,
                             ![b].early = @ \/ (report /\ early)]
      /\ told' = IF report /\ batch[b].client \in clients THEN Reads(b, errs) ELSE told
  BY DEF Answer
<1>5. report \in BOOLEAN /\ early \in BOOLEAN
  BY DEF IsLast
<1> HIDE DEF errs, report, early
<1>6. batch' = [batch EXCEPT ![b] = x]
  BY <1>1, <1>4 DEF Batch
<1>7. x \in Batch /\ x.op = batch[b].op /\ x.client = batch[b].client /\ x.ids = batch[b].ids
  <2>1. /\ truths \in [Items -> Error \cup {"pending"}] /\ reports \in Nat /\ was \in BOOLEAN
    BY <1>2, <1>5 DEF Error
  <2> HIDE DEF truths, reports, was
  <2> QED
    BY <1>1, <1>2, <1>3, <2>1 DEF Batch
<1> HIDE DEF x
<1>8. batch' \in Seq(Batch) /\ Len(batch') = Len(batch) /\ SameItems(batch, batch')
  BY <1>6, <1>7, BatchKept
<1>9. told' \in [Keys -> Status]
  BY <1>4, ReadsTyped DEF TypeOK, Status
<1> QED
  BY <1>8, <1>9

----------------------------------------------------------------------------
(* The adapter handles the head of its queue and adds L to the engine's calls. *)
Hands(L) ==
  /\ queue # <<>> /\ queue' = Tail(queue) /\ calls' = calls \o L
  /\ UNCHANGED <<lastId, engineVars, world>>

Added(L) ==
  /\ L \in Seq(Call)
  /\ \A j \in DOMAIN L : Good(batch, lastId, hwLast, L[j]) /\ L[j].kind # "ssr"
  /\ \A k \in Keys : Single(batch, L, k)
  /\ \A k \in Keys : \/ Free(batch, L, k)
                     \/ Bears(batch, Head(queue), k) /\ UNCHANGED geofences
                     \/ ~Unknown(geofences, k) /\ Unknown(geofences', k)
  /\ \A j \in DOMAIN L : \A h \in HwIds :
       Uses(batch, L[j], h) => Knows(h) \/ Brings(batch, Head(queue), h)
  /\ \A j \in DOMAIN L : L[j].kind = "clear" => \A k \in Keys : geofenceIds'[k] # L[j].hw

(* All that is added is of one kind.                                           *)
Only(L, kind) == \A j \in DOMAIN L : L[j].kind = kind

(* Nothing is added, or one call.                                             *)
LEMMA AddedNothing == Added(<<>>)
  BY DEF Added, Single, Free

LEMMA AddedOne ==
  ASSUME NEW m \in Call, Good(batch, lastId, hwLast, m), m.kind \notin {"ssr", "clear"},
         \A k \in Keys : Bears(batch, m, k) => Bears(batch, Head(queue), k) /\ UNCHANGED geofences,
         \A h \in HwIds : Uses(batch, m, h) => Knows(h) \/ Brings(batch, Head(queue), h)
  PROVE  Added(<<m>>)
<1> DEFINE L == <<m>>
<1>1. L \in Seq(Call) /\ DOMAIN L = {1} /\ L[1] = m
  OBVIOUS
<1> HIDE DEF L
<1>2. \A k \in Keys : Single(batch, L, k)
  BY <1>1 DEF Single
<1>3. \A k \in Keys : Free(batch, L, k) \/ (Bears(batch, Head(queue), k) /\ UNCHANGED geofences)
  BY <1>1 DEF Free
<1>4. Added(L)
  BY <1>1, <1>2, <1>3 DEF Added
<1> QED
  BY <1>4 DEF L

----------------------------------------------------------------------------
(* Each of the adapter's steps hands on what it adds to the calls. *)
Frame ==
  /\ clients' \subseteq clients
  /\ geofences' \in [HwIds -> GeofenceObject \cup {NoObject}]
  /\ geofenceIds' \in [Keys -> HwIds \cup {None}]
  /\ \A h \in HwIds : Knows(h)' => geofences'[h].key[2] <= lastId /\ h <= hwLast
  /\ batch' \in Seq(Batch) /\ Len(batch') = Len(batch) /\ SameItems(batch, batch')
  /\ told' \in [Keys -> Status]

LEMMA HeadTyped ==
  ASSUME Typed, queue # <<>>
  PROVE  /\ Msg \in Message /\ Good(batch, lastId, hwLast, Msg)
         /\ 1 \in DOMAIN queue /\ Msg = queue[1] /\ queue \in Seq(Message)
         /\ Msg.kind \in {"item", "done"} =>
              /\ IsItem(batch, Msg.b, Msg.i) /\ Msg.b \in DOMAIN batch /\ Msg.i \in DOMAIN batch[Msg.b].ids
              /\ Msg.b \in 1..MaxEvents /\ Msg.i \in Items
              /\ batch[Msg.b] \in Batch /\ batch[Msg.b].op \in Operation
              /\ KeyIn(batch, Msg.b, Msg.i) \in Keys
              /\ KeyIn(batch, Msg.b, Msg.i)[2] <= lastId
<1>1. queue \in Seq(Message) /\ TypeOK
  BY DEF Typed, TypeOK
<1>2. Msg = queue[1] /\ 1 \in DOMAIN queue /\ Msg \in Message
  BY <1>1, TailElements DEF Msg
<1>3. Good(batch, lastId, hwLast, Msg)
  BY <1>2 DEF Typed, GoodMail
<1>4. ASSUME Msg.kind \in {"item", "done"}
      PROVE  /\ IsItem(batch, Msg.b, Msg.i) /\ Msg.b \in DOMAIN batch /\ Msg.i \in DOMAIN batch[Msg.b].ids
             /\ Msg.b \in 1..MaxEvents /\ Msg.i \in Items
             /\ batch[Msg.b] \in Batch /\ batch[Msg.b].op \in Operation
             /\ KeyIn(batch, Msg.b, Msg.i) \in Keys
             /\ KeyIn(batch, Msg.b, Msg.i)[2] <= lastId
  <2>1. IsItem(batch, Msg.b, Msg.i)
    BY <1>3, <1>4 DEF Good, ItemKinds
  <2>2. Msg.b \in DOMAIN batch /\ Msg.i \in DOMAIN batch[Msg.b].ids
    BY <2>1 DEF IsItem
  <2>3. Msg.b \in 1..MaxEvents /\ Msg.i \in Items
    BY <1>2, <1>4, MessageParts
  <2>4. batch[Msg.b] \in Batch
    BY <1>1, <2>2 DEF TypeOK
  <2>5. batch[Msg.b].op \in Operation
    BY <2>4, BatchParts
  <2>6. KeyIn(batch, Msg.b, Msg.i) \in Keys /\ KeyIn(batch, Msg.b, Msg.i)[2] = batch[Msg.b].ids[Msg.i]
    BY <1>1, <2>1, KeyTyped
  <2>7. batch[Msg.b].ids[Msg.i] <= lastId
    BY <2>2 DEF Typed, IdsGiven
  <2> QED
    BY <2>1, <2>2, <2>3, <2>4, <2>5, <2>6, <2>7
<1> QED
  BY <1>1, <1>2, <1>3, <1>4

LEMMA SameItemsSame == SameItems(batch, batch)
  BY DEF SameItems

LEMMA FrameSame ==
  ASSUME Typed, UNCHANGED adapterVars
  PROVE  Frame
  BY SameItemsSame DEF Typed, TypeOK, IdsGiven, Frame, adapterVars, Knows, Status

LEMMA HandsNothing ==
  ASSUME Typed, queue # <<>>, queue' = Tail(queue), UNCHANGED <<calls, lastId, engineVars, world>>
  PROVE  Hands(<<>>)
  BY ConcatNothing DEF Typed, TypeOK, Hands

LEMMA HandsOne ==
  ASSUME Typed, queue # <<>>, queue' = Tail(queue), UNCHANGED <<lastId, engineVars, world>>,
         NEW m \in Call, calls' = Append(calls, m)
  PROVE  Hands(<<m>>)
  BY ConcatOne DEF Typed, TypeOK, Hands

LEMMA ProcessCommandHands ==
  ASSUME Typed, ProcessCommand
  PROVE  Frame /\ UNCHANGED adapterVars /\ \E L : Hands(L) /\ Added(L)
<1> DEFINE L == [i \in DOMAIN batch[Msg.b].ids |-> [kind |-> "callQueue", b |-> Msg.b, i |-> i]]
           n == Len(batch[Msg.b].ids)
<1>1. /\ queue # <<>> /\ Msg.kind = "command" /\ queue' = Tail(queue) /\ calls' = calls \o L
      /\ UNCHANGED <<adapterVars, lastId, engineVars, world>>
  BY DEF ProcessCommand, Take, Msg
<1>2. /\ Msg.b \in DOMAIN batch /\ Msg.b \in 1..MaxEvents /\ Good(batch, lastId, hwLast, Msg)
  BY <1>1, HeadTyped, MessageParts DEF Good
<1>3. batch[Msg.b].ids \in Seq(1..MaxId) /\ DOMAIN batch[Msg.b].ids \subseteq Items
  BY <1>2, BatchParts DEF Typed, TypeOK, IdsGiven
<1>4. n \in Nat /\ DOMAIN batch[Msg.b].ids = 1..n
  BY <1>3
<1>5. /\ DOMAIN L = DOMAIN batch[Msg.b].ids
      /\ \A i \in DOMAIN L : L[i] = [kind |-> "callQueue", b |-> Msg.b, i |-> i] /\ L[i] \in Call
  <2>1. /\ DOMAIN L = DOMAIN batch[Msg.b].ids
        /\ \A i \in DOMAIN L : L[i] = [kind |-> "callQueue", b |-> Msg.b, i |-> i]
    OBVIOUS
  <2> HIDE DEF L
  <2>2. ASSUME NEW i \in DOMAIN L
        PROVE  L[i] \in Call
    <3>1. i \in Items
      BY <1>3, <2>1
    <3>2. [kind |-> "callQueue", b |-> Msg.b, i |-> i] \in Call
      BY <1>2, <3>1, CallKinds
    <3> QED
      BY <2>1, <3>2
  <2> QED
    BY <2>1, <2>2
<1>6. L \in Seq(Call)
  <2> HIDE DEF L
  <2>1. L \in [1..n -> Call]
    <3>1. L = [i \in 1..n |-> L[i]]
      BY <1>4 DEF L
    <3> QED
      BY <1>4, <1>5, <3>1
  <2> QED
    BY <1>4, <2>1, Listed
<1> HIDE DEF L, n
<1>7. \A j \in DOMAIN L : /\ L[j].kind = "callQueue" /\ L[j].b = Msg.b /\ L[j].i = j
                          /\ IsItem(batch, Msg.b, j)
  <2> SUFFICES ASSUME NEW j \in DOMAIN L
               PROVE  /\ L[j].kind = "callQueue" /\ L[j].b = Msg.b /\ L[j].i = j
                      /\ IsItem(batch, Msg.b, j)
    OBVIOUS
  <2>1. L[j] = [kind |-> "callQueue", b |-> Msg.b, i |-> j] /\ j \in DOMAIN batch[Msg.b].ids
    BY <1>5
  <2> QED
    BY <1>2, <2>1 DEF IsItem
<1>8. \A j \in DOMAIN L : Good(batch, lastId, hwLast, L[j]) /\ L[j].kind \notin {"ssr", "clear"}
  BY <1>7 DEF Good, Operation, HwCalls
<1>9. \A j \in DOMAIN L : \A k : Bears(batch, L[j], k) => KeyIn(batch, Msg.b, j) = k /\ batch[Msg.b].op = "add"
  BY <1>7 DEF Bears
<1>10. \A k \in Keys : Single(batch, L, k)
  <2> SUFFICES ASSUME NEW k \in Keys, NEW i \in DOMAIN L, NEW j \in DOMAIN L,
                      Bears(batch, L[i], k), Bears(batch, L[j], k)
               PROVE  i = j
    BY DEF Single
  <2>1. KeyIn(batch, Msg.b, i) = KeyIn(batch, Msg.b, j)
    BY <1>9
  <2>2. batch[Msg.b].ids[i] = batch[Msg.b].ids[j]
    BY <2>1 DEF KeyIn
  <2> QED
    BY <1>2, <1>5, <2>2 DEF Typed, IdsGiven
<1>11. \A k \in Keys : Free(batch, L, k) \/ (Bears(batch, Head(queue), k) /\ UNCHANGED geofences)
  <2> SUFFICES ASSUME NEW k \in Keys, NEW j \in DOMAIN L, Bears(batch, L[j], k)
               PROVE  Bears(batch, Msg, k) /\ UNCHANGED geofences
    BY DEF Free, Msg
  <2> QED
    BY <1>1, <1>5, <1>9 DEF Bears, adapterVars
<1>12. \A j \in DOMAIN L : \A h : ~Uses(batch, L[j], h)
  BY <1>7 DEF Uses, HwCalls, Operation
<1>13. Hands(L) /\ Added(L)
  BY <1>1, <1>6, <1>8, <1>10, <1>11, <1>12 DEF Hands, Added
<1>14. UNCHANGED adapterVars
  BY <1>1
<1> QED
  BY <1>13, <1>14, FrameSame

LEMMA AddItemHands ==
  ASSUME Typed, AddItem
  PROVE  Frame /\ UNCHANGED adapterVars /\ \E L : Hands(L) /\ Added(L)
<1> DEFINE m == [kind |-> "add", b |-> Msg.b, i |-> Msg.i, key |-> KeyOf(Msg.b, Msg.i)]
<1>1. /\ queue # <<>> /\ Msg.kind = "item" /\ queue' = Tail(queue) /\ calls' = Append(calls, m)
      /\ batch[Msg.b].op = "add" /\ UNCHANGED <<adapterVars, lastId, engineVars, world>>
  BY DEF AddItem, Take, Msg
<1>2. /\ IsItem(batch, Msg.b, Msg.i) /\ Msg.b \in 1..MaxEvents /\ Msg.i \in Items
      /\ KeyIn(batch, Msg.b, Msg.i) \in Keys
  BY <1>1, HeadTyped
<1>3. m \in Call /\ m.kind = "add" /\ m.b = Msg.b /\ m.i = Msg.i /\ m.key = KeyIn(batch, Msg.b, Msg.i)
  BY <1>2, CallKinds DEF KeyIn, KeyOf
<1> HIDE DEF m
<1>4. Good(batch, lastId, hwLast, m)
  BY <1>1, <1>2, <1>3 DEF Good, Operation, HwCalls
<1>5. \A k \in Keys : Bears(batch, m, k) => Bears(batch, Msg, k)
  BY <1>1, <1>3 DEF Bears, ItemKinds, Operation
<1>6. \A h : ~Uses(batch, m, h)
  BY <1>3 DEF Uses, HwCalls
<1>7. UNCHANGED adapterVars /\ UNCHANGED geofences
  BY <1>1 DEF adapterVars
<1>8. Hands(<<m>>)
  BY <1>1, <1>3, HandsOne
<1>9. Added(<<m>>)
  BY <1>3, <1>4, <1>5, <1>6, <1>7, AddedOne DEF Msg
<1> QED
  BY <1>7, <1>8, <1>9, FrameSame

LEMMA KnownItemHands ==
  ASSUME Typed, MapsAgree, KnownItem
  PROVE  Frame /\ UNCHANGED <<clients, geofences, geofenceIds>> /\ \E L : Hands(L) /\ Added(L)
<1> DEFINE h == HwIdFromClient(Msg.b, Msg.i)
           m == [kind |-> batch[Msg.b].op, b |-> Msg.b, i |-> Msg.i, hw |-> h]
           x == [batch[Msg.b] EXCEPT !.errs[Msg.i] = "success"]
<1>1. /\ queue # <<>> /\ Msg.kind = "item" /\ queue' = Tail(queue) /\ calls' = Append(calls, m)
      /\ batch[Msg.b].op # "add" /\ h # None
      /\ UNCHANGED <<clients, geofences, geofenceIds, told, lastId, engineVars, world>>
      /\ batch' = [batch EXCEPT ![Msg.b].errs[Msg.i] = "success"]
  BY DEF KnownItem, Take, Msg
<1>2. /\ IsItem(batch, Msg.b, Msg.i) /\ Msg.b \in 1..MaxEvents /\ Msg.i \in Items
      /\ Msg.b \in DOMAIN batch /\ batch[Msg.b] \in Batch /\ batch[Msg.b].op \in Operation
      /\ KeyIn(batch, Msg.b, Msg.i) \in Keys
  BY <1>1, HeadTyped
<1>3. h \in HwIds /\ geofences[h].key = KeyIn(batch, Msg.b, Msg.i)
  BY <1>1, <1>2 DEF Typed, TypeOK, MapsAgree, HwIdFromClient, KeyOf, KeyIn
<1>4. Knows(h) /\ h <= hwLast
  BY <1>2, <1>3, KnownParts DEF Typed, IdsGiven
<1>5. h \in 1..hwLast
  BY <1>3, <1>4 DEF HwIds, Typed, TypeOK
<1> HIDE DEF h
<1>6. m \in Call /\ m.kind = batch[Msg.b].op /\ m.b = Msg.b /\ m.i = Msg.i /\ m.hw = h
  BY <1>1, <1>2, <1>3, CallKinds
<1> HIDE DEF m
<1>7. m.kind \in Operation \ {"add"}
  BY <1>1, <1>2, <1>6
<1>8. Good(batch, lastId, hwLast, m)
  BY <1>2, <1>5, <1>6, <1>7 DEF Good, Operation, HwCalls
<1>9. \A k \in Keys : ~Bears(batch, m, k)
  BY <1>1, <1>6, <1>7 DEF Bears, Operation
<1>10. \A g : Uses(batch, m, g) => g = h
  BY <1>6, <1>7 DEF Uses, Operation
<1>11. Hands(<<m>>)
  BY <1>1, <1>6, HandsOne
<1>12. Added(<<m>>)
  <2>1. m.kind \notin {"ssr", "clear"}
    BY <1>7 DEF Operation
  <2> QED
    BY <1>4, <1>6, <1>8, <1>9, <1>10, <2>1, AddedOne
<1>13. batch' = [batch EXCEPT ![Msg.b] = x]
  BY <1>1, <1>2
<1>14. x \in Batch /\ x.op = batch[Msg.b].op /\ x.client = batch[Msg.b].client /\ x.ids = batch[Msg.b].ids
  <2>1. batch[Msg.b].errs \in [Items -> Error \cup {"uninitialised"}]
    BY <1>2, BatchParts
  <2> DEFINE errs == [batch[Msg.b].errs EXCEPT ![Msg.i] = "success"]
  <2>2. errs \in [Items -> Error \cup {"uninitialised"}]
    BY <2>1 DEF Error
  <2>3. x = [batch[Msg.b] EXCEPT !.errs = errs]
    BY <1>2 DEF Batch
  <2> HIDE DEF errs, x
  <2> QED
    BY <1>2, <2>2, <2>3 DEF Batch
<1> HIDE DEF x
<1>15. batch' \in Seq(Batch) /\ Len(batch') = Len(batch) /\ SameItems(batch, batch')
  BY <1>2, <1>13, <1>14, BatchKept DEF Typed
<1>16. Frame
  BY <1>1, <1>15 DEF Typed, TypeOK, IdsGiven, Frame, Knows, Status
<1> QED
  BY <1>1, <1>11, <1>12, <1>16

----------------------------------------------------------------------------
(* What handling the head of the queue does to the maps. *)
Rests ==
  /\ UNCHANGED <<clients, geofenceIds>> /\ Msg.kind # "ssr"
  /\ \A h \in HwIds : /\ ~Brings(batch, Msg, h) /\ ~Removes(batch, Msg, h)
                      /\ Knows(h)' <=> Knows(h)
                      /\ geofences'[h].key = geofences[h].key
                      /\ Knows(h) => geofences'[h].modified = (geofences[h].modified \/ Modifies(batch, Msg, h))

Saves(k, h) ==
  /\ Brings(batch, Msg, h) /\ Bears(batch, Msg, k) /\ Msg.kind # "ssr" /\ UNCHANGED clients
  /\ k \in Keys /\ h \in HwIds
  /\ geofenceIds' = [geofenceIds EXCEPT ![k] = h]
  /\ geofences'[h] # NoObject /\ geofences'[h].key = k /\ geofences'[h].modified = Brought(Msg)
  /\ \A g \in HwIds : g # h => geofences'[g] = geofences[g]

Drops(h) ==
  /\ Msg.kind = "done" /\ Removes(batch, Msg, h) /\ h \in HwIds /\ UNCHANGED clients
  /\ RemoveGeofenceItem(h)

Clears(h) ==
  /\ Msg.kind = "cleared" /\ Removes(batch, Msg, h) /\ Msg.hw = h /\ h \in HwIds
  /\ UNCHANGED <<clients, geofenceIds>>
  /\ geofences' = [geofences EXCEPT ![h] = NoObject]

Resets ==
  /\ Msg.kind = "ssr" /\ UNCHANGED clients
  /\ geofences' = [h \in HwIds |-> NoObject]
  /\ geofenceIds' = [k \in Keys |-> None]

Stops(c) ==
  /\ Msg.kind = "removeClient" /\ UNCHANGED geofences /\ clients' = clients \ {c}
  /\ geofenceIds' = [k \in Keys |-> IF k[1] = c THEN None ELSE geofenceIds[k]]

Handled == Rests \/ (\E k, h : Saves(k, h)) \/ (\E h : Drops(h)) \/ (\E h : Clears(h))
             \/ Resets \/ (\E c : Stops(c))

LEMMA RestsSame ==
  ASSUME UNCHANGED <<clients, geofences, geofenceIds>>, Msg.kind # "ssr",
         \A h \in HwIds : ~Brings(batch, Msg, h) /\ ~Removes(batch, Msg, h) /\ ~Modifies(batch, Msg, h),
         Typed
  PROVE  Rests
<1>1. ASSUME NEW h \in HwIds, Knows(h)
      PROVE  geofences[h].modified \in BOOLEAN
  BY <1>1, KnownParts DEF Typed
<1>2. ASSUME NEW h \in HwIds
      PROVE  /\ ~Brings(batch, Msg, h) /\ ~Removes(batch, Msg, h)
             /\ Knows(h)' <=> Knows(h)
             /\ geofences'[h].key = geofences[h].key
             /\ Knows(h) => geofences'[h].modified = (geofences[h].modified \/ Modifies(batch, Msg, h))
  BY <1>1 DEF Knows
<1> QED
  BY <1>2 DEF Rests

(* Messages that are no answer of the engine change no map.                   *)
LEMMA PlainKinds ==
  ASSUME Msg.kind \notin {"done", "restored", "cleared"}
  PROVE  \A h : ~Brings(batch, Msg, h) /\ ~Removes(batch, Msg, h) /\ ~Modifies(batch, Msg, h)
  BY DEF Brings, Removes, Modifies

LEMMA PlainItems ==
  ASSUME Typed, MapsAgree, ProcessCommand \/ AddItem \/ KnownItem \/ UnknownItem \/ GeofenceBreach
  PROVE  Frame /\ (\E L : Hands(L) /\ Added(L)) /\ Rests
<1>1. Msg.kind \in {"command", "item", "breach"}
  BY DEF ProcessCommand, AddItem, KnownItem, UnknownItem, GeofenceBreach, Take, Msg
<1>2. ASSUME UNCHANGED <<clients, geofences, geofenceIds>>
      PROVE  Rests
  BY <1>1, <1>2, PlainKinds, RestsSame
<1>3. CASE ProcessCommand
  BY <1>2, <1>3, ProcessCommandHands DEF adapterVars
<1>4. CASE AddItem
  BY <1>2, <1>4, AddItemHands DEF adapterVars
<1>5. CASE KnownItem
  BY <1>2, <1>5, KnownItemHands
<1>6. CASE UnknownItem
  <2>1. /\ queue # <<>> /\ Msg.kind = "item" /\ queue' = Tail(queue)
        /\ Answer(Msg.b, Msg.i, "id_unknown", "id_unknown", TRUE)
        /\ UNCHANGED <<clients, geofences, geofenceIds, lastId, calls, engineVars, world>>
    BY <1>6 DEF UnknownItem, Take, Msg
  <2>2. Msg.b \in DOMAIN batch /\ Msg.i \in Items
    BY <2>1, HeadTyped
  <2>3. /\ batch' \in Seq(Batch) /\ Len(batch') = Len(batch) /\ SameItems(batch, batch')
        /\ told' \in [Keys -> Status]
    BY <2>1, <2>2, AnswerKeeps DEF Error, Typed
  <2>4. Frame
    BY <2>1, <2>3 DEF Typed, TypeOK, IdsGiven, Frame, Knows
  <2>5. Hands(<<>>)
    BY <2>1, HandsNothing
  <2> QED
    BY <1>2, <2>1, <2>4, <2>5, AddedNothing
<1>7. CASE GeofenceBreach
  <2>1. /\ queue # <<>> /\ queue' = Tail(queue)
        /\ UNCHANGED <<adapterVars, lastId, calls, engineVars, world>>
    BY <1>7 DEF GeofenceBreach, Take
  <2>2. Hands(<<>>) /\ Frame
    BY <2>1, HandsNothing, FrameSame
  <2> QED
    BY <1>2, <2>1, <2>2, AddedNothing DEF adapterVars
<1> QED
  BY <1>3, <1>4, <1>5, <1>6, <1>7

(* A saved fence.                                                             *)
Saved(k, h, modified) ==
  /\ geofences' \in [HwIds -> GeofenceObject \cup {NoObject}]
  /\ geofenceIds' \in [Keys -> HwIds \cup {None}]
  /\ geofenceIds' = [geofenceIds EXCEPT ![k] = h]
  /\ geofences'[h] # NoObject /\ geofences'[h].key = k /\ geofences'[h].modified = modified
  /\ \A g \in HwIds : g # h => geofences'[g] = geofences[g]
  /\ \A g \in HwIds : Knows(g)' => geofences'[g].key[2] <= lastId /\ g <= hwLast

LEMMA SaveTyped ==
  ASSUME Typed, NEW k \in Keys, NEW h \in HwIds, NEW modified \in BOOLEAN,
         k[2] <= lastId, h <= hwLast, SaveGeofenceItem(k, h, modified)
  PROVE  Saved(k, h, modified)
<1> DEFINE x == [key |-> k, paused |-> FALSE, modified |-> modified]
<1>1. x \in GeofenceObject /\ x.key = k /\ x.modified = modified
  BY DEF GeofenceObject
<1>2. geofences' = [geofences EXCEPT ![h] = x] /\ geofenceIds' = [geofenceIds EXCEPT ![k] = h]
  BY DEF SaveGeofenceItem
<1> HIDE DEF x
<1>3. x # NoObject
  BY <1>1, ObjectParts
<1>4. /\ geofences \in [HwIds -> GeofenceObject \cup {NoObject}]
      /\ geofenceIds \in [Keys -> HwIds \cup {None}]
  BY DEF Typed, TypeOK
<1>5. /\ geofences' \in [HwIds -> GeofenceObject \cup {NoObject}]
      /\ geofenceIds' \in [Keys -> HwIds \cup {None}]
      /\ geofences'[h] = x /\ \A g \in HwIds : g # h => geofences'[g] = geofences[g]
  BY <1>1, <1>2, <1>4
<1>6. Knows(h)'
  BY <1>3, <1>5 DEF Knows
<1>7. \A g \in HwIds : Knows(g)' => geofences'[g].key[2] <= lastId /\ g <= hwLast
  BY <1>1, <1>5 DEF Knows, Typed, IdsGiven
<1> QED
  BY <1>1, <1>2, <1>5, <1>6, <1>7 DEF Saved, Knows

LEMMA AddDoneHands ==
  ASSUME Typed, AddDone
  PROVE  Frame /\ (\E L : Hands(L) /\ Added(L)) /\ Handled
<1> DEFINE k == KeyIn(batch, Msg.b, Msg.i)
<1>1. /\ queue # <<>> /\ Msg.kind = "done" /\ queue' = Tail(queue) /\ batch[Msg.b].op = "add"
      /\ IF Msg.err = "success" THEN SaveGeofenceItem(k, Msg.hw, FALSE)
         ELSE UNCHANGED <<geofences, geofenceIds>>
      /\ Answer(Msg.b, Msg.i, Msg.err, Msg.err, TRUE)
      /\ UNCHANGED <<clients, lastId, calls, engineVars, world>>
  BY DEF AddDone, TakeDone, Take, Msg, KeyOf, KeyIn
<1>2. /\ Msg \in Message /\ Good(batch, lastId, hwLast, Msg) /\ Msg.b \in DOMAIN batch /\ Msg.i \in Items
      /\ k \in Keys /\ k[2] <= lastId
  BY <1>1, HeadTyped
<1>3. Msg.err \in Error
  BY <1>1, <1>2, MessageParts
<1>4. /\ batch' \in Seq(Batch) /\ Len(batch') = Len(batch) /\ SameItems(batch, batch')
      /\ told' \in [Keys -> Status]
  BY <1>1, <1>2, <1>3, AnswerKeeps DEF Typed
<1>5. Hands(<<>>)
  BY <1>1, HandsNothing
<1> HIDE DEF k
<1>6. CASE Msg.err = "success"
  <2>1. Msg.hw \in 1..hwLast /\ Msg.hw \in HwIds
    <3>1. Msg.hw \in 1..hwLast
      BY <1>1, <1>2, <1>6 DEF Good
    <3> QED
      BY <3>1, BoundsAssumption DEF Typed, TypeOK, HwIds
  <2>2. Msg.hw <= hwLast
    BY <2>1 DEF Typed, TypeOK
  <2>3. Saved(k, Msg.hw, FALSE)
    BY <1>1, <1>2, <1>6, <2>1, <2>2, SaveTyped
  <2>4. Frame
    BY <1>1, <1>4, <2>3 DEF Frame, Typed, TypeOK, Saved
  <2>5. Brings(batch, Msg, Msg.hw) /\ Bears(batch, Msg, k) /\ Brought(Msg) = FALSE
    BY <1>1, <1>6 DEF Brings, Bears, Brought, ItemKinds, k
  <2>6. Saves(k, Msg.hw)
    BY <1>1, <1>2, <2>1, <2>3, <2>5 DEF Saves, Saved
  <2> QED
    BY <1>5, <2>4, <2>6, AddedNothing DEF Handled
<1>7. CASE Msg.err # "success"
  <2>1. UNCHANGED <<geofences, geofenceIds>>
    BY <1>1, <1>7
  <2>2. Frame
    BY <1>1, <1>4, <2>1 DEF Frame, Typed, TypeOK, IdsGiven, Knows
  <2>3. \A h \in HwIds : ~Brings(batch, Msg, h) /\ ~Removes(batch, Msg, h) /\ ~Modifies(batch, Msg, h)
    BY <1>1, <1>7 DEF Brings, Removes, Modifies
  <2>4. Rests
    BY <1>1, <2>1, <2>3, RestsSame
  <2> QED
    BY <1>5, <2>2, <2>4, AddedNothing DEF Handled
<1> QED
  BY <1>6, <1>7

LEMMA RemoveDoneHands ==
  ASSUME Typed, RemoveDone
  PROVE  Frame /\ (\E L : Hands(L) /\ Added(L)) /\ Handled
<1>1. /\ queue # <<>> /\ Msg.kind = "done" /\ queue' = Tail(queue) /\ batch[Msg.b].op = "remove"
      /\ IF Msg.err = "success" THEN RemoveGeofenceItem(Msg.hw)
         ELSE UNCHANGED <<geofences, geofenceIds>>
      /\ Answer(Msg.b, Msg.i, Msg.err, Msg.err, TRUE)
      /\ UNCHANGED <<clients, lastId, calls, engineVars, world>>
  BY DEF RemoveDone, TakeDone, Take, Msg
<1>2. /\ Msg \in Message /\ Good(batch, lastId, hwLast, Msg) /\ Msg.b \in DOMAIN batch /\ Msg.i \in Items
  BY <1>1, HeadTyped
<1>3. Msg.err \in Error
  BY <1>1, <1>2, MessageParts
<1>4. /\ batch' \in Seq(Batch) /\ Len(batch') = Len(batch) /\ SameItems(batch, batch')
      /\ told' \in [Keys -> Status]
  BY <1>1, <1>2, <1>3, AnswerKeeps DEF Typed
<1>5. Hands(<<>>)
  BY <1>1, HandsNothing
<1>6. CASE Msg.err = "success"
  <2>1. Msg.hw \in 1..hwLast /\ Msg.hw \in HwIds
    <3>1. Msg.hw \in 1..hwLast
      BY <1>1, <1>2, <1>6 DEF Good
    <3> QED
      BY <3>1, BoundsAssumption DEF Typed, TypeOK, HwIds
  <2>2. /\ geofences' \in [HwIds -> GeofenceObject \cup {NoObject}]
        /\ geofenceIds' \in [Keys -> HwIds \cup {None}]
        /\ \A g \in HwIds : geofences'[g] = geofences[g] \/ geofences'[g] = NoObject
    BY <1>1, <1>6 DEF RemoveGeofenceItem, Typed, TypeOK
  <2>3. \A g \in HwIds : Knows(g)' => geofences'[g].key[2] <= lastId /\ g <= hwLast
    BY <2>2 DEF Knows, Typed, IdsGiven
  <2>4. Frame
    BY <1>1, <1>4, <2>2, <2>3 DEF Frame, Typed, TypeOK
  <2>5. Removes(batch, Msg, Msg.hw)
    BY <1>1, <1>6 DEF Removes
  <2>6. Drops(Msg.hw)
    BY <1>1, <1>6, <2>1, <2>5 DEF Drops
  <2> QED
    BY <1>5, <2>4, <2>6, AddedNothing DEF Handled
<1>7. CASE Msg.err # "success"
  <2>1. UNCHANGED <<geofences, geofenceIds>>
    BY <1>1, <1>7
  <2>2. Frame
    BY <1>1, <1>4, <2>1 DEF Frame, Typed, TypeOK, IdsGiven, Knows
  <2>3. \A h \in HwIds : ~Brings(batch, Msg, h) /\ ~Removes(batch, Msg, h) /\ ~Modifies(batch, Msg, h)
    BY <1>1, <1>7 DEF Brings, Removes, Modifies
  <2>4. Rests
    BY <1>1, <2>1, <2>3, RestsSame
  <2> QED
    BY <1>5, <2>2, <2>4, AddedNothing DEF Handled
<1> QED
  BY <1>6, <1>7

(* A changed fence keeps its key; its option changes with a modification.     *)
LEMMA ChangeTyped ==
  ASSUME Typed, NEW op \in {"pause", "resume", "modify"}, NEW h \in HwIds, ChangeGeofenceItem(op, h)
  PROVE  /\ geofences' \in [HwIds -> GeofenceObject \cup {NoObject}]
         /\ \A g \in HwIds : /\ Knows(g)' <=> Knows(g)
                             /\ geofences'[g].key = geofences[g].key
                             /\ Knows(g) => geofences'[g].modified =
                                              (geofences[g].modified \/ (g = h /\ op = "modify"))
<1>1. geofences \in [HwIds -> GeofenceObject \cup {NoObject}] /\ TypeOK
  BY DEF Typed, TypeOK
<1>2. \A g \in HwIds : Knows(g) => geofences[g] \in GeofenceObject /\ geofences[g].modified \in BOOLEAN
  BY <1>1, KnownParts
<1>3. CASE ~Knows(h)
  <2>1. geofences' = geofences
    BY <1>3 DEF ChangeGeofenceItem
  <2>2. ASSUME NEW g \in HwIds, Knows(g)
        PROVE  geofences'[g].modified = (geofences[g].modified \/ (g = h /\ op = "modify"))
    BY <1>2, <1>3, <2>1, <2>2
  <2> QED
    BY <1>1, <2>1, <2>2 DEF Knows
<1>4. CASE Knows(h)
  <2> DEFINE o == geofences[h]
             x == CASE op = "pause" -> [o EXCEPT !.paused = TRUE]
                    [] op = "resume" -> [o EXCEPT !.paused = FALSE]
                    [] op = "modify" -> [o EXCEPT !.modified = TRUE]
  <2>1. o \in GeofenceObject /\ o.modified \in BOOLEAN
    BY <1>2, <1>4
  <2>2. /\ x \in GeofenceObject /\ x.key = o.key
        /\ x.modified = (o.modified \/ op = "modify")
    <3> HIDE DEF o
    <3>1. CASE op = "pause"
      BY <2>1, <3>1 DEF GeofenceObject
    <3>2. CASE op = "resume"
      BY <2>1, <3>2 DEF GeofenceObject
    <3>3. CASE op = "modify"
      BY <2>1, <3>3 DEF GeofenceObject
    <3> QED
      BY <3>1, <3>2, <3>3
  <2>3. geofences' = [geofences EXCEPT ![h] = x]
    <3>1. CASE op = "pause"
      BY <1>1, <1>4, <3>1 DEF ChangeGeofenceItem
    <3>2. CASE op = "resume"
      BY <1>1, <1>4, <3>2 DEF ChangeGeofenceItem
    <3>3. CASE op = "modify"
      BY <1>1, <1>4, <3>3 DEF ChangeGeofenceItem
    <3> QED
      BY <3>1, <3>2, <3>3
  <2> HIDE DEF x
  <2>4. x # NoObject
    BY <2>2, ObjectParts
  <2>5. geofences'[h] = x /\ \A g \in HwIds : g # h => geofences'[g] = geofences[g]
    BY <1>1, <2>3
  <2>6. geofences' \in [HwIds -> GeofenceObject \cup {NoObject}]
    BY <1>1, <2>2, <2>3
  <2>7. ASSUME NEW g \in HwIds
        PROVE  /\ Knows(g)' <=> Knows(g)
               /\ geofences'[g].key = geofences[g].key
               /\ Knows(g) => geofences'[g].modified = (geofences[g].modified \/ (g = h /\ op = "modify"))
    <3>1. CASE g = h
      BY <1>4, <2>2, <2>4, <2>5, <3>1 DEF Knows
    <3>2. CASE g # h
      <4>1. geofences'[g] = geofences[g]
        BY <2>5, <3>2
      <4> QED
        BY <1>2, <3>2, <4>1 DEF Knows
    <3> QED
      BY <3>1, <3>2
  <2> QED
    BY <2>6, <2>7
<1> QED
  BY <1>3, <1>4

LEMMA ChangeDoneHands ==
  ASSUME Typed, ChangeDone
  PROVE  Frame /\ (\E L : Hands(L) /\ Added(L)) /\ Handled
<1> DEFINE err == IF batch[Msg.b].op = "pause" THEN Msg.err ELSE batch[Msg.b].errs[Msg.i]
           answers == batch[Msg.b].op = "resume" => Msg.err = "success"
<1>1. /\ queue # <<>> /\ Msg.kind = "done" /\ queue' = Tail(queue)
      /\ batch[Msg.b].op \in {"pause", "resume", "modify"}
      /\ IF Msg.err = "success" THEN ChangeGeofenceItem(batch[Msg.b].op, Msg.hw)
         ELSE UNCHANGED <<geofences, geofenceIds>>
      /\ Answer(Msg.b, Msg.i, err, Msg.err, answers)
      /\ UNCHANGED <<clients, lastId, calls, engineVars, world>>
  BY DEF ChangeDone, TakeDone, Take, Msg
<1>2. /\ Msg \in Message /\ Good(batch, lastId, hwLast, Msg) /\ Msg.b \in DOMAIN batch /\ Msg.i \in Items
      /\ batch[Msg.b] \in Batch
  BY <1>1, HeadTyped
<1>3. Msg.err \in Error /\ err \in Error \cup {"uninitialised"} /\ answers \in BOOLEAN
  BY <1>1, <1>2, MessageParts, BatchParts
<1> HIDE DEF err, answers
<1>4. /\ batch' \in Seq(Batch) /\ Len(batch') = Len(batch) /\ SameItems(batch, batch')
      /\ told' \in [Keys -> Status]
  BY <1>1, <1>2, <1>3, AnswerKeeps DEF Typed
<1>5. Hands(<<>>)
  BY <1>1, HandsNothing
<1>6. \A h \in HwIds : ~Brings(batch, Msg, h) /\ ~Removes(batch, Msg, h)
  BY <1>1 DEF Brings, Removes
<1>7. CASE Msg.err = "success"
  <2>1. Msg.hw \in 1..hwLast /\ Msg.hw \in HwIds
    <3>1. Msg.hw \in 1..hwLast
      BY <1>1, <1>2, <1>7 DEF Good
    <3> QED
      BY <3>1, BoundsAssumption DEF Typed, TypeOK, HwIds
  <2>2. /\ geofences' \in [HwIds -> GeofenceObject \cup {NoObject}]
        /\ \A g \in HwIds : /\ Knows(g)' <=> Knows(g)
                            /\ geofences'[g].key = geofences[g].key
                            /\ Knows(g) => geofences'[g].modified =
                                 (geofences[g].modified \/ (g = Msg.hw /\ batch[Msg.b].op = "modify"))
    BY <1>1, <1>7, <2>1, ChangeTyped
  <2>3. UNCHANGED geofenceIds
    BY <1>1, <1>7 DEF ChangeGeofenceItem
  <2>4. Frame
    BY <1>1, <1>4, <2>2, <2>3 DEF Frame, Typed, TypeOK, IdsGiven
  <2>5. \A g \in HwIds : Modifies(batch, Msg, g) <=> (g = Msg.hw /\ batch[Msg.b].op = "modify")
    BY <1>1, <1>7 DEF Modifies
  <2>6. Rests
    BY <1>1, <1>6, <2>2, <2>3, <2>5 DEF Rests
  <2> QED
    BY <1>5, <2>4, <2>6, AddedNothing DEF Handled
<1>8. CASE Msg.err # "success"
  <2>1. UNCHANGED <<geofences, geofenceIds>>
    BY <1>1, <1>8
  <2>2. Frame
    BY <1>1, <1>4, <2>1 DEF Frame, Typed, TypeOK, IdsGiven, Knows
  <2>3. \A h \in HwIds : ~Modifies(batch, Msg, h)
    BY <1>1, <1>8 DEF Modifies
  <2>4. Rests
    BY <1>1, <1>6, <2>1, <2>3, RestsSame
  <2> QED
    BY <1>5, <2>2, <2>4, AddedNothing DEF Handled
<1> QED
  BY <1>7, <1>8

(* Every known fence is added again.                                          *)
LEMMA RestartGeofencesHands ==
  ASSUME Typed, BorneOnce, RestartGeofences
  PROVE  Frame /\ (\E L : Hands(L) /\ Added(L) /\ Only(L, "readd")) /\ Handled
<1> DEFINE S == {h \in HwIds : Knows(h)}
<1>1. PICK order \in InOrder(S, LAMBDA h : h) :
        calls' = calls \o [i \in DOMAIN order |-> [kind |-> "readd", object |-> geofences[order[i]]]]
  BY DEF RestartGeofences
<1>2. /\ queue # <<>> /\ Msg.kind = "ssr" /\ queue' = Tail(queue)
      /\ geofences' = [h \in HwIds |-> NoObject] /\ geofenceIds' = [k \in Keys |-> None]
      /\ UNCHANGED <<clients, batch, told, lastId, engineVars, world>>
  BY DEF RestartGeofences, Take, Msg
<1> DEFINE n == Cardinality(S)
           L == [i \in DOMAIN order |-> [kind |-> "readd", object |-> geofences[order[i]]]]
<1>3. n \in Nat
  <2>1. IsFiniteSet(HwIds)
    <3>1. 1 \in Int /\ MaxHwId \in Int
      BY BoundsAssumption
    <3> QED
      BY <3>1, FS_Interval DEF HwIds
  <2>2. IsFiniteSet(S)
    <3>1. S \subseteq HwIds
      OBVIOUS
    <3> QED
      BY <2>1, <3>1, FS_Subset
  <2> QED
    BY <2>2, FS_CardinalityType
<1>4. order \in [1..n -> S] /\ \A i, j \in DOMAIN order : i < j => order[i] < order[j]
  BY <1>1 DEF InOrder
<1> HIDE DEF n
<1>5. DOMAIN order = 1..n /\ \A i \in 1..n : order[i] \in HwIds /\ Knows(order[i])
  BY <1>4
<1>6. \A i, j \in 1..n : order[i] = order[j] => i = j
  <2> SUFFICES ASSUME NEW i \in 1..n, NEW j \in 1..n, i < j
               PROVE  order[i] # order[j]
    BY <1>3
  <2>1. order[i] < order[j] /\ order[i] \in Nat
    BY <1>4, <1>5 DEF HwIds
  <2> QED
    BY <1>5, <2>1 DEF HwIds
<1>7. \A i \in 1..n : geofences[order[i]] \in GeofenceObject
  BY <1>5, KnownParts DEF Typed
<1>8. /\ DOMAIN L = 1..n
      /\ \A i \in 1..n : L[i] = [kind |-> "readd", object |-> geofences[order[i]]]
  BY <1>5
<1>9. L = [i \in 1..n |-> L[i]]
  BY <1>5
<1> HIDE DEF L
<1>10. \A i \in 1..n : /\ L[i] \in Call /\ L[i].kind = "readd" /\ L[i].object = geofences[order[i]]
  <2> SUFFICES ASSUME NEW i \in 1..n
               PROVE  L[i] \in Call /\ L[i].kind = "readd" /\ L[i].object = geofences[order[i]]
    OBVIOUS
  <2>1. L[i] = [kind |-> "readd", object |-> geofences[order[i]]] /\ geofences[order[i]] \in GeofenceObject
    BY <1>7, <1>8
  <2> QED
    BY <2>1, HwCallKinds
<1>11. L \in Seq(Call)
  <2>1. L \in [1..n -> Call]
    BY <1>9, <1>10
  <2> QED
    BY <1>3, <2>1, Listed
<1>12. \A i \in 1..n : Good(batch, lastId, hwLast, L[i])
  <2> SUFFICES ASSUME NEW i \in 1..n
               PROVE  Good(batch, lastId, hwLast, L[i])
    OBVIOUS
  <2>1. L[i].object.key[2] <= lastId
    BY <1>5, <1>10 DEF Typed, IdsGiven
  <2> QED
    BY <1>10, <2>1 DEF Good, ItemKinds, Operation, HwCalls
<1>13. \A i \in 1..n : \A k : Bears(batch, L[i], k) => geofences[order[i]].key = k
  BY <1>10 DEF Bears, ItemKinds, Operation
<1>14. \A k \in Keys : Unknown(geofences', k)
  BY <1>2, NoObjectHasNoKey DEF Unknown
<1>15. \A k \in Keys : Single(batch, L, k)
  <2> SUFFICES ASSUME NEW k \in Keys, NEW i \in 1..n, NEW j \in 1..n,
                      Bears(batch, L[i], k), Bears(batch, L[j], k)
               PROVE  i = j
    BY <1>8 DEF Single
  <2>1. geofences[order[i]].key = k /\ geofences[order[j]].key = k
    BY <1>13
  <2>2. order[i] = order[j]
    BY <1>5, <2>1 DEF BorneOnce, Borne, KnownOnce
  <2> QED
    BY <1>6, <2>2
<1>16. \A k \in Keys : Free(batch, L, k) \/ (~Unknown(geofences, k) /\ Unknown(geofences', k))
  <2> SUFFICES ASSUME NEW k \in Keys, NEW i \in 1..n, Bears(batch, L[i], k)
               PROVE  ~Unknown(geofences, k)
    BY <1>8, <1>14 DEF Free
  <2> QED
    BY <1>5, <1>13 DEF Unknown
<1>17. \A i \in 1..n : \A h : ~Uses(batch, L[i], h)
  BY <1>10 DEF Uses, HwCalls, Operation
<1>18. Added(L)
  <2>1. \A i \in 1..n : L[i].kind \notin {"ssr", "clear"}
    BY <1>10
  <2> QED
    BY <1>8, <1>11, <1>12, <1>15, <1>16, <1>17, <2>1 DEF Added
<1>19. Hands(L)
  BY <1>1, <1>2 DEF Hands, L
<1>20. Frame
  <2>1. \A h \in HwIds : ~Knows(h)'
    BY <1>2 DEF Knows
  <2>2. /\ geofences' \in [HwIds -> GeofenceObject \cup {NoObject}]
        /\ geofenceIds' \in [Keys -> HwIds \cup {None}]
    BY <1>2
  <2> QED
    BY <1>2, <2>1, <2>2, SameItemsSame DEF Frame, Typed, TypeOK, Status
<1>21. Resets
  BY <1>2 DEF Resets
<1>99. Only(L, "readd")
  BY <1>8, <1>10 DEF Only
<1> QED
  BY <1>99, <1>18, <1>19, <1>20, <1>21 DEF Handled

(* A restored fence is saved, and paused again if it was.                     *)
LEMMA RestoredGeofenceHands ==
  ASSUME Typed, RestoredGeofence
  PROVE  Frame /\ (\E L : Hands(L) /\ Added(L)) /\ Handled
<1> DEFINE m == [kind |-> "repause", hw |-> Msg.hw]
           k == Msg.object.key
<1>1. /\ queue # <<>> /\ Msg.kind = "restored" /\ queue' = Tail(queue)
      /\ IF Msg.err = "success"
         THEN /\ SaveGeofenceItem(k, Msg.hw, Msg.object.modified)
              /\ calls' = IF Msg.object.paused THEN Append(calls, m) ELSE calls
         ELSE UNCHANGED <<geofences, geofenceIds, calls>>
      /\ UNCHANGED <<clients, batch, told, lastId, engineVars, world>>
  BY DEF RestoredGeofence, Take, Msg
<1>2. Msg \in Message /\ Good(batch, lastId, hwLast, Msg)
  BY <1>1, HeadTyped
<1>3. Msg.object \in GeofenceObject
  BY <1>1, <1>2, MessageParts
<1>4. k \in Keys /\ Msg.object.modified \in BOOLEAN /\ k[2] <= lastId
  BY <1>1, <1>2, <1>3, ObjectParts DEF Good
<1> HIDE DEF k
<1>5. SameItems(batch, batch') /\ batch' \in Seq(Batch) /\ Len(batch') = Len(batch) /\ told' \in [Keys -> Status]
  BY <1>1, SameItemsSame DEF Typed, TypeOK, Status
<1>6. CASE Msg.err = "success"
  <2>1. Msg.hw \in 1..hwLast /\ Msg.hw \in HwIds
    <3>1. Msg.hw \in 1..hwLast
      BY <1>1, <1>2, <1>6 DEF Good
    <3> QED
      BY <3>1, BoundsAssumption DEF Typed, TypeOK, HwIds
  <2>2. Msg.hw <= hwLast
    BY <2>1 DEF Typed, TypeOK
  <2>3. Saved(k, Msg.hw, Msg.object.modified)
    BY <1>1, <1>4, <1>6, <2>1, <2>2, SaveTyped
  <2>4. Frame
    BY <1>1, <1>5, <2>3 DEF Frame, Typed, TypeOK, Saved
  <2>5. Brings(batch, Msg, Msg.hw) /\ Bears(batch, Msg, k) /\ Brought(Msg) = Msg.object.modified
    BY <1>1, <1>6 DEF Brings, Bears, Brought, k
  <2>6. Saves(k, Msg.hw)
    BY <1>1, <1>4, <2>1, <2>3, <2>5 DEF Saves, Saved
  <2>7. \E L : Hands(L) /\ Added(L)
    <3>1. CASE Msg.object.paused
      <4>1. m \in Call /\ m.kind = "repause" /\ m.hw = Msg.hw
        BY <2>1, HwCallKinds
      <4>2. calls' = Append(calls, m)
        BY <1>1, <1>6, <3>1
      <4> HIDE DEF m
      <4>3. Good(batch, lastId, hwLast, m)
        BY <2>1, <4>1 DEF Good, ItemKinds, Operation
      <4>4. \A j : ~Bears(batch, m, j)
        BY <4>1 DEF Bears, ItemKinds, Operation
      <4>5. \A h : Uses(batch, m, h) => h = Msg.hw
        BY <4>1 DEF Uses
      <4>6. Hands(<<m>>)
        BY <1>1, <4>1, <4>2, HandsOne
      <4>7. Added(<<m>>)
        <5>1. \A h \in HwIds : Uses(batch, m, h) => Knows(h) \/ Brings(batch, Head(queue), h)
          BY <2>5, <4>5 DEF Msg
        <5> QED
          BY <4>1, <4>3, <4>4, <5>1, AddedOne
      <4> QED
        BY <4>6, <4>7
    <3>2. CASE ~Msg.object.paused
      <4>1. calls' = calls
        BY <1>1, <1>6, <3>2
      <4>2. Hands(<<>>)
        BY <1>1, <4>1, HandsNothing
      <4> QED
        BY <4>2, AddedNothing
    <3> QED
      BY <3>1, <3>2
  <2> QED
    BY <2>4, <2>6, <2>7 DEF Handled
<1>7. CASE Msg.err # "success"
  <2>1. UNCHANGED <<geofences, geofenceIds, calls>>
    BY <1>1, <1>7
  <2>2. Frame
    BY <1>1, <1>5, <2>1 DEF Frame, Typed, TypeOK, IdsGiven, Knows
  <2>3. \A h \in HwIds : ~Brings(batch, Msg, h) /\ ~Removes(batch, Msg, h) /\ ~Modifies(batch, Msg, h)
    BY <1>1, <1>7 DEF Brings, Removes, Modifies
  <2>4. Rests
    BY <1>1, <2>1, <2>3, RestsSame
  <2>5. Hands(<<>>)
    BY <1>1, <2>1, HandsNothing
  <2> QED
    BY <2>2, <2>4, <2>5, AddedNothing DEF Handled
<1> QED
  BY <1>6, <1>7

LEMMA ClearedGeofenceHands ==
  ASSUME Typed, ClearedGeofence
  PROVE  Frame /\ (\E L : Hands(L) /\ Added(L)) /\ Handled
<1>1. /\ queue # <<>> /\ Msg.kind = "cleared" /\ queue' = Tail(queue)
      /\ geofences' = IF Msg.err = "success" THEN [geofences EXCEPT ![Msg.hw] = NoObject] ELSE geofences
      /\ UNCHANGED <<clients, geofenceIds, batch, told, lastId, calls, engineVars, world>>
  BY DEF ClearedGeofence, Take, Msg
<1>2. Msg \in Message
  BY <1>1, HeadTyped
<1>3. Msg.hw \in HwIds
  BY <1>1, <1>2, MessageParts
<1>4. Hands(<<>>)
  BY <1>1, HandsNothing
<1>5. /\ geofences' \in [HwIds -> GeofenceObject \cup {NoObject}]
      /\ \A g \in HwIds : geofences'[g] = geofences[g] \/ geofences'[g] = NoObject
  BY <1>1, <1>3 DEF Typed, TypeOK
<1>6. \A g \in HwIds : Knows(g)' => geofences'[g].key[2] <= lastId /\ g <= hwLast
  BY <1>5 DEF Knows, Typed, IdsGiven
<1>7. Frame
  BY <1>1, <1>5, <1>6, SameItemsSame DEF Frame, Typed, TypeOK, Status
<1>8. CASE Msg.err = "success"
  <2>1. Removes(batch, Msg, Msg.hw)
    BY <1>1, <1>8 DEF Removes
  <2>2. Clears(Msg.hw)
    BY <1>1, <1>3, <1>8, <2>1 DEF Clears
  <2> QED
    BY <1>4, <1>7, <2>2, AddedNothing DEF Handled
<1>9. CASE Msg.err # "success"
  <2>1. \A h \in HwIds : ~Brings(batch, Msg, h) /\ ~Removes(batch, Msg, h) /\ ~Modifies(batch, Msg, h)
    BY <1>1, <1>9 DEF Brings, Removes, Modifies
  <2>2. Rests
    BY <1>1, <1>9, <2>1, RestsSame
  <2> QED
    BY <1>4, <1>7, <2>2, AddedNothing DEF Handled
<1> QED
  BY <1>8, <1>9

(* A client's fences are cleared, and its ids lead nowhere.                   *)
LEMMA StopClientSessionsHands ==
  ASSUME Typed, MapsAgree, StopClientSessions
  PROVE  Frame /\ (\E L : Hands(L) /\ Added(L) /\ Only(L, "clear")) /\ Handled
<1> DEFINE c == Msg.client
           mine == {k \in Keys : k[1] = c /\ geofenceIds[k] # None}
<1>1. PICK order \in InOrder(mine, LAMBDA k : k[2]) :
        calls' = calls \o [i \in DOMAIN order |-> [kind |-> "clear", hw |-> geofenceIds[order[i]]]]
  BY DEF StopClientSessions, Msg
<1>2. /\ queue # <<>> /\ Msg.kind = "removeClient" /\ queue' = Tail(queue)
      /\ geofenceIds' = [k \in Keys |-> IF k \in mine THEN None ELSE geofenceIds[k]]
      /\ clients' = clients \ {c}
      /\ UNCHANGED <<geofences, batch, told, lastId, engineVars, world>>
  BY DEF StopClientSessions, Take, Msg
<1> HIDE DEF c
<1> DEFINE n == Cardinality(mine)
           L == [i \in DOMAIN order |-> [kind |-> "clear", hw |-> geofenceIds[order[i]]]]
<1>3. n \in Nat
  <2>1. IsFiniteSet(1..MaxId)
    <3>1. 1 \in Int /\ MaxId \in Int
      BY BoundsAssumption
    <3> QED
      BY <3>1, FS_Interval
  <2>2. IsFiniteSet({c} \X (1..MaxId))
    <3>1. IsFiniteSet({c})
      BY FS_Singleton
    <3> QED
      BY <2>1, <3>1, FS_Product
  <2>3. mine \subseteq {c} \X (1..MaxId)
    BY DEF Keys
  <2> HIDE DEF mine
  <2>4. IsFiniteSet(mine)
    BY <2>2, <2>3, FS_Subset
  <2> QED
    BY <2>4, FS_CardinalityType
<1>4. order \in [1..n -> mine]
  BY <1>1 DEF InOrder
<1> HIDE DEF n
<1>5. DOMAIN order = 1..n /\ \A i \in 1..n : order[i] \in Keys /\ order[i] \in mine /\ geofenceIds[order[i]] # None
  BY <1>4
<1>6. /\ DOMAIN L = 1..n /\ L = [i \in 1..n |-> L[i]]
      /\ \A i \in 1..n : L[i] = [kind |-> "clear", hw |-> geofenceIds[order[i]]]
  BY <1>5
<1> HIDE DEF L, mine
<1>7. \A i \in 1..n : /\ geofenceIds[order[i]] \in HwIds
                      /\ geofences[geofenceIds[order[i]]].key = order[i]
  BY <1>5 DEF Typed, TypeOK, MapsAgree
<1>8. \A i \in 1..n : Knows(geofenceIds[order[i]]) /\ geofenceIds[order[i]] \in 1..hwLast
  <2> SUFFICES ASSUME NEW i \in 1..n
               PROVE  Knows(geofenceIds[order[i]]) /\ geofenceIds[order[i]] \in 1..hwLast
    OBVIOUS
  <2> DEFINE h == geofenceIds[order[i]]
  <2>1. h \in HwIds /\ geofences[h].key \in Keys
    BY <1>5, <1>7
  <2>2. Knows(h)
    BY <2>1, KnownParts DEF Typed
  <2>3. h <= hwLast
    BY <2>1, <2>2 DEF Typed, IdsGiven
  <2> HIDE DEF h
  <2>4. h \in 1..hwLast
    BY <2>1, <2>3 DEF HwIds, Typed, TypeOK
  <2> QED
    BY <2>2, <2>4 DEF h
<1>9. \A i \in 1..n : L[i] \in Call /\ L[i].kind = "clear" /\ L[i].hw = geofenceIds[order[i]]
  <2> SUFFICES ASSUME NEW i \in 1..n
               PROVE  L[i] \in Call /\ L[i].kind = "clear" /\ L[i].hw = geofenceIds[order[i]]
    OBVIOUS
  <2>1. L[i] = [kind |-> "clear", hw |-> geofenceIds[order[i]]]
    BY <1>6
  <2>2. [kind |-> "clear", hw |-> geofenceIds[order[i]]] \in Call
    BY <1>7, HwCallKinds
  <2> QED
    BY <2>1, <2>2
<1>10. L \in Seq(Call)
  <2>1. L \in [1..n -> Call]
    BY <1>6, <1>9
  <2> QED
    BY <1>3, <2>1, Listed
<1>11. \A i \in 1..n : Good(batch, lastId, hwLast, L[i])
  BY <1>8, <1>9 DEF Good, ItemKinds, Operation, HwCalls
<1>12. \A i \in 1..n : \A k : ~Bears(batch, L[i], k)
  BY <1>9 DEF Bears, ItemKinds, Operation
<1>13. \A k \in Keys : Single(batch, L, k) /\ Free(batch, L, k)
  BY <1>6, <1>12 DEF Single, Free
<1>14. \A i \in 1..n : \A h : Uses(batch, L[i], h) => Knows(h)
  BY <1>8, <1>9 DEF Uses
<1>15. \A i \in 1..n : \A k \in Keys : geofenceIds'[k] # L[i].hw
  <2> SUFFICES ASSUME NEW i \in 1..n, NEW k \in Keys, geofenceIds'[k] = geofenceIds[order[i]]
               PROVE  FALSE
    BY <1>9
  <2>1. geofenceIds'[k] # None
    BY <1>5
  <2>2. k \notin mine /\ geofenceIds[k] = geofenceIds[order[i]]
    BY <1>2, <2>1
  <2>3. k = order[i]
    BY <1>5, <1>7, <2>2 DEF MapsAgree
  <2> QED
    BY <1>5, <2>2, <2>3
<1>16. Added(L)
  BY <1>6, <1>9, <1>10, <1>11, <1>13, <1>14, <1>15 DEF Added
<1>17. Hands(L)
  BY <1>1, <1>2 DEF Hands, L
<1>18. geofenceIds' \in [Keys -> HwIds \cup {None}]
  BY <1>2 DEF Typed, TypeOK
<1>19. Frame
  BY <1>2, <1>18, SameItemsSame DEF Frame, Typed, TypeOK, IdsGiven, Knows, Status
<1>20. Stops(c)
  <2>1. \A k \in Keys : (IF k \in mine THEN None ELSE geofenceIds[k]) = (IF k[1] = c THEN None ELSE geofenceIds[k])
    BY DEF mine
  <2>2. geofenceIds' = [k \in Keys |-> IF k[1] = c THEN None ELSE geofenceIds[k]]
    BY <1>2, <2>1
  <2> QED
    BY <1>2, <2>2 DEF Stops
<1>99. Only(L, "clear")
  BY <1>6, <1>9 DEF Only
<1> QED
  BY <1>99, <1>16, <1>17, <1>19, <1>20 DEF Handled

LEMMA AdapterHands ==
  ASSUME Typed, MapsAgree, BorneOnce, AdapterStep
  PROVE  Frame /\ (\E L : Hands(L) /\ Added(L)) /\ Handled
<1>1. CASE ProcessCommand \/ AddItem \/ KnownItem \/ UnknownItem \/ GeofenceBreach
  BY <1>1, PlainItems DEF Handled
<1>2. CASE AddDone
  BY <1>2, AddDoneHands
<1>3. CASE RemoveDone
  BY <1>3, RemoveDoneHands
<1>4. CASE ChangeDone
  BY <1>4, ChangeDoneHands
<1>5. CASE RestartGeofences
  BY <1>5, RestartGeofencesHands
<1>6. CASE RestoredGeofence
  BY <1>6, RestoredGeofenceHands
<1>7. CASE StopClientSessions
  BY <1>7, StopClientSessionsHands
<1>8. CASE ClearedGeofence
  BY <1>8, ClearedGeofenceHands
<1> QED
  BY <1>1, <1>2, <1>3, <1>4, <1>5, <1>6, <1>7, <1>8 DEF AdapterStep

----------------------------------------------------------------------------
(* The engine serves its first call and answers m. *)
Answers(m) ==
  /\ calls # <<>> /\ calls' = Tail(calls) /\ queue' = Append(queue, m)
  /\ UNCHANGED <<adapterVars, lastId, restarts, world>>

Fits(m) ==
  /\ m \in Message /\ Good(batch, lastId, hwLast', m)
  /\ \A k \in Keys : Bears(batch, m, k) => Bears(batch, Call1, k)
  /\ \A h \in HwIds : Uses(batch, m, h) => Uses(batch, Call1, h)
  /\ m.kind = "cleared" => Call1.kind = "clear" /\ Call1.hw = m.hw
  /\ Call1.kind = "ssr" <=> m.kind = "ssr"
  /\ m.kind # "breach"

(* What becomes of the engine's fences. *)
Keeps(m) ==
  /\ UNCHANGED <<engine, hwLast>>
  /\ \A h \in HwIds : ~Brings(batch, m, h) /\ ~Removes(batch, m, h) /\ ~Modifies(batch, m, h)

Accepts(m, k, h) ==
  /\ ~Down /\ h = hwLast + 1 /\ hwLast' = h /\ h \in HwIds /\ k \in Keys /\ m.kind # "ssr"
  /\ Brings(batch, m, h) /\ Bears(batch, m, k)
  /\ engine' \in [HwIds -> GeofenceObject \cup {NoObject}]
  /\ engine'[h] # NoObject /\ engine'[h].key = k /\ engine'[h].modified = Brought(m)
  /\ \A g \in HwIds : g # h => engine'[g] = engine[g] /\ ~Brings(batch, m, g)
  /\ \A g \in HwIds : ~Removes(batch, m, g) /\ ~Modifies(batch, m, g)

Loses(m, h) ==
  /\ ~Down /\ h \in HwIds /\ UNCHANGED hwLast /\ Uses(batch, Call1, h) /\ Removes(batch, m, h)
  /\ engine' = [engine EXCEPT ![h] = NoObject]
  /\ \A g \in HwIds : /\ ~Brings(batch, m, g) /\ ~Modifies(batch, m, g)
                      /\ Removes(batch, m, g) => g = h

Turns(m, h) ==
  /\ ~Down /\ h \in HwIds /\ UNCHANGED hwLast /\ Holds(h) /\ Uses(batch, Call1, h)
  /\ engine' \in [HwIds -> GeofenceObject \cup {NoObject}]
  /\ engine'[h] # NoObject /\ engine'[h].key = engine[h].key
  /\ engine'[h].modified = (engine[h].modified \/ Modifies(batch, m, h))
  /\ \A g \in HwIds : g # h => engine'[g] = engine[g] /\ ~Modifies(batch, m, g)
  /\ \A g \in HwIds : ~Removes(batch, m, g) /\ ~Brings(batch, m, g)

Outcome(m) == Keeps(m) \/ (\E k, h : Accepts(m, k, h)) \/ (\E h : Loses(m, h)) \/ (\E h : Turns(m, h))

LEMMA CallTyped ==
  ASSUME Typed, calls # <<>>
  PROVE  /\ Call1 \in Call /\ Good(batch, lastId, hwLast, Call1)
         /\ 1 \in DOMAIN calls /\ Call1 = calls[1] /\ calls \in Seq(Call)
<1>1. calls \in Seq(Call)
  BY DEF Typed, TypeOK
<1>2. Call1 = calls[1] /\ 1 \in DOMAIN calls /\ Call1 \in Call
  BY <1>1, TailElements DEF Call1
<1> QED
  BY <1>1, <1>2 DEF Typed, GoodMail

LEMMA MessageKinds ==
  ASSUME NEW b \in 1..MaxEvents, NEW i \in Items
  PROVE  /\ [kind |-> "item", b |-> b, i |-> i] \in Message
         /\ \A err \in Error : \A h \in HwIds \cup {None} :
              [kind |-> "done", b |-> b, i |-> i, err |-> err, hw |-> h] \in Message
  BY DEF Message

LEMMA OtherMessageKinds ==
  /\ \A o \in GeofenceObject : \A err \in Error : \A h \in HwIds \cup {None} :
       [kind |-> "restored", object |-> o, err |-> err, hw |-> h] \in Message
  /\ \A err \in Error : \A h \in HwIds : [kind |-> "cleared", err |-> err, hw |-> h] \in Message
  /\ \A h \in HwIds : \A k \in Keys : [kind |-> "breach", hw |-> h, key |-> k] \in Message
  /\ \A c \in Clients : [kind |-> "removeClient", client |-> c] \in Message
  /\ \A b \in 1..MaxEvents : [kind |-> "command", b |-> b] \in Message
  /\ [kind |-> "ssr"] \in Message
  BY DEF Message

LEMMA CallQueueServedFits ==
  ASSUME Typed, CallQueueServed
  PROVE  \E m : Answers(m) /\ Fits(m) /\ Outcome(m)
<1> DEFINE m == [kind |-> "item", b |-> Call1.b, i |-> Call1.i]
<1>1. /\ calls # <<>> /\ calls' = Tail(calls) /\ Call1.kind = "callQueue" /\ queue' = Append(queue, m)
      /\ UNCHANGED <<adapterVars, lastId, engineVars, world>>
  BY DEF CallQueueServed, Serve, Call1
<1>2. Call1 \in Call /\ Good(batch, lastId, hwLast, Call1)
  BY <1>1, CallTyped
<1>3. Call1.b \in 1..MaxEvents /\ Call1.i \in Items
  BY <1>1, <1>2, CallParts
<1>4. m \in Message /\ m.kind = "item" /\ m.b = Call1.b /\ m.i = Call1.i
  BY <1>3, MessageKinds
<1> HIDE DEF m
<1>5. Good(batch, lastId, hwLast', m)
  BY <1>1, <1>2, <1>4 DEF Good, ItemKinds, Operation, HwCalls
<1>6. /\ \A k : Bears(batch, m, k) => Bears(batch, Call1, k)
      /\ \A h : ~Uses(batch, m, h)
      /\ \A h : ~Brings(batch, m, h) /\ ~Removes(batch, m, h) /\ ~Modifies(batch, m, h)
  BY <1>1, <1>4 DEF Bears, Uses, Brings, Removes, Modifies, ItemKinds, HwCalls, Operation
<1>7. Fits(m)
  BY <1>1, <1>4, <1>5, <1>6 DEF Fits
<1>8. Keeps(m) /\ Answers(m)
  BY <1>1, <1>6 DEF Keeps, Answers, engineVars
<1> QED
  BY <1>7, <1>8 DEF Outcome

LEMMA EngineIsBackFits ==
  ASSUME Typed, EngineIsBack
  PROVE  \E m : Answers(m) /\ Fits(m) /\ Outcome(m)
<1> DEFINE m == [kind |-> "ssr"]
<1>1. /\ calls # <<>> /\ calls' = Tail(calls) /\ Call1.kind = "ssr" /\ queue' = Append(queue, m)
      /\ UNCHANGED <<adapterVars, lastId, engineVars, world>>
  BY DEF EngineIsBack, Serve, Call1
<1>2. m \in Message /\ m.kind = "ssr"
  BY OtherMessageKinds
<1> HIDE DEF m
<1>3. Good(batch, lastId, hwLast', m)
  BY <1>2 DEF Good, ItemKinds, Operation, HwCalls
<1>4. /\ \A k : ~Bears(batch, m, k)
      /\ \A h : ~Uses(batch, m, h)
      /\ \A h : ~Brings(batch, m, h) /\ ~Removes(batch, m, h) /\ ~Modifies(batch, m, h)
  BY <1>2 DEF Bears, Uses, Brings, Removes, Modifies, ItemKinds, HwCalls, Operation
<1>5. Fits(m)
  BY <1>1, <1>2, <1>3, <1>4 DEF Fits
<1>6. Keeps(m) /\ Answers(m)
  BY <1>1, <1>4 DEF Keeps, Answers, engineVars
<1> QED
  BY <1>5, <1>6 DEF Outcome

(* A fence the engine accepts.                                                *)
Accepted(o, h) ==
  /\ ~Down /\ hwLast' = h /\ h \in HwIds /\ h \in 1..hwLast' /\ UNCHANGED restarts
  /\ engine' \in [HwIds -> GeofenceObject \cup {NoObject}]
  /\ engine'[h] # NoObject /\ engine'[h] = o
  /\ \A g \in HwIds : g # h => engine'[g] = engine[g]

LEMMA AcceptTyped ==
  ASSUME Typed, NEW o \in GeofenceObject, Accept(o)
  PROVE  Accepted(o, hwLast + 1)
<1>1. /\ engine \in [HwIds -> GeofenceObject \cup {NoObject}] /\ hwLast \in 0..MaxHwId
      /\ MaxHwId \in Nat
  BY BoundsAssumption DEF Typed, TypeOK
<1>2. ~Down /\ hwLast < MaxHwId /\ hwLast' = hwLast + 1 /\ engine' = [engine EXCEPT ![hwLast + 1] = o]
      /\ UNCHANGED restarts
  BY DEF Accept
<1>3. hwLast + 1 \in HwIds /\ hwLast + 1 \in 1..hwLast'
  BY <1>1, <1>2 DEF HwIds
<1>4. o # NoObject
  BY ObjectParts
<1>5. /\ engine' \in [HwIds -> GeofenceObject \cup {NoObject}] /\ engine'[hwLast + 1] = o
      /\ \A g \in HwIds : g # hwLast + 1 => engine'[g] = engine[g]
  BY <1>1, <1>2, <1>3
<1> QED
  BY <1>2, <1>3, <1>4, <1>5 DEF Holds, Accepted

LEMMA AddServedFits ==
  ASSUME Typed, AddServed
  PROVE  \E m : Answers(m) /\ Fits(m) /\ Outcome(m)
<1>1. /\ calls # <<>> /\ calls' = Tail(calls) /\ Call1.kind = "add"
      /\ UNCHANGED <<adapterVars, lastId, world>>
  BY DEF AddServed, Serve, Call1
<1>2. Call1 \in Call /\ Good(batch, lastId, hwLast, Call1)
  BY <1>1, CallTyped
<1>3. Call1.b \in 1..MaxEvents /\ Call1.i \in Items /\ Call1.key \in Keys
  BY <1>1, <1>2, CallParts DEF Operation
<1>4. /\ IsItem(batch, Call1.b, Call1.i) /\ batch[Call1.b].op = "add"
      /\ Call1.key = KeyIn(batch, Call1.b, Call1.i)
  BY <1>1, <1>2 DEF Good, ItemKinds, Operation
<1>5. CASE Accept([key |-> Call1.key, paused |-> FALSE, modified |-> FALSE]) /\ Respond("success", hwLast')
  <2> DEFINE o == [key |-> Call1.key, paused |-> FALSE, modified |-> FALSE]
             h == hwLast + 1
             m == [kind |-> "done", b |-> Call1.b, i |-> Call1.i, err |-> "success", hw |-> hwLast']
  <2>1. o \in GeofenceObject /\ o.key = Call1.key /\ o.modified = FALSE
    BY <1>3 DEF GeofenceObject
  <2>2. Accept(o) /\ queue' = Append(queue, m)
    BY <1>5 DEF Respond
  <2> HIDE DEF o
  <2>3. /\ ~Down /\ hwLast' = h /\ h \in HwIds /\ h \in 1..hwLast' /\ UNCHANGED restarts
        /\ engine' \in [HwIds -> GeofenceObject \cup {NoObject}]
        /\ engine'[h] # NoObject /\ engine'[h] = o
        /\ \A g \in HwIds : g # h => engine'[g] = engine[g]
    BY <2>1, <2>2, AcceptTyped DEF Accepted
  <2> HIDE DEF h
  <2>4. m \in Message /\ m.kind = "done" /\ m.b = Call1.b /\ m.i = Call1.i /\ m.err = "success" /\ m.hw = h
    BY <1>3, <2>3, MessageKinds DEF Error
  <2> HIDE DEF m
  <2>5. Good(batch, lastId, hwLast', m)
    BY <1>4, <2>3, <2>4 DEF Good, ItemKinds, Operation, HwCalls
  <2>6. /\ \A k : Bears(batch, m, k) => Bears(batch, Call1, k)
        /\ Bears(batch, m, Call1.key)
        /\ \A g : ~Uses(batch, m, g)
        /\ \A g : ~Removes(batch, m, g) /\ ~Modifies(batch, m, g)
        /\ \A g : Brings(batch, m, g) <=> g = h
        /\ Brought(m) = FALSE
    BY <1>1, <1>4, <2>4 DEF Bears, Uses, Brings, Brought, Removes, Modifies, ItemKinds, HwCalls, Operation
  <2>7. Fits(m)
    BY <1>1, <2>4, <2>5, <2>6 DEF Fits
  <2>8. Accepts(m, Call1.key, h)
    BY <1>3, <2>1, <2>3, <2>4, <2>6 DEF Accepts, h
  <2>9. Answers(m)
    BY <1>1, <2>2, <2>3 DEF Answers
  <2> QED
    BY <2>7, <2>8, <2>9 DEF Outcome
<1>6. CASE Respond("failure", None) /\ UNCHANGED engineVars
  <2> DEFINE m == [kind |-> "done", b |-> Call1.b, i |-> Call1.i, err |-> "failure", hw |-> None]
  <2>1. queue' = Append(queue, m) /\ UNCHANGED engineVars
    BY <1>6 DEF Respond
  <2>2. m \in Message /\ m.kind = "done" /\ m.b = Call1.b /\ m.i = Call1.i /\ m.err = "failure"
    BY <1>3, MessageKinds DEF Error
  <2> HIDE DEF m
  <2>3. Good(batch, lastId, hwLast', m)
    BY <1>4, <2>2 DEF Good, ItemKinds, Operation, HwCalls
  <2>4. /\ \A k : Bears(batch, m, k) => Bears(batch, Call1, k)
        /\ \A g : ~Uses(batch, m, g)
        /\ \A g : ~Brings(batch, m, g) /\ ~Removes(batch, m, g) /\ ~Modifies(batch, m, g)
    BY <1>1, <1>4, <2>2 DEF Bears, Uses, Brings, Removes, Modifies, ItemKinds, HwCalls, Operation
  <2>5. Fits(m)
    BY <1>1, <2>2, <2>3, <2>4 DEF Fits
  <2>6. Keeps(m) /\ Answers(m)
    BY <1>1, <2>1, <2>4 DEF Keeps, Answers, engineVars
  <2> QED
    BY <2>5, <2>6 DEF Outcome
<1> QED
  BY <1>5, <1>6 DEF AddServed

LEMMA ReaddServedFits ==
  ASSUME Typed, ReaddServed
  PROVE  \E m : Answers(m) /\ Fits(m) /\ Outcome(m)
<1>1. /\ calls # <<>> /\ calls' = Tail(calls) /\ Call1.kind = "readd"
      /\ UNCHANGED <<adapterVars, lastId, world>>
  BY DEF ReaddServed, Serve, Call1
<1>2. Call1 \in Call /\ Good(batch, lastId, hwLast, Call1)
  BY <1>1, CallTyped
<1>3. Call1.object \in GeofenceObject
  BY <1>1, <1>2, CallParts
<1>4. /\ Call1.object.key \in Keys /\ Call1.object.modified \in BOOLEAN /\ Call1.object.key[2] <= lastId
  BY <1>1, <1>2, <1>3, ObjectParts DEF Good
<1> DEFINE was == Call1.object
<1>5. ASSUME NEW err \in {"success", "failure"}, NEW h \in HwIds \cup {None},
             err = "success" => h \in 1..hwLast'
      PROVE  LET m == [kind |-> "restored", object |-> was, err |-> err, hw |-> h] IN
             /\ Fits(m) /\ Brought(m) = was.modified /\ Bears(batch, m, was.key) /\ m.kind # "ssr"
             /\ \A g : ~Removes(batch, m, g) /\ ~Modifies(batch, m, g)
             /\ \A g : Brings(batch, m, g) <=> err = "success" /\ g = h
  <2> DEFINE m == [kind |-> "restored", object |-> was, err |-> err, hw |-> h]
  <2>1. m \in Message /\ m.kind = "restored" /\ m.object = was /\ m.err = err /\ m.hw = h
    BY <1>3, <1>5, OtherMessageKinds DEF Error
  <2> HIDE DEF m
  <2>2. Good(batch, lastId, hwLast', m)
    BY <1>4, <1>5, <2>1 DEF Good, ItemKinds, Operation, HwCalls
  <2>3. /\ \A k : Bears(batch, m, k) <=> k = was.key
        /\ \A k : Bears(batch, Call1, k) <=> k = was.key
    BY <1>1, <2>1 DEF Bears, ItemKinds, Operation
  <2>4. /\ \A g : ~Uses(batch, m, g)
        /\ \A g : ~Removes(batch, m, g) /\ ~Modifies(batch, m, g)
        /\ \A g : Brings(batch, m, g) <=> err = "success" /\ g = h
        /\ Brought(m) = was.modified
    BY <1>1, <2>1 DEF Uses, Brings, Brought, Removes, Modifies, HwCalls, Operation
  <2>5. Fits(m)
    BY <1>1, <2>1, <2>2, <2>3, <2>4 DEF Fits
  <2> QED
    BY <2>1, <2>3, <2>4, <2>5 DEF m
<1>6. CASE /\ Accept([was EXCEPT !.paused = FALSE])
           /\ queue' = Append(queue, [kind |-> "restored", object |-> was, err |-> "success", hw |-> hwLast'])
  <2> DEFINE o == [was EXCEPT !.paused = FALSE]
             h == hwLast + 1
             m == [kind |-> "restored", object |-> was, err |-> "success", hw |-> h]
  <2>1. o \in GeofenceObject /\ o.key = was.key /\ o.modified = was.modified
    BY <1>3 DEF GeofenceObject
  <2> HIDE DEF o
  <2>2. Accepted(o, h)
    BY <1>6, <2>1, AcceptTyped DEF o
  <2>3. /\ ~Down /\ hwLast' = h /\ h \in HwIds /\ h \in 1..hwLast' /\ UNCHANGED restarts
        /\ engine' \in [HwIds -> GeofenceObject \cup {NoObject}]
        /\ engine'[h] # NoObject /\ engine'[h] = o
        /\ \A g \in HwIds : g # h => engine'[g] = engine[g]
    BY <2>2 DEF Accepted
  <2>4. queue' = Append(queue, m)
    BY <1>6, <2>3
  <2> HIDE DEF h
  <2>5. /\ Fits(m) /\ Brought(m) = was.modified /\ Bears(batch, m, was.key) /\ m.kind # "ssr"
        /\ \A g : ~Removes(batch, m, g) /\ ~Modifies(batch, m, g)
        /\ \A g : Brings(batch, m, g) <=> g = h
    BY <1>5, <2>3
  <2> HIDE DEF m, was
  <2>6. Accepts(m, was.key, h)
    BY <1>4, <2>1, <2>3, <2>5 DEF Accepts, h, was
  <2>7. Answers(m)
    BY <1>1, <2>3, <2>4 DEF Answers
  <2> QED
    BY <2>5, <2>6, <2>7 DEF Outcome
<1>7. CASE /\ UNCHANGED engineVars
           /\ queue' = Append(queue, [kind |-> "restored", object |-> was, err |-> "failure", hw |-> None])
  <2> DEFINE m == [kind |-> "restored", object |-> was, err |-> "failure", hw |-> None]
  <2>1. queue' = Append(queue, m)
    BY <1>7
  <2>2. Fits(m) /\ \A g : ~Brings(batch, m, g) /\ ~Removes(batch, m, g) /\ ~Modifies(batch, m, g)
    BY <1>5
  <2> HIDE DEF m
  <2>3. Keeps(m) /\ Answers(m)
    BY <1>1, <1>7, <2>1, <2>2 DEF Keeps, Answers, engineVars
  <2> QED
    BY <2>2, <2>3 DEF Outcome
<1> QED
  BY <1>6, <1>7 DEF ReaddServed

(* What a done of an operation on a known fence says.                         *)
LEMMA ChangeAnswered ==
  ASSUME Typed, calls # <<>>, Call1.kind \in Operation \ {"add"}, NEW err \in {"success", "failure"},
         UNCHANGED hwLast,
         NEW m, m = [kind |-> "done", b |-> Call1.b, i |-> Call1.i, err |-> err, hw |-> Call1.hw]
  PROVE  /\ Fits(m) /\ Call1.hw \in HwIds /\ Uses(batch, Call1, Call1.hw)
         /\ \A g : ~Brings(batch, m, g)
         /\ \A g : Removes(batch, m, g) <=> err = "success" /\ Call1.kind = "remove" /\ g = Call1.hw
         /\ \A g : Modifies(batch, m, g) <=> err = "success" /\ Call1.kind = "modify" /\ g = Call1.hw
<1>1. Call1 \in Call /\ Good(batch, lastId, hwLast, Call1)
  BY CallTyped
<1>2. Call1.b \in 1..MaxEvents /\ Call1.i \in Items /\ Call1.hw \in HwIds
  BY <1>1, CallParts DEF HwCalls
<1>3. IsItem(batch, Call1.b, Call1.i) /\ batch[Call1.b].op = Call1.kind /\ Call1.hw \in 1..hwLast
  BY <1>1 DEF Good, ItemKinds, HwCalls
<1>4. m \in Message /\ m.kind = "done" /\ m.b = Call1.b /\ m.i = Call1.i /\ m.err = err /\ m.hw = Call1.hw
  BY <1>2, MessageKinds DEF Error
<1>5. Good(batch, lastId, hwLast', m)
  BY <1>3, <1>4 DEF Good, ItemKinds, Operation, HwCalls
<1>6. \A k : ~Bears(batch, m, k)
  BY <1>3, <1>4 DEF Bears, ItemKinds, Operation
<1>7. Uses(batch, Call1, Call1.hw) /\ \A g : Uses(batch, m, g) => g = Call1.hw
  BY <1>4 DEF Uses, HwCalls, Operation
<1>8. /\ \A g : ~Brings(batch, m, g)
      /\ \A g : Removes(batch, m, g) <=> err = "success" /\ Call1.kind = "remove" /\ g = Call1.hw
      /\ \A g : Modifies(batch, m, g) <=> err = "success" /\ Call1.kind = "modify" /\ g = Call1.hw
  BY <1>3, <1>4 DEF Brings, Removes, Modifies
<1>9. Fits(m)
  BY <1>4, <1>5, <1>6, <1>7 DEF Fits, Operation
<1> QED
  BY <1>2, <1>7, <1>8, <1>9

LEMMA ChangeServedFits ==
  ASSUME Typed, ChangeServed
  PROVE  \E m : Answers(m) /\ Fits(m) /\ Outcome(m)
<1> DEFINE h == Call1.hw
           kind == Call1.kind
<1>1. /\ calls # <<>> /\ calls' = Tail(calls) /\ kind \in Operation \ {"add"}
      /\ UNCHANGED <<adapterVars, lastId, hwLast, restarts, world>>
  BY DEF ChangeServed, Serve, Call1
<1>2. CASE /\ ~Down /\ Holds(h)
           /\ engine' = [engine EXCEPT ![h] = Change(kind, @)]
           /\ Respond("success", h)
  <2> DEFINE m == [kind |-> "done", b |-> Call1.b, i |-> Call1.i, err |-> "success", hw |-> h]
             o == engine[h]
             x == Change(kind, o)
  <2>1. queue' = Append(queue, m)
    BY <1>2 DEF Respond
  <2>2. /\ Fits(m) /\ h \in HwIds /\ Uses(batch, Call1, h)
        /\ \A g : ~Brings(batch, m, g)
        /\ \A g : Removes(batch, m, g) <=> kind = "remove" /\ g = h
        /\ \A g : Modifies(batch, m, g) <=> kind = "modify" /\ g = h
    BY <1>1, ChangeAnswered
  <2> HIDE DEF m
  <2>3. Answers(m)
    BY <1>1, <2>1 DEF Answers
  <2>4. engine \in [HwIds -> GeofenceObject \cup {NoObject}] /\ o \in GeofenceObject /\ o.modified \in BOOLEAN
    BY <1>2, <2>2, KnownParts DEF Typed, TypeOK
  <2>5. engine' = [engine EXCEPT ![h] = x]
    BY <1>2
  <2>6. CASE kind = "remove"
    <3>1. x = NoObject
      BY <2>6 DEF Change
    <3> HIDE DEF kind, x, h
    <3>2. Loses(m, h)
      BY <1>1, <1>2, <2>2, <2>5, <2>6, <3>1 DEF Loses
    <3> QED
      BY <2>2, <2>3, <3>2 DEF Outcome
  <2>7. CASE kind \in {"pause", "resume", "modify"}
    <3> HIDE DEF kind, o
    <3>1. x \in GeofenceObject /\ x.key = o.key /\ x.modified = (o.modified \/ kind = "modify")
      <4>1. CASE kind = "pause"
        BY <2>4, <4>1 DEF Change, GeofenceObject
      <4>2. CASE kind = "resume"
        BY <2>4, <4>2 DEF Change, GeofenceObject
      <4>3. CASE kind = "modify"
        BY <2>4, <4>3 DEF Change, GeofenceObject
      <4> QED
        BY <2>7, <4>1, <4>2, <4>3
    <3> HIDE DEF x
    <3>2. x # NoObject
      BY <3>1, ObjectParts
    <3>3. /\ engine' \in [HwIds -> GeofenceObject \cup {NoObject}]
          /\ engine'[h] = x /\ \A g \in HwIds : g # h => engine'[g] = engine[g]
      BY <2>2, <2>4, <2>5, <3>1
    <3>4. engine'[h] # NoObject
      BY <3>2, <3>3 DEF Holds
    <3> HIDE DEF h
    <3>5. Turns(m, h)
      BY <1>1, <1>2, <2>2, <2>7, <3>1, <3>3, <3>4 DEF Turns, o
    <3> QED
      BY <2>2, <2>3, <3>5 DEF Outcome
  <2> QED
    BY <1>1, <2>6, <2>7 DEF Operation
<1>3. CASE Respond("failure", h) /\ UNCHANGED engine
  <2> DEFINE m == [kind |-> "done", b |-> Call1.b, i |-> Call1.i, err |-> "failure", hw |-> h]
  <2>1. queue' = Append(queue, m)
    BY <1>3 DEF Respond
  <2>2. Fits(m) /\ \A g : ~Brings(batch, m, g) /\ ~Removes(batch, m, g) /\ ~Modifies(batch, m, g)
    BY <1>1, ChangeAnswered
  <2> HIDE DEF m
  <2>3. Keeps(m) /\ Answers(m)
    BY <1>1, <1>3, <2>1, <2>2 DEF Keeps, Answers
  <2> QED
    BY <2>2, <2>3 DEF Outcome
<1> QED
  BY <1>2, <1>3 DEF ChangeServed

LEMMA ClearServedFits ==
  ASSUME Typed, ClearServed
  PROVE  \E m : Answers(m) /\ Fits(m) /\ Outcome(m)
<1> DEFINE h == Call1.hw
<1>1. /\ calls # <<>> /\ calls' = Tail(calls) /\ Call1.kind = "clear"
      /\ UNCHANGED <<adapterVars, lastId, hwLast, restarts, world>>
  BY DEF ClearServed, Serve, Call1
<1>2. Call1 \in Call /\ Good(batch, lastId, hwLast, Call1)
  BY <1>1, CallTyped
<1>3. h \in HwIds /\ h \in 1..hwLast
  BY <1>1, <1>2, CallParts DEF Good, HwCalls
<1>4. Uses(batch, Call1, h)
  BY <1>1 DEF Uses, HwCalls
<1> HIDE DEF h
<1>5. ASSUME NEW err \in {"success", "failure"}, NEW m, m = [kind |-> "cleared", err |-> err, hw |-> h]
      PROVE  /\ Fits(m)
             /\ \A g : ~Brings(batch, m, g) /\ ~Modifies(batch, m, g)
             /\ \A g : Removes(batch, m, g) <=> err = "success" /\ g = h
  <2>1. m \in Message /\ m.kind = "cleared" /\ m.err = err /\ m.hw = h
    BY <1>3, <1>5, OtherMessageKinds DEF Error
  <2>2. Good(batch, lastId, hwLast', m)
    BY <1>1, <1>3, <2>1 DEF Good, ItemKinds, Operation, HwCalls
  <2>3. /\ \A k : ~Bears(batch, m, k)
        /\ \A g : Uses(batch, m, g) => g = h
        /\ \A g : ~Brings(batch, m, g) /\ ~Modifies(batch, m, g)
        /\ \A g : Removes(batch, m, g) <=> err = "success" /\ g = h
    BY <2>1 DEF Bears, ItemKinds, Operation, Uses, Brings, Modifies, Removes
  <2>4. Fits(m)
    BY <1>1, <1>4, <2>1, <2>2, <2>3 DEF Fits, h
  <2> QED
    BY <2>3, <2>4
<1>6. CASE /\ ~Down /\ Holds(h)
           /\ engine' = [engine EXCEPT ![h] = NoObject]
           /\ queue' = Append(queue, [kind |-> "cleared", err |-> "success", hw |-> h])
  <2> DEFINE m == [kind |-> "cleared", err |-> "success", hw |-> h]
  <2>1. /\ Fits(m) /\ \A g : ~Brings(batch, m, g) /\ ~Modifies(batch, m, g)
        /\ \A g : Removes(batch, m, g) <=> g = h
    BY <1>5
  <2>2. queue' = Append(queue, m)
    BY <1>6
  <2> HIDE DEF m
  <2>3. Loses(m, h)
    BY <1>1, <1>3, <1>4, <1>6, <2>1 DEF Loses
  <2>4. Answers(m)
    BY <1>1, <2>2 DEF Answers
  <2> QED
    BY <2>1, <2>3, <2>4 DEF Outcome
<1>7. CASE queue' = Append(queue, [kind |-> "cleared", err |-> "failure", hw |-> h]) /\ UNCHANGED engine
  <2> DEFINE m == [kind |-> "cleared", err |-> "failure", hw |-> h]
  <2>1. Fits(m) /\ \A g : ~Brings(batch, m, g) /\ ~Modifies(batch, m, g) /\ ~Removes(batch, m, g)
    BY <1>5
  <2>2. queue' = Append(queue, m)
    BY <1>7
  <2> HIDE DEF m
  <2>3. Keeps(m) /\ Answers(m)
    BY <1>1, <1>7, <2>1, <2>2 DEF Keeps, Answers
  <2> QED
    BY <2>1, <2>3 DEF Outcome
<1> QED
  BY <1>6, <1>7 DEF ClearServed, h

----------------------------------------------------------------------------
(* The engine's other steps, and the clients'. *)
Repauses ==
  /\ calls # <<>> /\ calls' = Tail(calls) /\ Call1.kind = "repause"
  /\ UNCHANGED <<adapterVars, lastId, queue, hwLast, restarts, world>>
  /\ engine' \in [HwIds -> GeofenceObject \cup {NoObject}]
  /\ \A h \in HwIds : /\ engine'[h] # NoObject <=> engine[h] # NoObject
                      /\ engine'[h].key = engine[h].key /\ engine'[h].modified = engine[h].modified

Restarts ==
  /\ engine' = [h \in HwIds |-> NoObject] /\ restarts' \in 0..MaxEvents
  /\ calls' = Append(calls, [kind |-> "ssr"])
  /\ UNCHANGED <<adapterVars, lastId, queue, hwLast, world>>

Posts(m) ==
  /\ queue' = Append(queue, m) /\ m \in Message /\ m.kind \in {"command", "removeClient", "breach"}
  /\ UNCHANGED <<clients, geofences, geofenceIds, told, calls, engineVars, world>>
  /\ batch' \in Seq(Batch) /\ Len(batch') <= MaxEvents /\ SameItems(batch, batch')
  /\ lastId' \in 0..MaxId /\ lastId <= lastId'
  /\ Good(batch', lastId', hwLast, m)
  /\ \A b \in DOMAIN batch' : DOMAIN batch'[b].ids \subseteq Items
  /\ \A b \in DOMAIN batch' : \A i, j \in DOMAIN batch'[b].ids :
       batch'[b].ids[i] <= lastId' /\ (batch'[b].ids[i] = batch'[b].ids[j] => i = j)
  /\ \A k \in Keys : Bears(batch', m, k) => k[2] > lastId
  /\ m.kind = "breach" => Holds(m.hw) /\ m.hw \in HwIds /\ m.key = engine[m.hw].key

LEMMA RepauseServedRepauses ==
  ASSUME Typed, RepauseServed
  PROVE  Repauses
<1> DEFINE h == Call1.hw
<1>1. /\ calls # <<>> /\ calls' = Tail(calls) /\ Call1.kind = "repause"
      /\ engine' = IF ~Down /\ Holds(h) THEN [engine EXCEPT ![h].paused = TRUE] ELSE engine
      /\ UNCHANGED <<adapterVars, lastId, queue, hwLast, restarts, world>>
  BY DEF RepauseServed, Serve, Call1
<1>2. h \in HwIds
  BY <1>1, CallTyped, CallParts DEF HwCalls
<1>3. engine \in [HwIds -> GeofenceObject \cup {NoObject}]
  BY DEF Typed, TypeOK
<1> HIDE DEF h
<1>4. CASE Holds(h) /\ ~Down
  <2> DEFINE x == [engine[h] EXCEPT !.paused = TRUE]
  <2>1. engine[h] \in GeofenceObject
    BY <1>2, <1>4, KnownParts DEF Typed
  <2>2. x \in GeofenceObject /\ x.key = engine[h].key /\ x.modified = engine[h].modified
    BY <2>1 DEF GeofenceObject
  <2>3. engine' = [engine EXCEPT ![h] = x]
    BY <1>1, <1>4
  <2>4. x # NoObject
    BY <2>2, ObjectParts
  <2> HIDE DEF x
  <2>5. engine' \in [HwIds -> GeofenceObject \cup {NoObject}]
    BY <1>3, <2>2, <2>3
  <2>6. \A g \in HwIds : engine'[g] = IF g = h THEN x ELSE engine[g]
    BY <1>3, <2>3
  <2> QED
    BY <1>1, <1>4, <2>2, <2>4, <2>5, <2>6 DEF Repauses, Holds
<1>5. CASE ~(Holds(h) /\ ~Down)
  BY <1>1, <1>3, <1>5 DEF Repauses
<1> QED
  BY <1>4, <1>5

LEMMA EngineRestartsRestarts ==
  ASSUME Typed, EngineRestarts
  PROVE  Restarts
<1>1. restarts \in 0..MaxEvents /\ Len(batch) \in Nat /\ MaxEvents \in Nat
  BY BoundsAssumption DEF Typed, TypeOK
<1>2. restarts' = restarts + 1 /\ Len(batch) + restarts < MaxEvents
  BY DEF EngineRestarts, Room
<1>3. restarts' \in 0..MaxEvents
  BY <1>1, <1>2
<1> QED
  BY <1>3 DEF EngineRestarts, Restarts

(* Who posts a message and gives no command. *)
LEMMA PostsPlain ==
  ASSUME Typed, NEW m \in Message, m.kind \in {"removeClient", "breach"}, queue' = Append(queue, m),
         UNCHANGED <<adapterVars, lastId, calls, engineVars, world>>,
         m.kind = "breach" => Holds(m.hw) /\ m.hw \in HwIds /\ m.key = engine[m.hw].key
  PROVE  Posts(m)
<1>1. ASSUME m.kind = "breach"
      PROVE  m.hw \in 1..hwLast
  BY <1>1 DEF HwIds, Typed, TypeOK, IdsGiven
<1>2. Good(batch, lastId, hwLast, m)
  BY <1>1 DEF Good, ItemKinds, Operation, HwCalls
<1>3. \A k : ~Bears(batch, m, k)
  BY DEF Bears, ItemKinds, Operation
<1>4. batch' = batch /\ lastId' = lastId
  BY DEF adapterVars
<1>5. batch \in Seq(Batch) /\ Len(batch) <= MaxEvents /\ lastId \in 0..MaxId /\ lastId <= lastId
  BY DEF Typed, TypeOK
<1>6. /\ \A b \in DOMAIN batch : DOMAIN batch[b].ids \subseteq Items
      /\ \A b \in DOMAIN batch : \A i, j \in DOMAIN batch[b].ids :
           batch[b].ids[i] <= lastId /\ (batch[b].ids[i] = batch[b].ids[j] => i = j)
  BY DEF Typed, IdsGiven
<1> QED
  BY <1>2, <1>3, <1>4, <1>5, <1>6, SameItemsSame DEF Posts, adapterVars

LEMMA EngineBreachesPosts ==
  ASSUME Typed, EngineBreaches
  PROVE  \E m : Posts(m)
<1>1. PICK h \in HwIds : Holds(h) /\ queue' = Append(queue, [kind |-> "breach", hw |-> h, key |-> engine[h].key])
  BY DEF EngineBreaches
<1> DEFINE m == [kind |-> "breach", hw |-> h, key |-> engine[h].key]
<1>2. engine[h].key \in Keys
  BY <1>1, KnownParts DEF Typed
<1>3. m \in Message /\ m.kind = "breach" /\ m.hw = h /\ m.key = engine[h].key
  BY <1>2, OtherMessageKinds
<1>4. queue' = Append(queue, m)
  BY <1>1
<1> HIDE DEF m
<1>5. UNCHANGED <<adapterVars, lastId, calls, engineVars, world>>
  BY DEF EngineBreaches
<1>6. Posts(m)
  BY <1>1, <1>3, <1>4, <1>5, PostsPlain
<1> QED
  BY <1>6

LEMMA RemoveClientCommandPosts ==
  ASSUME Typed, RemoveClientCommand
  PROVE  \E m : Posts(m)
<1>1. PICK c \in Clients : queue' = Append(queue, [kind |-> "removeClient", client |-> c])
  BY DEF RemoveClientCommand
<1> DEFINE m == [kind |-> "removeClient", client |-> c]
<1>2. m \in Message /\ m.kind = "removeClient"
  BY OtherMessageKinds
<1>3. queue' = Append(queue, m)
  BY <1>1
<1> HIDE DEF m
<1>4. UNCHANGED <<adapterVars, lastId, calls, engineVars, world>>
  BY DEF RemoveClientCommand
<1>5. Posts(m)
  BY <1>2, <1>3, <1>4, PostsPlain
<1> QED
  BY <1>5

(* A command's ids are given, each once; an add's are new.                    *)
LEMMA CommandPosts ==
  ASSUME Typed, NEW op \in Operation, NEW c \in Clients, NEW n \in Items, NEW ids \in [1..n -> 1..MaxId],
         lastId' \in 0..MaxId, lastId <= lastId',
         \A i, j \in 1..n : ids[i] <= lastId' /\ (ids[i] = ids[j] => i = j),
         op = "add" => \A i \in 1..n : ids[i] > lastId,
         Command(op, c, ids)
  PROVE  \E m : Posts(m)
<1> DEFINE b == Len(batch) + 1
           x == [op |-> op, client |-> c, ids |-> ids,
                 errs |-> [i \in Items |-> "uninitialised"],
                 truth |-> [i \in Items |-> "pending"], reports |-> 0, early |-> FALSE]
           m == [kind |-> "command", b |-> b]
<1>1. /\ batch' = Append(batch, x) /\ queue' = Append(queue, m) /\ Len(batch) + restarts < MaxEvents
      /\ UNCHANGED <<clients, geofences, geofenceIds, told, calls, engineVars, world>>
  BY DEF Command, Room
<1>2. /\ batch \in Seq(Batch) /\ Len(batch) \in Nat /\ restarts \in Nat /\ MaxEvents \in Nat /\ lastId \in Nat
      /\ MaxItems \in Nat
  BY BoundsAssumption DEF Typed, TypeOK
<1>3. ids \in Seq(1..MaxId) /\ DOMAIN ids = 1..n /\ 1..n \subseteq Items
  <2>1. n \in Nat /\ n <= MaxItems
    BY <1>2 DEF Items
  <2>2. 1..n \subseteq Items
    BY <1>2, <2>1 DEF Items
  <2> QED
    BY <2>1, <2>2, Listed
<1>4. x \in Batch
  <2> DEFINE errs == [i \in Items |-> "uninitialised"]
             truth == [i \in Items |-> "pending"]
  <2>1. errs \in [Items -> Error \cup {"uninitialised"}] /\ truth \in [Items -> Error \cup {"pending"}]
    OBVIOUS
  <2>2. x = [op |-> op, client |-> c, ids |-> ids, errs |-> errs, truth |-> truth,
             reports |-> 0, early |-> FALSE]
    OBVIOUS
  <2> HIDE DEF errs, truth, x
  <2> QED
    BY <1>3, <2>1, <2>2 DEF Batch
<1>5. x.op = op /\ x.client = c /\ x.ids = ids
  OBVIOUS
<1>6. m \in Message /\ m.kind = "command" /\ m.b = b
  BY <1>1, <1>2, OtherMessageKinds
<1>7. /\ batch' \in Seq(Batch) /\ Len(batch') = b /\ DOMAIN batch' = DOMAIN batch \cup {b}
      /\ \A a \in DOMAIN batch : batch'[a] = batch[a]
      /\ batch'[b] = x
  <2> HIDE DEF x
  <2> QED
    BY <1>1, <1>2, <1>4, AppendElements
<1> HIDE DEF x, m
<1>8. b <= MaxEvents /\ b \in Nat
  BY <1>1, <1>2
<1> HIDE DEF b
<1>9. SameItems(batch, batch')
  BY <1>7 DEF SameItems
<1>10. Good(batch', lastId', hwLast, m)
  BY <1>6, <1>7 DEF Good, ItemKinds, Operation, HwCalls
<1>11. \A a \in DOMAIN batch' : DOMAIN batch'[a].ids \subseteq Items
  BY <1>3, <1>5, <1>7 DEF Typed, IdsGiven
<1>12. \A a \in DOMAIN batch' : \A i, j \in DOMAIN batch'[a].ids :
         batch'[a].ids[i] <= lastId' /\ (batch'[a].ids[i] = batch'[a].ids[j] => i = j)
  <2>1. ASSUME NEW a \in DOMAIN batch, NEW i \in DOMAIN batch[a].ids, NEW j \in DOMAIN batch[a].ids
        PROVE  batch[a].ids[i] <= lastId' /\ (batch[a].ids[i] = batch[a].ids[j] => i = j)
    <3>1. batch[a].ids[i] <= lastId /\ (batch[a].ids[i] = batch[a].ids[j] => i = j)
      BY DEF Typed, IdsGiven
    <3>2. batch[a] \in Batch
      BY <1>2
    <3>3. batch[a].ids \in Seq(1..MaxId)
      BY <3>2, BatchParts
    <3>4. batch[a].ids[i] \in 1..MaxId
      BY <3>3, ElementTyped
    <3> QED
      BY <1>2, <3>1, <3>4
  <2>2. /\ \A a \in DOMAIN batch : batch'[a].ids = batch[a].ids
        /\ batch'[b].ids = ids
    BY <1>5, <1>7
  <2>3. ASSUME NEW i \in DOMAIN batch'[b].ids, NEW j \in DOMAIN batch'[b].ids
        PROVE  batch'[b].ids[i] <= lastId' /\ (batch'[b].ids[i] = batch'[b].ids[j] => i = j)
    <3>1. i \in 1..n /\ j \in 1..n
      BY <1>3, <2>2
    <3> QED
      BY <2>2, <3>1
  <2>4. ASSUME NEW a \in DOMAIN batch, NEW i \in DOMAIN batch'[a].ids, NEW j \in DOMAIN batch'[a].ids
        PROVE  batch'[a].ids[i] <= lastId' /\ (batch'[a].ids[i] = batch'[a].ids[j] => i = j)
    BY <2>1, <2>2
  <2> QED
    BY <1>7, <2>3, <2>4
<1>13. \A k \in Keys : Bears(batch', m, k) => k[2] > lastId
  <2> SUFFICES ASSUME NEW k \in Keys, Bears(batch', m, k)
               PROVE  k[2] > lastId
    OBVIOUS
  <2>1. x.op = "add" /\ \E i \in DOMAIN x.ids : <<x.client, x.ids[i]>> = k
    BY <1>6, <1>7 DEF Bears, ItemKinds, Operation, KeyIn
  <2>2. PICK i \in 1..n : <<c, ids[i]>> = k
    BY <1>3, <1>5, <2>1
  <2>3. k[2] = ids[i]
    BY <2>2
  <2>4. op = "add"
    BY <1>5, <2>1
  <2> QED
    BY <2>3, <2>4
<1>14. Len(batch') <= MaxEvents
  BY <1>7, <1>8
<1>15. Posts(m)
  BY <1>1, <1>6, <1>7, <1>9, <1>10, <1>11, <1>12, <1>13, <1>14 DEF Posts, m, b
<1> QED
  BY <1>15

LEMMA ClientPosts ==
  ASSUME Typed, ClientStep
  PROVE  \E m : Posts(m)
<1>1. lastId \in Nat /\ MaxId \in Nat /\ lastId <= MaxId /\ MaxItems \in Nat
  BY BoundsAssumption DEF Typed, TypeOK
<1>2. CASE AddGeofencesCommand
  <2>1. PICK c \in Clients, n \in Items : /\ lastId + n <= MaxId /\ lastId' = lastId + n
                                         /\ Command("add", c, [i \in 1..n |-> lastId + i])
    BY <1>2 DEF AddGeofencesCommand
  <2> DEFINE ids == [i \in 1..n |-> lastId + i]
  <2>2. n \in Nat
    BY <1>1 DEF Items
  <2>3. ids \in [1..n -> 1..MaxId]
    BY <1>1, <2>1, <2>2
  <2>4. /\ lastId' \in 0..MaxId /\ lastId <= lastId'
        /\ \A i, j \in 1..n : ids[i] <= lastId' /\ (ids[i] = ids[j] => i = j)
        /\ \A i \in 1..n : ids[i] > lastId
    BY <1>1, <2>1, <2>2
  <2>5. Command("add", c, ids)
    BY <2>1
  <2> HIDE DEF ids
  <2> QED
    BY <2>1, <2>3, <2>4, <2>5, CommandPosts DEF Operation
<1>3. CASE ChangeGeofencesCommand
  <2>0. PICK c \in Clients, op \in Operation \ {"add"}, n \in Items :
          \E ids \in [1..n -> 1..lastId] :
            /\ \A i, j \in 1..n : i # j => ids[i] # ids[j]
            /\ Command(op, c, ids) /\ UNCHANGED lastId
    BY <1>3 DEF ChangeGeofencesCommand
  <2>1. PICK ids \in [1..n -> 1..lastId] :
          /\ \A i, j \in 1..n : i # j => ids[i] # ids[j]
          /\ Command(op, c, ids) /\ lastId' = lastId
    BY <2>0
  <2>2. ids \in [1..n -> 1..MaxId] /\ \A i \in 1..n : ids[i] <= lastId
    BY <1>1, <2>1
  <2>3. lastId' \in 0..MaxId /\ lastId <= lastId'
    BY <1>1, <2>1
  <2>4. \A i, j \in 1..n : ids[i] <= lastId' /\ (ids[i] = ids[j] => i = j)
    BY <2>1, <2>2
  <2> QED
    BY <2>1, <2>2, <2>3, <2>4, CommandPosts
<1>4. CASE RemoveClientCommand
  BY <1>4, RemoveClientCommandPosts
<1> QED
  BY <1>2, <1>3, <1>4 DEF ClientStep

(* Every step is of one of five kinds.                                        *)
LEMMA StepKinds ==
  ASSUME Typed, MapsAgree, BorneOnce, Next
  PROVE  \/ Frame /\ (\E L : Hands(L) /\ Added(L)) /\ Handled
         \/ \E m : Answers(m) /\ Fits(m) /\ Outcome(m)
         \/ Repauses
         \/ Restarts
         \/ \E m : Posts(m)
<1>1. CASE AdapterStep
  BY <1>1, AdapterHands
<1>2. CASE EngineStep
  BY <1>2, CallQueueServedFits, AddServedFits, ReaddServedFits, ChangeServedFits, ClearServedFits,
     EngineIsBackFits, RepauseServedRepauses, EngineRestartsRestarts, EngineBreachesPosts DEF EngineStep
<1>3. CASE ClientStep
  BY <1>3, ClientPosts
<1> QED
  BY <1>1, <1>2, <1>3 DEF Next

----------------------------------------------------------------------------
(* What was on its way means the same after any step. *)
MeansSame(m) ==
  /\ \A k : Bears(batch', m, k) <=> Bears(batch, m, k)
  /\ \A h : /\ Brings(batch', m, h) <=> Brings(batch, m, h)
            /\ Uses(batch', m, h) <=> Uses(batch, m, h)
            /\ Removes(batch', m, h) <=> Removes(batch, m, h)
            /\ Forgets(batch', m, h) <=> Forgets(batch, m, h)
            /\ Modifies(batch', m, h) <=> Modifies(batch, m, h)

Grows == SameItems(batch, batch') /\ lastId' \in 0..MaxId /\ hwLast' \in 0..MaxHwId
           /\ lastId <= lastId' /\ hwLast <= hwLast'

LEMMA MailGrows ==
  ASSUME Typed, Grows, NEW m \in Message \cup Call, Good(batch, lastId, hwLast, m)
  PROVE  Good(batch', lastId', hwLast', m) /\ MeansSame(m)
<1>1. /\ SameItems(batch, batch') /\ lastId' \in Nat /\ hwLast' \in Nat /\ lastId <= lastId'
      /\ hwLast <= hwLast' /\ lastId \in Nat /\ hwLast \in Nat
  BY BoundsAssumption DEF Grows, Typed, TypeOK
<1>2. Good(batch', lastId', hwLast', m)
  BY <1>1, GoodGrows
<1>3. MeansSame(m)
  BY <1>1, SameMeaning DEF MeansSame
<1> QED
  BY <1>2, <1>3

LEMMA MailKept ==
  ASSUME Typed, Grows
  PROVE  /\ \A i \in DOMAIN queue : Good(batch', lastId', hwLast', queue[i]) /\ MeansSame(queue[i])
         /\ \A i \in DOMAIN calls : Good(batch', lastId', hwLast', calls[i]) /\ MeansSame(calls[i])
<1>1. queue \in Seq(Message) /\ calls \in Seq(Call)
  BY DEF Typed, TypeOK
<1>2. ASSUME NEW i \in DOMAIN queue
      PROVE  Good(batch', lastId', hwLast', queue[i]) /\ MeansSame(queue[i])
  <2>1. queue[i] \in Message /\ Good(batch, lastId, hwLast, queue[i])
    BY <1>1, ElementTyped DEF Typed, GoodMail
  <2> QED
    BY <2>1, MailGrows
<1>3. ASSUME NEW i \in DOMAIN calls
      PROVE  Good(batch', lastId', hwLast', calls[i]) /\ MeansSame(calls[i])
  <2>1. calls[i] \in Call /\ Good(batch, lastId, hwLast, calls[i])
    BY <1>1, ElementTyped DEF Typed, GoodMail
  <2> QED
    BY <2>1, MailGrows
<1> QED
  BY <1>2, <1>3

LEMMA SameBatchGrows ==
  ASSUME Typed, SameItems(batch, batch'), UNCHANGED lastId, hwLast' \in 0..MaxHwId, hwLast <= hwLast'
  PROVE  Grows
  BY DEF Grows, Typed, TypeOK

LEMMA TypedAfterAdapter ==
  ASSUME Typed, Frame, NEW L, Hands(L), Added(L)
  PROVE  Typed' /\ Grows
<1>1. /\ queue \in Seq(Message) /\ calls \in Seq(Call) /\ L \in Seq(Call) /\ batch \in Seq(Batch)
      /\ hwLast \in 0..MaxHwId /\ lastId \in 0..MaxId
  BY DEF Typed, TypeOK, Added
<1>2. /\ queue # <<>> /\ queue' = Tail(queue) /\ calls' = calls \o L
      /\ UNCHANGED <<lastId, engineVars, world>>
  BY DEF Hands
<1>3. batch' \in Seq(Batch) /\ Len(batch') = Len(batch) /\ SameItems(batch, batch')
  BY DEF Frame
<1>4. Grows
  BY <1>1, <1>2, <1>3, SameBatchGrows DEF engineVars
<1>5. TypeOK'
  <2>1. queue' \in Seq(Message)
    BY <1>1, <1>2, TailElements
  <2>2. calls' \in Seq(Call)
    BY <1>1, <1>2, ConcatElements
  <2> QED
    BY <1>2, <1>3, <2>1, <2>2 DEF Frame, Status, Typed, TypeOK, engineVars
<1>6. \A i \in DOMAIN queue' : Good(batch', lastId', hwLast', queue'[i])
  <2>1. \A i \in DOMAIN queue' : i + 1 \in DOMAIN queue /\ queue'[i] = queue[i + 1]
    BY <1>1, <1>2, TailElements
  <2> QED
    BY <1>4, <2>1, MailKept
<1>7. \A i \in DOMAIN calls' : Good(batch', lastId', hwLast', calls'[i])
  <2>1. ASSUME NEW j \in DOMAIN L
        PROVE  Good(batch', lastId', hwLast', L[j])
    <3>1. L[j] \in Call /\ Good(batch, lastId, hwLast, L[j])
      BY <1>1, ElementTyped DEF Added
    <3> QED
      BY <1>4, <3>1, MailGrows
  <2>2. ASSUME NEW i \in DOMAIN calls'
        PROVE  Good(batch', lastId', hwLast', calls'[i])
    <3>1. \/ i \in DOMAIN calls /\ calls'[i] = calls[i]
          \/ i - Len(calls) \in DOMAIN L /\ calls'[i] = L[i - Len(calls)]
      BY <1>1, <1>2, ConcatCases
    <3> QED
      BY <1>4, <2>1, <3>1, MailKept
  <2> QED
    BY <2>2
<1>8. GoodMail'
  BY <1>6, <1>7 DEF GoodMail
<1>9. IdsGiven'
  <2>1. DOMAIN batch' = DOMAIN batch
    BY <1>1, <1>3
  <2>2. \A b \in DOMAIN batch' : batch'[b].ids = batch[b].ids
    BY <1>3, <2>1 DEF SameItems
  <2>3. lastId' = lastId /\ hwLast' = hwLast /\ engine' = engine
    BY <1>2 DEF engineVars
  <2>4. /\ \A b \in DOMAIN batch' : DOMAIN batch'[b].ids \subseteq Items
        /\ \A b \in DOMAIN batch' : \A i, j \in DOMAIN batch'[b].ids :
             batch'[b].ids[i] <= lastId' /\ (batch'[b].ids[i] = batch'[b].ids[j] => i = j)
    BY <2>1, <2>2, <2>3 DEF Typed, IdsGiven
  <2>5. \A h \in HwIds : Knows(h)' => geofences'[h].key[2] <= lastId' /\ h <= hwLast'
    BY <2>3 DEF Frame
  <2>6. \A h \in HwIds : Holds(h)' => h <= hwLast'
    BY <2>3 DEF Typed, IdsGiven, Holds
  <2> QED
    BY <2>4, <2>5, <2>6 DEF IdsGiven
<1> QED
  BY <1>4, <1>5, <1>8, <1>9 DEF Typed

LEMMA OutcomeTyped ==
  ASSUME Typed, NEW m, Outcome(m)
  PROVE  /\ engine' \in [HwIds -> GeofenceObject \cup {NoObject}]
         /\ hwLast' \in 0..MaxHwId /\ hwLast <= hwLast'
         /\ \A h \in HwIds : Holds(h)' => h <= hwLast'
<1>1. engine \in [HwIds -> GeofenceObject \cup {NoObject}] /\ hwLast \in 0..MaxHwId
  BY DEF Typed, TypeOK
<1>2. \A h \in HwIds : Holds(h) => h <= hwLast
  BY DEF Typed, IdsGiven
<1>3. CASE Keeps(m)
  BY <1>1, <1>2, <1>3 DEF Keeps, Holds
<1>4. ASSUME NEW k, NEW h, Accepts(m, k, h)
      PROVE  /\ engine' \in [HwIds -> GeofenceObject \cup {NoObject}]
             /\ hwLast' \in 0..MaxHwId /\ hwLast <= hwLast'
             /\ \A g \in HwIds : Holds(g)' => g <= hwLast'
  <2>1. /\ h = hwLast + 1 /\ hwLast' = h /\ h \in HwIds
        /\ engine' \in [HwIds -> GeofenceObject \cup {NoObject}]
        /\ \A g \in HwIds : g # h => engine'[g] = engine[g]
    BY <1>4 DEF Accepts
  <2>2. MaxHwId \in Nat
    BY BoundsAssumption
  <2>3. hwLast' \in 0..MaxHwId /\ hwLast <= hwLast'
    BY <1>1, <2>1, <2>2 DEF HwIds
  <2>4. ASSUME NEW g \in HwIds, Holds(g)'
        PROVE  g <= hwLast'
    <3>1. g \in Int
      BY DEF HwIds
    <3>2. CASE g = h
      BY <1>1, <2>1, <3>2
    <3>3. CASE g # h
      <4>1. Holds(g)
        BY <2>1, <2>4, <3>3 DEF Holds
      <4> QED
        BY <1>1, <1>2, <2>1, <3>1, <4>1
    <3> QED
      BY <3>2, <3>3
  <2> QED
    BY <2>1, <2>3, <2>4
<1>5. ASSUME NEW h, Loses(m, h)
      PROVE  /\ engine' \in [HwIds -> GeofenceObject \cup {NoObject}]
             /\ hwLast' \in 0..MaxHwId /\ hwLast <= hwLast'
             /\ \A g \in HwIds : Holds(g)' => g <= hwLast'
  <2>1. engine' = [engine EXCEPT ![h] = NoObject] /\ hwLast' = hwLast
    BY <1>5 DEF Loses
  <2>2. /\ engine' \in [HwIds -> GeofenceObject \cup {NoObject}]
        /\ \A g \in HwIds : engine'[g] = engine[g] \/ engine'[g] = NoObject
    BY <1>1, <2>1
  <2> QED
    BY <1>1, <1>2, <2>1, <2>2 DEF Holds
<1>6. ASSUME NEW h, Turns(m, h)
      PROVE  /\ engine' \in [HwIds -> GeofenceObject \cup {NoObject}]
             /\ hwLast' \in 0..MaxHwId /\ hwLast <= hwLast'
             /\ \A g \in HwIds : Holds(g)' => g <= hwLast'
  <2>1. /\ engine' \in [HwIds -> GeofenceObject \cup {NoObject}] /\ hwLast' = hwLast
        /\ Holds(h) /\ \A g \in HwIds : g # h => engine'[g] = engine[g]
    BY <1>6 DEF Turns
  <2> QED
    BY <1>1, <1>2, <2>1 DEF Holds
<1> QED
  BY <1>3, <1>4, <1>5, <1>6 DEF Outcome

LEMMA TypedAfterAnswer ==
  ASSUME Typed, NEW m, Answers(m), Fits(m), Outcome(m)
  PROVE  Typed' /\ Grows
<1>1. queue \in Seq(Message) /\ calls \in Seq(Call)
  BY DEF Typed, TypeOK
<1>2. /\ calls # <<>> /\ calls' = Tail(calls) /\ queue' = Append(queue, m)
      /\ UNCHANGED <<adapterVars, lastId, restarts, world>>
  BY DEF Answers
<1>3. /\ engine' \in [HwIds -> GeofenceObject \cup {NoObject}]
      /\ hwLast' \in 0..MaxHwId /\ hwLast <= hwLast'
      /\ \A h \in HwIds : Holds(h)' => h <= hwLast'
  BY OutcomeTyped
<1>4. m \in Message /\ Good(batch, lastId, hwLast', m)
  BY DEF Fits
<1>5. batch' = batch /\ lastId' = lastId
  BY <1>2 DEF adapterVars
<1>6. Grows
  BY <1>3, <1>5, SameItemsSame, SameBatchGrows
<1>7. TypeOK'
  <2>1. queue' \in Seq(Message)
    BY <1>1, <1>2, <1>4, AppendElements
  <2>2. calls' \in Seq(Call)
    BY <1>1, <1>2, TailElements
  <2> QED
    BY <1>2, <1>3, <2>1, <2>2 DEF Typed, TypeOK, adapterVars
<1>8. \A i \in DOMAIN queue' : Good(batch', lastId', hwLast', queue'[i])
  <2>1. \A i \in DOMAIN queue' : \/ i \in DOMAIN queue /\ queue'[i] = queue[i]
                                 \/ queue'[i] = m
    BY <1>1, <1>2, <1>4, AppendElements
  <2> QED
    BY <1>4, <1>5, <1>6, <2>1, MailKept
<1>9. \A i \in DOMAIN calls' : Good(batch', lastId', hwLast', calls'[i])
  <2>1. \A i \in DOMAIN calls' : i + 1 \in DOMAIN calls /\ calls'[i] = calls[i + 1]
    BY <1>1, <1>2, TailElements
  <2> QED
    BY <1>6, <2>1, MailKept
<1>10. IdsGiven'
  <2>1. ASSUME NEW h \in HwIds, Knows(h)'
        PROVE  geofences'[h].key[2] <= lastId' /\ h <= hwLast'
    <3>1. Knows(h) /\ geofences' = geofences
      BY <1>2, <2>1 DEF Knows, adapterVars
    <3>2. h \in Int /\ hwLast \in Int /\ hwLast' \in Int
      BY <1>3 DEF HwIds, Typed, TypeOK
    <3>3. geofences[h].key[2] <= lastId /\ h <= hwLast
      BY <3>1 DEF Typed, IdsGiven
    <3> QED
      BY <1>3, <1>5, <3>1, <3>2, <3>3
  <2> QED
    BY <1>3, <1>5, <2>1 DEF Typed, IdsGiven
<1> QED
  BY <1>6, <1>7, <1>8, <1>9, <1>10 DEF Typed, GoodMail

LEMMA TypedAfterRepause ==
  ASSUME Typed, Repauses
  PROVE  Typed' /\ Grows
<1>1. queue \in Seq(Message) /\ calls \in Seq(Call)
  BY DEF Typed, TypeOK
<1>2. /\ calls # <<>> /\ calls' = Tail(calls)
      /\ UNCHANGED <<adapterVars, lastId, queue, hwLast, restarts, world>>
      /\ engine' \in [HwIds -> GeofenceObject \cup {NoObject}]
      /\ \A h \in HwIds : engine'[h] # NoObject <=> engine[h] # NoObject
  BY DEF Repauses
<1>3. batch' = batch /\ lastId' = lastId
  BY <1>2 DEF adapterVars
<1>4. Grows
  BY <1>2, <1>3, SameItemsSame, SameBatchGrows DEF Typed, TypeOK
<1>5. calls' \in Seq(Call)
  BY <1>1, <1>2, TailElements
<1>6. TypeOK'
  BY <1>2, <1>5 DEF Typed, TypeOK, adapterVars
<1>7. \A i \in DOMAIN calls' : Good(batch', lastId', hwLast', calls'[i])
  <2>1. \A i \in DOMAIN calls' : i + 1 \in DOMAIN calls /\ calls'[i] = calls[i + 1]
    BY <1>1, <1>2, TailElements
  <2> QED
    BY <1>4, <2>1, MailKept
<1>8. GoodMail'
  BY <1>2, <1>4, <1>7, MailKept DEF GoodMail
<1>9. IdsGiven'
  BY <1>2 DEF Typed, IdsGiven, Knows, Holds, adapterVars
<1> QED
  BY <1>4, <1>6, <1>8, <1>9 DEF Typed

LEMMA TypedAfterRestart ==
  ASSUME Typed, Restarts
  PROVE  Typed' /\ Grows
<1>1. queue \in Seq(Message) /\ calls \in Seq(Call)
  BY DEF Typed, TypeOK
<1>2. /\ engine' = [h \in HwIds |-> NoObject] /\ restarts' \in 0..MaxEvents
      /\ calls' = Append(calls, [kind |-> "ssr"])
      /\ UNCHANGED <<adapterVars, lastId, queue, hwLast, world>>
  BY DEF Restarts
<1> DEFINE m == [kind |-> "ssr"]
<1>3. m \in Call /\ m.kind = "ssr" /\ calls' = Append(calls, m)
  BY <1>2, HwCallKinds
<1> HIDE DEF m
<1>4. batch' = batch /\ lastId' = lastId
  BY <1>2 DEF adapterVars
<1>5. Grows
  BY <1>2, <1>4, SameItemsSame, SameBatchGrows DEF Typed, TypeOK
<1>6. calls' \in Seq(Call)
  BY <1>1, <1>3, AppendElements
<1>7. TypeOK'
  BY <1>2, <1>6 DEF Typed, TypeOK, adapterVars
<1>8. \A i \in DOMAIN calls' : Good(batch', lastId', hwLast', calls'[i])
  <2>1. \A i \in DOMAIN calls' : (i \in DOMAIN calls /\ calls'[i] = calls[i]) \/ calls'[i] = m
    BY <1>1, <1>3, AppendElements
  <2>2. Good(batch', lastId', hwLast', m)
    BY <1>3 DEF Good, ItemKinds, Operation, HwCalls
  <2> QED
    BY <1>5, <2>1, <2>2, MailKept
<1>9. GoodMail'
  BY <1>2, <1>5, <1>8, MailKept DEF GoodMail
<1>10. IdsGiven'
  BY <1>2 DEF Typed, IdsGiven, Knows, Holds, adapterVars
<1> QED
  BY <1>5, <1>7, <1>9, <1>10 DEF Typed

LEMMA TypedAfterPost ==
  ASSUME Typed, NEW m, Posts(m)
  PROVE  Typed' /\ Grows
<1>1. queue \in Seq(Message) /\ hwLast \in 0..MaxHwId
  BY DEF Typed, TypeOK
<1>2. /\ queue' = Append(queue, m) /\ m \in Message
      /\ UNCHANGED <<clients, geofences, geofenceIds, told, calls, engineVars, world>>
      /\ batch' \in Seq(Batch) /\ Len(batch') <= MaxEvents /\ SameItems(batch, batch')
      /\ lastId' \in 0..MaxId /\ lastId <= lastId'
      /\ Good(batch', lastId', hwLast, m)
      /\ \A b \in DOMAIN batch' : DOMAIN batch'[b].ids \subseteq Items
      /\ \A b \in DOMAIN batch' : \A i, j \in DOMAIN batch'[b].ids :
           batch'[b].ids[i] <= lastId' /\ (batch'[b].ids[i] = batch'[b].ids[j] => i = j)
  BY DEF Posts
<1>3. Grows
  BY <1>1, <1>2 DEF Grows, engineVars
<1>4. queue' \in Seq(Message)
  BY <1>1, <1>2, AppendElements
<1>5. TypeOK'
  BY <1>2, <1>4 DEF Typed, TypeOK, engineVars
<1>6. \A i \in DOMAIN queue' : Good(batch', lastId', hwLast', queue'[i])
  <2>1. \A i \in DOMAIN queue' : (i \in DOMAIN queue /\ queue'[i] = queue[i]) \/ queue'[i] = m
    BY <1>1, <1>2, AppendElements
  <2> QED
    BY <1>2, <1>3, <2>1, MailKept DEF engineVars
<1>7. GoodMail'
  BY <1>2, <1>3, <1>6, MailKept DEF GoodMail
<1>8. IdsGiven'
  <2>1. ASSUME NEW h \in HwIds, Knows(h)'
        PROVE  geofences'[h].key[2] <= lastId' /\ h <= hwLast'
    <3>1. Knows(h) /\ geofences' = geofences /\ hwLast' = hwLast
      BY <1>2, <2>1 DEF Knows, engineVars
    <3>2. geofences[h].key[2] <= lastId /\ h <= hwLast
      BY <3>1 DEF Typed, IdsGiven
    <3>3. geofences[h] \in GeofenceObject
      BY <3>1, KnownParts DEF Typed
    <3>4. geofences[h].key[2] \in Int /\ lastId \in Int /\ lastId' \in Int
      BY <1>2, <3>3, ObjectParts DEF Typed, TypeOK
    <3> QED
      BY <1>2, <3>1, <3>2, <3>4
  <2> QED
    BY <1>2, <2>1 DEF Typed, IdsGiven, Holds, engineVars
<1> QED
  BY <1>3, <1>5, <1>7, <1>8 DEF Typed

----------------------------------------------------------------------------
(* BorneOnce. *)

LEMMA BorneMeans ==
  ASSUME NEW bt, NEW bt2, NEW s, NEW t, NEW g, NEW k, Borne(bt, s, t, g, k),
         \A i \in DOMAIN s : Bears(bt2, s[i], k) <=> Bears(bt, s[i], k),
         \A i \in DOMAIN t : Bears(bt2, t[i], k) <=> Bears(bt, t[i], k)
  PROVE  Borne(bt2, s, t, g, k)
<1>1. Single(bt2, s, k) /\ Single(bt2, t, k)
  BY DEF Borne, Single
<1>2. (Free(bt, s, k) <=> Free(bt2, s, k)) /\ (Free(bt, t, k) <=> Free(bt2, t, k))
  BY DEF Free
<1> QED
  BY <1>1, <1>2 DEF Borne

LEMMA BorneAppend ==
  ASSUME NEW S, NEW bt, NEW s \in Seq(S), NEW m \in S, NEW t, NEW g, NEW k, Borne(bt, s, t, g, k),
         Bears(bt, m, k) => Free(bt, s, k) /\ Free(bt, t, k) /\ Unknown(g, k)
  PROVE  Borne(bt, Append(s, m), t, g, k)
<1>1. /\ DOMAIN Append(s, m) = DOMAIN s \cup {Len(s) + 1} /\ Append(s, m)[Len(s) + 1] = m
      /\ \A i \in DOMAIN s : Append(s, m)[i] = s[i] /\ i < Len(s) + 1 /\ i \in Nat
      /\ Len(s) \in Nat
  BY AppendElements
<1>2. CASE Bears(bt, m, k)
  <2>1. Single(bt, Append(s, m), k)
    BY <1>1, <1>2 DEF Single, Free
  <2> QED
    BY <1>2, <2>1 DEF Borne
<1>3. CASE ~Bears(bt, m, k)
  <2>1. Single(bt, Append(s, m), k)
    BY <1>1, <1>3 DEF Single, Borne
  <2>2. Free(bt, s, k) => Free(bt, Append(s, m), k)
    BY <1>1, <1>3 DEF Free
  <2> QED
    BY <2>1, <2>2 DEF Borne
<1> QED
  BY <1>2, <1>3

LEMMA BearsGiven ==
  ASSUME Typed, NEW m \in Message \cup Call, Good(batch, lastId, hwLast, m), NEW k \in Keys,
         Bears(batch, m, k)
  PROVE  k[2] <= lastId
<1>1. ASSUME NEW b, NEW i, IsItem(batch, b, i), KeyIn(batch, b, i) = k
      PROVE  k[2] <= lastId
  <2>1. KeyIn(batch, b, i)[2] = batch[b].ids[i]
    BY <1>1, KeyTyped DEF Typed
  <2>2. batch[b].ids[i] <= lastId
    BY <1>1 DEF IsItem, Typed, IdsGiven
  <2> QED
    BY <1>1, <2>1, <2>2
<1>2. CASE m.kind = "command" /\ \E i \in DOMAIN batch[m.b].ids : KeyIn(batch, m.b, i) = k
  BY <1>1, <1>2 DEF Good, IsItem
<1>3. CASE m.kind \in ItemKinds /\ KeyIn(batch, m.b, m.i) = k
  BY <1>1, <1>3 DEF Good
<1>4. CASE m.kind \in {"readd", "restored"} /\ m.object.key = k
  BY <1>4 DEF Good
<1> QED
  BY <1>2, <1>3, <1>4 DEF Bears

LEMMA NewIsFree ==
  ASSUME Typed, NEW k \in Keys, k[2] > lastId
  PROVE  Free(batch, queue, k) /\ Free(batch, calls, k) /\ Unknown(geofences, k)
<1>1. queue \in Seq(Message) /\ calls \in Seq(Call) /\ lastId \in Nat /\ k[2] \in Nat
  BY DEF Typed, TypeOK, Keys
<1>2. ~(k[2] <= lastId)
  BY <1>1
<1>3. ASSUME NEW i \in DOMAIN queue
      PROVE  ~Bears(batch, queue[i], k)
  <2>1. queue[i] \in Message /\ Good(batch, lastId, hwLast, queue[i])
    BY <1>1, ElementTyped DEF Typed, GoodMail
  <2> QED
    BY <1>2, <2>1, BearsGiven
<1>4. ASSUME NEW i \in DOMAIN calls
      PROVE  ~Bears(batch, calls[i], k)
  <2>1. calls[i] \in Call /\ Good(batch, lastId, hwLast, calls[i])
    BY <1>1, ElementTyped DEF Typed, GoodMail
  <2> QED
    BY <1>2, <2>1, BearsGiven
<1>5. ASSUME NEW h \in HwIds, geofences[h].key = k
      PROVE  FALSE
  <2>1. Knows(h)
    BY <1>5, KnownParts DEF Typed
  <2> QED
    BY <1>2, <1>5, <2>1 DEF Typed, IdsGiven
<1> QED
  BY <1>3, <1>4, <1>5 DEF Free, Unknown

(* What handling a message does to the fences with the key k.                 *)
LEMMA HandledKnownOnce ==
  ASSUME Typed, BorneOnce, queue # <<>>, Handled, NEW k \in Keys
  PROVE  /\ KnownOnce(geofences', k)
         /\ Unknown(geofences, k) => Unknown(geofences', k) \/ Bears(batch, Head(queue), k)
<1>1. KnownOnce(geofences, k)
  BY DEF BorneOnce, Borne
<1>2. ASSUME \A h \in HwIds : geofences'[h].key = geofences[h].key \/ geofences'[h].key \notin Keys
      PROVE  KnownOnce(geofences', k) /\ (Unknown(geofences, k) => Unknown(geofences', k))
  <2>1. \A h \in HwIds : geofences'[h].key = k => geofences[h].key = k
    BY <1>2
  <2> QED
    BY <1>1, <2>1 DEF KnownOnce, Unknown
<1>3. geofences \in [HwIds -> GeofenceObject \cup {NoObject}]
  BY DEF Typed, TypeOK
<1>4. CASE Rests
  BY <1>2, <1>4 DEF Rests
<1>5. ASSUME NEW k0, NEW h, Saves(k0, h)
      PROVE  /\ KnownOnce(geofences', k)
             /\ Unknown(geofences, k) => Unknown(geofences', k) \/ Bears(batch, Head(queue), k)
  <2>1. /\ k0 \in Keys /\ h \in HwIds /\ Bears(batch, Head(queue), k0) /\ geofences'[h].key = k0
        /\ \A g \in HwIds : g # h => geofences'[g] = geofences[g]
    BY <1>5 DEF Saves, Msg
  <2>2. CASE k0 = k
    <3>1. ~Free(batch, queue, k)
      BY <2>1, <2>2, TailElements DEF Free, Typed, TypeOK
    <3>2. Unknown(geofences, k)
      BY <3>1 DEF BorneOnce, Borne
    <3>3. \A g \in HwIds : geofences'[g].key = k => g = h
      BY <2>1, <3>2 DEF Unknown
    <3> QED
      BY <2>1, <2>2, <3>3 DEF KnownOnce
  <2>3. CASE k0 # k
    <3>1. \A g \in HwIds : geofences'[g].key = k => geofences[g].key = k
      BY <2>1, <2>3
    <3> QED
      BY <1>1, <3>1 DEF KnownOnce, Unknown
  <2> QED
    BY <2>2, <2>3
<1>6. ASSUME NEW h, Drops(h)
      PROVE  KnownOnce(geofences', k) /\ (Unknown(geofences, k) => Unknown(geofences', k))
  <2>1. \A g \in HwIds : geofences'[g] = geofences[g] \/ geofences'[g] = NoObject
    BY <1>3, <1>6 DEF Drops, RemoveGeofenceItem
  <2> QED
    BY <1>2, <2>1, NoObjectHasNoKey
<1>7. ASSUME NEW h, Clears(h)
      PROVE  KnownOnce(geofences', k) /\ (Unknown(geofences, k) => Unknown(geofences', k))
  <2>1. \A g \in HwIds : geofences'[g] = geofences[g] \/ geofences'[g] = NoObject
    BY <1>3, <1>7 DEF Clears
  <2> QED
    BY <1>2, <2>1, NoObjectHasNoKey
<1>8. CASE Resets
  <2>1. \A g \in HwIds : geofences'[g] = NoObject
    BY <1>8 DEF Resets
  <2> QED
    BY <1>2, <2>1, NoObjectHasNoKey
<1>9. ASSUME NEW c, Stops(c)
      PROVE  KnownOnce(geofences', k) /\ (Unknown(geofences, k) => Unknown(geofences', k))
  BY <1>2, <1>9 DEF Stops
<1> QED
  BY <1>4, <1>5, <1>6, <1>7, <1>8, <1>9 DEF Handled

LEMMA BorneAfterAdapter ==
  ASSUME Typed, BorneOnce, Frame, NEW L, Hands(L), Added(L), Handled
  PROVE  BorneOnce'
<1>1. /\ queue \in Seq(Message) /\ calls \in Seq(Call) /\ L \in Seq(Call)
      /\ queue # <<>> /\ queue' = Tail(queue) /\ calls' = calls \o L
  BY DEF Typed, TypeOK, Added, Hands
<1>2. Grows
  BY TypedAfterAdapter
<1>3. ASSUME NEW k \in Keys
      PROVE  Borne(batch, queue', calls', geofences', k)
  <2>1. Borne(batch, queue, calls, geofences, k)
    BY DEF BorneOnce
  <2>2. /\ KnownOnce(geofences', k)
        /\ Unknown(geofences, k) => Unknown(geofences', k) \/ Bears(batch, Head(queue), k)
    BY <1>1, HandledKnownOnce
  <2>3. /\ Single(batch, L, k)
        /\ \/ Free(batch, L, k)
           \/ Bears(batch, Head(queue), k) /\ UNCHANGED geofences
           \/ ~Unknown(geofences, k) /\ Unknown(geofences', k)
    BY DEF Added
  <2>4. Bears(batch, Head(queue), k) => Unknown(geofences, k)
    BY <1>1, <2>1, FreeTail DEF Borne
  <2>5. Free(batch, L, k) \/ Unknown(geofences', k)
    BY <2>3, <2>4
  <2>6. (Free(batch, L, k) /\ Unknown(geofences', k)) \/ Bears(batch, Head(queue), k) \/ ~Unknown(geofences, k)
    BY <2>2, <2>3
  <2>7. Borne(batch, Tail(queue), calls \o L, geofences', k)
    BY <1>1, <2>1, <2>2, <2>3, <2>5, <2>6, Handover
  <2> QED
    BY <1>1, <2>7
<1>4. \A i \in DOMAIN queue' : MeansSame(queue'[i])
  <2>1. \A i \in DOMAIN queue' : i + 1 \in DOMAIN queue /\ queue'[i] = queue[i + 1]
    BY <1>1, TailElements
  <2> QED
    BY <1>2, <2>1, MailKept
<1>5. \A i \in DOMAIN calls' : MeansSame(calls'[i])
  <2>1. ASSUME NEW j \in DOMAIN L
        PROVE  MeansSame(L[j])
    <3>1. L[j] \in Call /\ Good(batch, lastId, hwLast, L[j])
      BY <1>1, ElementTyped DEF Added
    <3> QED
      BY <1>2, <3>1, MailGrows
  <2>2. ASSUME NEW i \in DOMAIN calls'
        PROVE  MeansSame(calls'[i])
    <3>1. \/ i \in DOMAIN calls /\ calls'[i] = calls[i]
          \/ i - Len(calls) \in DOMAIN L /\ calls'[i] = L[i - Len(calls)]
      BY <1>1, ConcatCases
    <3> QED
      BY <1>2, <2>1, <3>1, MailKept
  <2> QED
    BY <2>2
<1>6. ASSUME NEW k \in Keys
      PROVE  Borne(batch', queue', calls', geofences', k)
  <2>1. /\ \A i \in DOMAIN queue' : Bears(batch', queue'[i], k) <=> Bears(batch, queue'[i], k)
        /\ \A i \in DOMAIN calls' : Bears(batch', calls'[i], k) <=> Bears(batch, calls'[i], k)
    BY <1>4, <1>5 DEF MeansSame
  <2> QED
    BY <1>3, <2>1, BorneMeans
<1> QED
  BY <1>6 DEF BorneOnce

LEMMA BorneAfterAnswer ==
  ASSUME Typed, BorneOnce, NEW m, Answers(m), Fits(m)
  PROVE  BorneOnce'
<1>1. /\ queue \in Seq(Message) /\ calls \in Seq(Call) /\ calls # <<>>
      /\ calls' = Tail(calls) /\ queue' = Append(queue, m) /\ UNCHANGED adapterVars
  BY DEF Typed, TypeOK, Answers
<1>2. m \in Message /\ \A k \in Keys : Bears(batch, m, k) => Bears(batch, Head(calls), k)
  BY DEF Fits, Call1
<1> DEFINE L == <<m>>
<1>3. L \in Seq(Message) /\ DOMAIN L = {1} /\ L[1] = m /\ queue \o L = Append(queue, m)
  BY <1>1, <1>2, ConcatOne
<1> HIDE DEF L
<1>4. ASSUME NEW k \in Keys
      PROVE  Borne(batch, queue', calls', geofences, k)
  <2>1. Borne(batch, queue, calls, geofences, k)
    BY DEF BorneOnce
  <2>2. Borne(batch, calls, queue, geofences, k)
    BY <2>1, BorneSwap
  <2>3. Single(batch, L, k) /\ KnownOnce(geofences, k)
    BY <1>3, <2>1 DEF Single, Borne
  <2>4. Bears(batch, Head(calls), k) => Unknown(geofences, k)
    BY <1>1, <2>1, FreeTail DEF Borne
  <2>5. Free(batch, L, k) \/ Bears(batch, Head(calls), k)
    BY <1>2, <1>3 DEF Free
  <2>6. Free(batch, L, k) \/ Unknown(geofences, k)
    BY <2>4, <2>5
  <2>7. \/ Free(batch, L, k) /\ Unknown(geofences, k)
        \/ Bears(batch, Head(calls), k)
        \/ ~Unknown(geofences, k)
    BY <2>5
  <2>8. Borne(batch, Tail(calls), queue \o L, geofences, k)
    BY <1>1, <1>3, <2>2, <2>3, <2>6, <2>7, Handover
  <2>9. Borne(batch, queue \o L, Tail(calls), geofences, k)
    BY <2>8, BorneSwap
  <2> QED
    BY <1>1, <1>3, <2>9
<1>5. batch' = batch /\ geofences' = geofences
  BY <1>1 DEF adapterVars
<1> QED
  BY <1>4, <1>5 DEF BorneOnce

LEMMA BorneAfterRepause ==
  ASSUME Typed, BorneOnce, Repauses
  PROVE  BorneOnce'
<1>1. /\ calls \in Seq(Call) /\ calls # <<>> /\ calls' = Tail(calls) /\ UNCHANGED <<adapterVars, queue>>
  BY DEF Typed, TypeOK, Repauses
<1>2. ASSUME NEW k \in Keys
      PROVE  Borne(batch, queue, calls', geofences, k)
  <2>1. Borne(batch, queue, calls, geofences, k)
    BY DEF BorneOnce
  <2> QED
    BY <1>1, <2>1, FreeTail DEF Borne
<1> QED
  BY <1>1, <1>2 DEF BorneOnce, adapterVars

LEMMA BorneAfterRestart ==
  ASSUME Typed, BorneOnce, Restarts
  PROVE  BorneOnce'
<1> DEFINE m == [kind |-> "ssr"]
<1>1. /\ calls \in Seq(Call) /\ calls' = Append(calls, m) /\ UNCHANGED <<adapterVars, queue>>
      /\ m \in Call /\ m.kind = "ssr"
  BY HwCallKinds DEF Typed, TypeOK, Restarts
<1> HIDE DEF m
<1>2. \A k : ~Bears(batch, m, k)
  BY <1>1 DEF Bears, ItemKinds, Operation
<1>3. ASSUME NEW k \in Keys
      PROVE  Borne(batch, queue, calls', geofences, k)
  <2>1. Borne(batch, calls, queue, geofences, k)
    BY BorneSwap DEF BorneOnce
  <2>2. Borne(batch, Append(calls, m), queue, geofences, k)
    BY <1>1, <1>2, <2>1, BorneAppend
  <2> QED
    BY <1>1, <2>2, BorneSwap
<1> QED
  BY <1>1, <1>3 DEF BorneOnce, adapterVars

LEMMA BorneAfterPost ==
  ASSUME Typed, BorneOnce, NEW m, Posts(m)
  PROVE  BorneOnce'
<1>1. /\ queue \in Seq(Message) /\ queue' = Append(queue, m) /\ m \in Message
      /\ UNCHANGED <<geofences, calls>>
      /\ \A k \in Keys : Bears(batch', m, k) => k[2] > lastId
  BY DEF Typed, TypeOK, Posts
<1>2. Grows
  BY TypedAfterPost
<1>3. /\ \A i \in DOMAIN queue : MeansSame(queue[i])
      /\ \A i \in DOMAIN calls : MeansSame(calls[i])
  BY <1>2, MailKept
<1>4. ASSUME NEW k \in Keys
      PROVE  Borne(batch', queue', calls', geofences', k)
  <2>1. /\ \A i \in DOMAIN queue : Bears(batch', queue[i], k) <=> Bears(batch, queue[i], k)
        /\ \A i \in DOMAIN calls : Bears(batch', calls[i], k) <=> Bears(batch, calls[i], k)
    BY <1>3 DEF MeansSame
  <2>2. Borne(batch', queue, calls, geofences, k)
    BY <2>1, BorneMeans DEF BorneOnce
  <2>3. ASSUME Bears(batch', m, k)
        PROVE  Free(batch', queue, k) /\ Free(batch', calls, k) /\ Unknown(geofences, k)
    <3>1. Free(batch, queue, k) /\ Free(batch, calls, k) /\ Unknown(geofences, k)
      BY <1>1, <2>3, NewIsFree
    <3> QED
      BY <2>1, <3>1 DEF Free
  <2>4. Borne(batch', Append(queue, m), calls, geofences, k)
    BY <1>1, <2>2, <2>3, BorneAppend
  <2> QED
    BY <1>1, <2>4
<1> QED
  BY <1>4 DEF BorneOnce

----------------------------------------------------------------------------
(* How the mail moves in each kind of step. *)
Moves(L) ==
  /\ \A i \in DOMAIN queue' : /\ i \in Nat /\ i > 0 /\ i + 1 \in DOMAIN queue
                              /\ queue'[i] = queue[i + 1] /\ MeansSame(queue[i + 1])
  /\ 1 \in DOMAIN queue /\ queue[1] = Msg
  /\ \A i \in DOMAIN queue : i \in Nat /\ i > 0 /\ (i # 1 => i - 1 \in DOMAIN queue' /\ queue'[i - 1] = queue[i])
  /\ \A i \in DOMAIN calls' : \/ \E j \in DOMAIN calls : calls'[i] = calls[j] /\ MeansSame(calls[j])
                              \/ \E j \in DOMAIN L : calls'[i] = L[j] /\ MeansSame(L[j])
  /\ \A j \in DOMAIN calls : j \in DOMAIN calls' /\ calls'[j] = calls[j]
  /\ Len(queue) \in Nat /\ Len(queue') = Len(queue) - 1

Arrives(m) ==
  /\ DOMAIN queue' = DOMAIN queue \cup {Len(queue) + 1}
  /\ \A i \in DOMAIN queue : /\ queue'[i] = queue[i] /\ i \in Nat /\ i > 0 /\ i < Len(queue) + 1
                             /\ MeansSame(queue[i])
  /\ queue'[Len(queue) + 1] = m
  /\ Len(queue) \in Nat /\ Len(queue') = Len(queue) + 1

Served ==
  /\ 1 \in DOMAIN calls /\ calls[1] = Call1
  /\ \A i \in DOMAIN calls' : i + 1 \in DOMAIN calls /\ calls'[i] = calls[i + 1]
  /\ \A i \in DOMAIN calls : i # 1 => i - 1 \in DOMAIN calls' /\ calls'[i - 1] = calls[i]

LEMMA AdapterMoves ==
  ASSUME Typed, Frame, NEW L, Hands(L), Added(L)
  PROVE  Moves(L)
<1>1. /\ queue \in Seq(Message) /\ calls \in Seq(Call) /\ L \in Seq(Call)
      /\ queue # <<>> /\ queue' = Tail(queue) /\ calls' = calls \o L
  BY DEF Typed, TypeOK, Added, Hands
<1>2. Grows
  BY TypedAfterAdapter
<1>3. /\ \A i \in DOMAIN queue' : /\ i \in Nat /\ i > 0 /\ i + 1 \in DOMAIN queue
                                  /\ queue'[i] = queue[i + 1]
      /\ 1 \in DOMAIN queue /\ queue[1] = Msg
      /\ \A i \in DOMAIN queue : i \in Nat /\ i > 0 /\ (i # 1 => i - 1 \in DOMAIN queue' /\ queue'[i - 1] = queue[i])
      /\ Len(queue) \in Nat /\ Len(queue') = Len(queue) - 1
  BY <1>1, TailElements DEF Msg
<1>4. \A i \in DOMAIN queue' : MeansSame(queue[i + 1])
  BY <1>2, <1>3, MailKept
<1>5. \A j \in DOMAIN L : MeansSame(L[j])
  <2> SUFFICES ASSUME NEW j \in DOMAIN L
               PROVE  MeansSame(L[j])
    OBVIOUS
  <2>1. L[j] \in Call /\ Good(batch, lastId, hwLast, L[j])
    BY <1>1, ElementTyped DEF Added
  <2> QED
    BY <1>2, <2>1, MailGrows
<1>6. ASSUME NEW i \in DOMAIN calls'
      PROVE  \/ \E j \in DOMAIN calls : calls'[i] = calls[j] /\ MeansSame(calls[j])
             \/ \E j \in DOMAIN L : calls'[i] = L[j] /\ MeansSame(L[j])
  <2>1. \/ i \in DOMAIN calls /\ calls'[i] = calls[i]
        \/ i - Len(calls) \in DOMAIN L /\ calls'[i] = L[i - Len(calls)]
    BY <1>1, ConcatCases
  <2> QED
    BY <1>2, <1>5, <2>1, MailKept
<1>7. \A j \in DOMAIN calls : j \in DOMAIN calls' /\ calls'[j] = calls[j]
  BY <1>1, ConcatElements
<1> QED
  BY <1>3, <1>4, <1>6, <1>7 DEF Moves

LEMMA AppendArrives ==
  ASSUME Typed, Grows, NEW m \in Message, queue' = Append(queue, m)
  PROVE  Arrives(m)
<1>1. queue \in Seq(Message)
  BY DEF Typed, TypeOK
<1> QED
  BY <1>1, AppendElements, MailKept DEF Arrives

LEMMA AnswerArrives ==
  ASSUME Typed, NEW m, Answers(m), Fits(m), Outcome(m)
  PROVE  Arrives(m) /\ Served
<1>1. calls \in Seq(Call) /\ calls # <<>> /\ calls' = Tail(calls) /\ queue' = Append(queue, m) /\ m \in Message
  BY DEF Typed, TypeOK, Answers, Fits
<1>2. Served
  BY <1>1, TailElements DEF Served, Call1
<1> QED
  BY <1>1, <1>2, TypedAfterAnswer, AppendArrives

LEMMA RepauseServes ==
  ASSUME Typed, Repauses
  PROVE  Served
<1>1. calls \in Seq(Call) /\ calls # <<>> /\ calls' = Tail(calls)
  BY DEF Typed, TypeOK, Repauses
<1> QED
  BY <1>1, TailElements DEF Served, Call1

LEMMA PostArrives ==
  ASSUME Typed, NEW m, Posts(m)
  PROVE  Arrives(m) /\ \A i \in DOMAIN calls : MeansSame(calls[i])
  BY TypedAfterPost, AppendArrives, MailKept DEF Posts

(* What is posted answers nothing.                                            *)
LEMMA PostIsPlain ==
  ASSUME NEW m, Posts(m), NEW h
  PROVE  /\ ~Brings(batch', m, h) /\ ~Uses(batch', m, h) /\ ~Removes(batch', m, h)
         /\ ~Forgets(batch', m, h) /\ ~Modifies(batch', m, h) /\ m.kind \notin {"ssr", "cleared"}
  BY DEF Posts, Brings, Uses, Removes, Forgets, Modifies, HwCalls, Operation

LEMMA SsrIsPlain ==
  ASSUME NEW bt, NEW h, NEW m, m.kind = "ssr"
  PROVE  ~Brings(bt, m, h) /\ ~Uses(bt, m, h) /\ ~Removes(bt, m, h) /\ ~Modifies(bt, m, h)
  BY DEF Brings, Uses, Removes, Modifies, HwCalls, Operation

(* Relations between what a message does.                                     *)
LEMMA Meanings ==
  ASSUME NEW bt, NEW m
  PROVE  /\ \A h : Removes(bt, m, h) \/ Modifies(bt, m, h) => Uses(bt, m, h)
         /\ \A h, g : Removes(bt, m, h) /\ Removes(bt, m, g) => h = g
         /\ \A h, g : Brings(bt, m, h) => ~Removes(bt, m, g) /\ ~Modifies(bt, m, g)
         /\ \A h, g : Brings(bt, m, h) /\ Brings(bt, m, g) => h = g
         /\ \A h, g : Removes(bt, m, h) => ~Modifies(bt, m, g)
         /\ \A h : Brings(bt, m, h) \/ Removes(bt, m, h) \/ Modifies(bt, m, h) =>
                     m.kind \in {"done", "restored", "cleared"}
         /\ \A h : Brings(bt, m, h) => m.kind \in {"done", "restored"}
         /\ \A h, k, l : Brings(bt, m, h) /\ Bears(bt, m, k) /\ Bears(bt, m, l) => k = l
  BY DEF Removes, Modifies, Uses, Brings, Bears, ItemKinds, Operation

(* The engine's ids on their way were given.                                  *)
LEMMA UsesGiven ==
  ASSUME NEW bt, NEW id, NEW hw, NEW m, Good(bt, id, hw, m), NEW h,
         Brings(bt, m, h) \/ Uses(bt, m, h) \/ Removes(bt, m, h) \/ Modifies(bt, m, h)
  PROVE  h \in 1..hw
  BY DEF Good, Brings, Uses, Removes, Modifies

LEMMA MailGiven ==
  ASSUME Typed
  PROVE  /\ \A i \in DOMAIN queue : \A h :
              \/ Brings(batch, queue[i], h) \/ Uses(batch, queue[i], h)
              \/ Removes(batch, queue[i], h) \/ Modifies(batch, queue[i], h)
              => h \in 1..hwLast
         /\ \A i \in DOMAIN calls : \A h : Uses(batch, calls[i], h) => h \in 1..hwLast
  BY UsesGiven DEF Typed, GoodMail

LEMMA NotTheNext ==
  ASSUME Typed
  PROVE  /\ hwLast + 1 \notin 1..hwLast
         /\ \A h \in HwIds : Knows(h) \/ Holds(h) => h \in 1..hwLast
<1>1. hwLast \in Nat
  BY DEF Typed, TypeOK
<1>2. \A h \in HwIds : Knows(h) \/ Holds(h) => h <= hwLast
  BY DEF Typed, IdsGiven
<1> QED
  BY <1>1, <1>2 DEF HwIds

----------------------------------------------------------------------------
(* BroughtOnce. *)

LEMMA HandledKnows ==
  ASSUME Typed, Handled, NEW h \in HwIds, Knows(h)'
  PROVE  \/ Knows(h) /\ geofences'[h].key = geofences[h].key
         \/ Brings(batch, Msg, h)
<1>1. geofences \in [HwIds -> GeofenceObject \cup {NoObject}]
  BY DEF Typed, TypeOK
<1>2. geofences'[h] # NoObject
  BY DEF Knows
<1>3. ASSUME geofences'[h] = geofences[h]
      PROVE  Knows(h) /\ geofences'[h].key = geofences[h].key
  BY <1>2, <1>3 DEF Knows
<1>4. CASE Rests
  BY <1>4 DEF Rests
<1>5. ASSUME NEW k, NEW g, Saves(k, g)
      PROVE  geofences'[h] = geofences[h] \/ Brings(batch, Msg, h)
  BY <1>5 DEF Saves
<1>6. ASSUME NEW g, Drops(g)
      PROVE  geofences'[h] = geofences[h]
  BY <1>1, <1>2, <1>6 DEF Drops, RemoveGeofenceItem
<1>7. ASSUME NEW g, Clears(g)
      PROVE  geofences'[h] = geofences[h]
  BY <1>1, <1>2, <1>7 DEF Clears
<1>8. CASE Resets
  BY <1>2, <1>8 DEF Resets
<1>9. ASSUME NEW c, Stops(c)
      PROVE  geofences'[h] = geofences[h]
  BY <1>9 DEF Stops
<1> QED
  BY <1>3, <1>4, <1>5, <1>6, <1>7, <1>8, <1>9 DEF Handled

LEMMA BroughtAfterAdapter ==
  ASSUME Typed, BroughtOnce, Frame, NEW L, Hands(L), Added(L), Handled
  PROVE  BroughtOnce'
<1>1. Moves(L)
  BY AdapterMoves
<1> SUFFICES ASSUME NEW h \in HwIds, NEW i \in DOMAIN queue', Brings(batch', queue'[i], h)
             PROVE  /\ ~Knows(h)'
                    /\ \A j \in DOMAIN queue' : Brings(batch', queue'[j], h) => i = j
                    /\ \A j \in DOMAIN queue' : ~Uses(batch', queue'[j], h)
                    /\ \A j \in DOMAIN calls' : ~Uses(batch', calls'[j], h)
  BY DEF BroughtOnce
<1>2. i + 1 \in DOMAIN queue /\ i \in Nat /\ i > 0 /\ Brings(batch, queue[i + 1], h)
  BY <1>1 DEF Moves, MeansSame
<1>3. /\ ~Knows(h)
      /\ \A j \in DOMAIN queue : Brings(batch, queue[j], h) => i + 1 = j
      /\ \A j \in DOMAIN queue : ~Uses(batch, queue[j], h)
      /\ \A j \in DOMAIN calls : ~Uses(batch, calls[j], h)
  BY <1>2 DEF BroughtOnce
<1>4. ~Brings(batch, Msg, h)
  BY <1>1, <1>2, <1>3 DEF Moves
<1>5. ~Knows(h)'
  BY <1>3, <1>4, HandledKnows
<1>6. \A j \in DOMAIN queue' : Brings(batch', queue'[j], h) => i = j
  <2> SUFFICES ASSUME NEW j \in DOMAIN queue', Brings(batch', queue'[j], h)
               PROVE  i = j
    OBVIOUS
  <2>1. j + 1 \in DOMAIN queue /\ j \in Nat /\ Brings(batch, queue[j + 1], h)
    BY <1>1 DEF Moves, MeansSame
  <2>2. i + 1 = j + 1
    BY <1>3, <2>1
  <2> QED
    BY <1>2, <2>1, <2>2
<1>7. \A j \in DOMAIN queue' : ~Uses(batch', queue'[j], h)
  BY <1>1, <1>3 DEF Moves, MeansSame
<1>8. \A j \in DOMAIN L : ~Uses(batch, L[j], h)
  BY <1>3, <1>4 DEF Added, Msg
<1>9. \A j \in DOMAIN calls' : ~Uses(batch', calls'[j], h)
  BY <1>1, <1>3, <1>8 DEF Moves, MeansSame
<1> QED
  BY <1>5, <1>6, <1>7, <1>9

(* A new answer brings a fence only when the engine has accepted it.          *)
LEMMA OutcomeBrings ==
  ASSUME NEW m, Outcome(m), NEW h \in HwIds, Brings(batch, m, h)
  PROVE  h = hwLast + 1 /\ Accepts(m, engine'[h].key, h)
<1>1. ~Keeps(m)
  BY DEF Keeps
<1>2. ASSUME NEW g, Loses(m, g)
      PROVE  FALSE
  BY <1>2 DEF Loses
<1>3. ASSUME NEW g, Turns(m, g)
      PROVE  FALSE
  BY <1>3 DEF Turns
<1>4. PICK k, g : Accepts(m, k, g)
  BY <1>1, <1>2, <1>3 DEF Outcome
<1>5. h = g /\ h = hwLast + 1 /\ k = engine'[h].key
  BY <1>4 DEF Accepts
<1> QED
  BY <1>4, <1>5

LEMMA BroughtAfterAnswer ==
  ASSUME Typed, BroughtOnce, NEW m, Answers(m), Fits(m), Outcome(m)
  PROVE  BroughtOnce'
<1>1. Arrives(m) /\ Served
  BY AnswerArrives
<1>2. batch' = batch /\ geofences' = geofences
  BY DEF Answers, adapterVars
<1>3. \A h \in HwIds : Uses(batch, m, h) => Uses(batch, calls[1], h)
  BY <1>1 DEF Fits, Served
<1>4. \A j \in DOMAIN calls' : j + 1 \in DOMAIN calls /\ calls'[j] = calls[j + 1]
  BY <1>1 DEF Served
<1>5. \A j \in DOMAIN queue' : \/ j \in DOMAIN queue /\ queue'[j] = queue[j]
                               \/ j = Len(queue) + 1 /\ queue'[j] = m
  BY <1>1 DEF Arrives
<1> SUFFICES ASSUME NEW h \in HwIds, NEW i \in DOMAIN queue', Brings(batch, queue'[i], h)
             PROVE  /\ ~Knows(h)
                    /\ \A j \in DOMAIN queue' : Brings(batch, queue'[j], h) => i = j
                    /\ \A j \in DOMAIN queue' : ~Uses(batch, queue'[j], h)
                    /\ \A j \in DOMAIN calls' : ~Uses(batch, calls'[j], h)
  BY <1>2 DEF BroughtOnce, Knows
<1>6. CASE i \in DOMAIN queue /\ queue'[i] = queue[i]
  <2>1. /\ ~Knows(h)
        /\ \A j \in DOMAIN queue : Brings(batch, queue[j], h) => i = j
        /\ \A j \in DOMAIN queue : ~Uses(batch, queue[j], h)
        /\ \A j \in DOMAIN calls : ~Uses(batch, calls[j], h)
    BY <1>6 DEF BroughtOnce
  <2>2. ~Brings(batch, m, h)
    BY <1>6, MailGiven, NotTheNext, OutcomeBrings
  <2>3. ~Uses(batch, m, h)
    BY <1>1, <1>3, <2>1 DEF Served
  <2>4. \A j \in DOMAIN queue' : Brings(batch, queue'[j], h) => i = j
    BY <1>5, <2>1, <2>2
  <2>5. \A j \in DOMAIN queue' : ~Uses(batch, queue'[j], h)
    BY <1>5, <2>1, <2>3
  <2>6. \A j \in DOMAIN calls' : ~Uses(batch, calls'[j], h)
    BY <1>4, <2>1
  <2> QED
    BY <2>1, <2>4, <2>5, <2>6
<1>7. CASE i = Len(queue) + 1 /\ queue'[i] = m
  <2>1. h = hwLast + 1
    BY <1>7, OutcomeBrings
  <2>2. h \notin 1..hwLast
    BY <2>1, NotTheNext
  <2>3. ~Knows(h)
    BY <2>2, NotTheNext
  <2>4. \A j \in DOMAIN queue : ~Brings(batch, queue[j], h) /\ ~Uses(batch, queue[j], h)
    BY <2>2, MailGiven
  <2>5. \A j \in DOMAIN calls : ~Uses(batch, calls[j], h)
    BY <2>2, MailGiven
  <2>6. ~Uses(batch, m, h)
    BY <1>1, <1>3, <2>5 DEF Served
  <2>7. \A j \in DOMAIN queue' : Brings(batch, queue'[j], h) => i = j
    BY <1>5, <1>7, <2>4
  <2>8. \A j \in DOMAIN queue' : ~Uses(batch, queue'[j], h)
    BY <1>5, <2>4, <2>6
  <2>9. \A j \in DOMAIN calls' : ~Uses(batch, calls'[j], h)
    BY <1>4, <2>5
  <2> QED
    BY <2>3, <2>7, <2>8, <2>9
<1> QED
  BY <1>5, <1>6, <1>7

LEMMA BroughtAfterOthers ==
  ASSUME Typed, BroughtOnce, Repauses \/ Restarts \/ \E m : Posts(m)
  PROVE  BroughtOnce'
<1>1. CASE Repauses
  <2>1. UNCHANGED <<batch, geofences, queue>> /\ Served
    BY <1>1, RepauseServes DEF Repauses, adapterVars
  <2> QED
    BY <2>1 DEF BroughtOnce, Served, Knows
<1>2. CASE Restarts
  <2> DEFINE m == [kind |-> "ssr"]
  <2>1. UNCHANGED <<batch, geofences, queue>> /\ m \in Call /\ m.kind = "ssr" /\ calls' = Append(calls, m)
    BY <1>2, HwCallKinds DEF Restarts, adapterVars
  <2> HIDE DEF m
  <2>2. \A j \in DOMAIN calls' : (j \in DOMAIN calls /\ calls'[j] = calls[j]) \/ calls'[j] = m
    BY <2>1, AppendElements DEF Typed, TypeOK
  <2>3. \A h : ~Uses(batch, m, h)
    BY <2>1, SsrIsPlain
  <2> QED
    BY <2>1, <2>2, <2>3 DEF BroughtOnce, Knows
<1>3. ASSUME NEW m, Posts(m)
      PROVE  BroughtOnce'
  <2>1. Arrives(m) /\ \A i \in DOMAIN calls : MeansSame(calls[i])
    BY <1>3, PostArrives
  <2>2. UNCHANGED <<geofences, calls>>
    BY <1>3 DEF Posts
  <2>3. \A h : ~Brings(batch', m, h) /\ ~Uses(batch', m, h)
    BY <1>3, PostIsPlain
  <2>4. \A j \in DOMAIN queue' : \/ j \in DOMAIN queue /\ queue'[j] = queue[j] /\ MeansSame(queue[j])
                                 \/ queue'[j] = m
    BY <2>1 DEF Arrives
  <2> SUFFICES ASSUME NEW h \in HwIds, NEW i \in DOMAIN queue', Brings(batch', queue'[i], h)
               PROVE  /\ ~Knows(h)'
                      /\ \A j \in DOMAIN queue' : Brings(batch', queue'[j], h) => i = j
                      /\ \A j \in DOMAIN queue' : ~Uses(batch', queue'[j], h)
                      /\ \A j \in DOMAIN calls' : ~Uses(batch', calls'[j], h)
    BY DEF BroughtOnce
  <2>5. i \in DOMAIN queue /\ Brings(batch, queue[i], h)
    BY <2>3, <2>4 DEF MeansSame
  <2>6. /\ ~Knows(h)
        /\ \A j \in DOMAIN queue : Brings(batch, queue[j], h) => i = j
        /\ \A j \in DOMAIN queue : ~Uses(batch, queue[j], h)
        /\ \A j \in DOMAIN calls : ~Uses(batch, calls[j], h)
    BY <2>5 DEF BroughtOnce
  <2>7. ~Knows(h)'
    BY <2>2, <2>6 DEF Knows
  <2>8. \A j \in DOMAIN queue' : Brings(batch', queue'[j], h) => i = j
    BY <2>3, <2>4, <2>6 DEF MeansSame
  <2>9. \A j \in DOMAIN queue' : ~Uses(batch', queue'[j], h)
    BY <2>3, <2>4, <2>6 DEF MeansSame
  <2>10. \A j \in DOMAIN calls' : ~Uses(batch', calls'[j], h)
    BY <2>1, <2>2, <2>6 DEF MeansSame
  <2> QED
    BY <2>7, <2>8, <2>9, <2>10
<1> QED
  BY <1>1, <1>2, <1>3

----------------------------------------------------------------------------
(* DownIsEmpty, GoneIsGone. *)

LEMMA AdapterDown ==
  ASSUME Typed, Frame, NEW L, Hands(L), Added(L)
  PROVE  (Down' <=> Down) /\ UNCHANGED engine
<1>1. Moves(L)
  BY AdapterMoves
<1>2. Down => Down'
  BY <1>1 DEF Down, Moves
<1>3. Down' => Down
  BY <1>1 DEF Down, Moves, Added
<1> QED
  BY <1>2, <1>3 DEF Hands, engineVars

LEMMA AnswerDown ==
  ASSUME Typed, NEW m, Answers(m), Fits(m), Outcome(m)
  PROVE  /\ Down' => Down /\ Keeps(m)
         /\ Down => Keeps(m) /\ (Down' \/ m.kind = "ssr")
         /\ m.kind = "ssr" => Down
<1>1. Served
  BY AnswerArrives
<1>2. Down' => Down
  BY <1>1 DEF Down, Served
<1>3. Down => Keeps(m)
  BY DEF Outcome, Accepts, Loses, Turns
<1>4. Down => Down' \/ Call1.kind = "ssr"
  BY <1>1 DEF Down, Served
<1>5. Call1.kind = "ssr" => Down
  BY <1>1 DEF Down, Served
<1> QED
  BY <1>2, <1>3, <1>4, <1>5 DEF Fits

LEMMA DownAfter ==
  ASSUME Typed, DownIsEmpty,
         \/ \E L : Frame /\ Hands(L) /\ Added(L)
         \/ \E m : Answers(m) /\ Fits(m) /\ Outcome(m)
         \/ Repauses \/ Restarts \/ \E m : Posts(m)
  PROVE  DownIsEmpty'
<1>1. ASSUME NEW L, Frame, Hands(L), Added(L)
      PROVE  DownIsEmpty'
  BY <1>1, AdapterDown DEF DownIsEmpty, Holds
<1>2. ASSUME NEW m, Answers(m), Fits(m), Outcome(m)
      PROVE  DownIsEmpty'
  BY <1>2, AnswerDown DEF DownIsEmpty, Holds, Keeps
<1>3. CASE Repauses
  <2>1. Down' => Down
    BY <1>3, RepauseServes DEF Down, Served
  <2>2. \A h \in HwIds : Holds(h)' => Holds(h)
    BY <1>3 DEF Repauses, Holds
  <2> QED
    BY <2>1, <2>2 DEF DownIsEmpty
<1>4. CASE Restarts
  BY <1>4 DEF Restarts, DownIsEmpty, Holds
<1>5. ASSUME NEW m, Posts(m)
      PROVE  DownIsEmpty'
  BY <1>5 DEF Posts, DownIsEmpty, Down, Holds, engineVars
<1> QED
  BY <1>1, <1>2, <1>3, <1>4, <1>5

LEMMA GoneAfter ==
  ASSUME Typed, GoneIsGone,
         \/ \E L : Frame /\ Hands(L) /\ Added(L)
         \/ \E m : Answers(m) /\ Fits(m) /\ Outcome(m)
         \/ Repauses \/ Restarts \/ \E m : Posts(m)
  PROVE  GoneIsGone'
<1>1. ASSUME NEW L, Frame, Hands(L), Added(L)
      PROVE  GoneIsGone'
  <2>1. Moves(L) /\ UNCHANGED engine
    BY <1>1, AdapterMoves, AdapterDown
  <2> QED
    BY <2>1 DEF GoneIsGone, Moves, MeansSame, Holds
<1>2. ASSUME NEW m, Answers(m), Fits(m), Outcome(m)
      PROVE  GoneIsGone'
  <2>1. Arrives(m)
    BY <1>2, AnswerArrives
  <2>2. batch' = batch
    BY <1>2 DEF Answers, adapterVars
  <2>3. engine \in [HwIds -> GeofenceObject \cup {NoObject}]
    BY DEF Typed, TypeOK
  <2>4. ASSUME NEW h \in HwIds, h \in 1..hwLast, ~Holds(h)
        PROVE  ~Holds(h)'
    <3>1. CASE Keeps(m)
      BY <2>4, <3>1 DEF Keeps, Holds
    <3>2. ASSUME NEW k, NEW g, Accepts(m, k, g)
          PROVE  ~Holds(h)'
      BY <2>4, <3>2, NotTheNext DEF Accepts, Holds
    <3>3. ASSUME NEW g, Loses(m, g)
          PROVE  ~Holds(h)'
      BY <2>3, <2>4, <3>3 DEF Loses, Holds
    <3>4. ASSUME NEW g, Turns(m, g)
          PROVE  ~Holds(h)'
      BY <2>4, <3>4 DEF Turns, Holds
    <3> QED
      BY <1>2, <3>1, <3>2, <3>3, <3>4 DEF Outcome
  <2>5. ASSUME NEW h \in HwIds, Removes(batch, m, h)
        PROVE  ~Holds(h)'
    <3>1. PICK g : Loses(m, g)
      BY <1>2, <2>5 DEF Outcome, Keeps, Accepts, Turns
    <3>2. h = g
      BY <2>5, <3>1 DEF Loses
    <3> QED
      BY <2>3, <3>1, <3>2 DEF Loses, Holds
  <2>6. \A h \in HwIds : \A i \in DOMAIN queue : Removes(batch, queue[i], h) => ~Holds(h) /\ h \in 1..hwLast
    BY MailGiven DEF GoneIsGone
  <2>7. \A j \in DOMAIN queue' : (j \in DOMAIN queue /\ queue'[j] = queue[j]) \/ queue'[j] = m
    BY <2>1 DEF Arrives
  <2> QED
    BY <2>2, <2>4, <2>5, <2>6, <2>7 DEF GoneIsGone
<1>3. CASE Repauses
  <2>1. \A h \in HwIds : Holds(h)' => Holds(h)
    BY <1>3 DEF Repauses, Holds
  <2> QED
    BY <1>3, <2>1 DEF GoneIsGone, Repauses, adapterVars
<1>4. CASE Restarts
  BY <1>4 DEF Restarts, GoneIsGone, Holds
<1>5. ASSUME NEW m, Posts(m)
      PROVE  GoneIsGone'
  <2>1. Arrives(m) /\ UNCHANGED engine
    BY <1>5, PostArrives DEF Posts, engineVars
  <2>2. \A h : ~Removes(batch', m, h)
    BY <1>5, PostIsPlain
  <2>3. \A j \in DOMAIN queue' : \/ j \in DOMAIN queue /\ queue'[j] = queue[j] /\ MeansSame(queue[j])
                                 \/ queue'[j] = m
    BY <2>1 DEF Arrives
  <2> QED
    BY <2>1, <2>2, <2>3 DEF GoneIsGone, MeansSame, Holds
<1> QED
  BY <1>1, <1>2, <1>3, <1>4, <1>5

----------------------------------------------------------------------------
(* ClearsTheUnled. *)

LEMMA HandledLeads ==
  ASSUME Typed, Handled, NEW k \in Keys
  PROVE  \/ geofenceIds'[k] = geofenceIds[k] \/ geofenceIds'[k] = None
         \/ Brings(batch, Msg, geofenceIds'[k])
<1>1. geofenceIds \in [Keys -> HwIds \cup {None}]
  BY DEF Typed, TypeOK
<1>2. CASE Rests
  BY <1>2 DEF Rests
<1>3. ASSUME NEW l, NEW h, Saves(l, h)
      PROVE  geofenceIds'[k] = geofenceIds[k] \/ Brings(batch, Msg, geofenceIds'[k])
  <2>1. geofenceIds' = [geofenceIds EXCEPT ![l] = h] /\ Brings(batch, Msg, h)
    BY <1>3 DEF Saves
  <2>2. geofenceIds'[k] = IF k = l THEN h ELSE geofenceIds[k]
    BY <1>1, <2>1
  <2> QED
    BY <2>1, <2>2
<1>4. ASSUME NEW h, Drops(h)
      PROVE  geofenceIds'[k] = geofenceIds[k] \/ geofenceIds'[k] = None
  BY <1>1, <1>4 DEF Drops, RemoveGeofenceItem
<1>5. ASSUME NEW h, Clears(h)
      PROVE  geofenceIds'[k] = geofenceIds[k]
  BY <1>5 DEF Clears
<1>6. CASE Resets
  BY <1>6 DEF Resets
<1>7. ASSUME NEW c, Stops(c)
      PROVE  geofenceIds'[k] = geofenceIds[k] \/ geofenceIds'[k] = None
  BY <1>7 DEF Stops
<1> QED
  BY <1>2, <1>3, <1>4, <1>5, <1>6, <1>7 DEF Handled

LEMMA ClearsAfterAdapter ==
  ASSUME Typed, BroughtOnce, ClearsTheUnled, Frame, NEW L, Hands(L), Added(L), Handled
  PROVE  ClearsTheUnled'
<1>1. Moves(L)
  BY AdapterMoves
<1>2. queue \in Seq(Message) /\ calls \in Seq(Call)
  BY DEF Typed, TypeOK
<1>3. ASSUME NEW h \in HwIds, NEW k \in Keys, geofenceIds'[k] = h, geofenceIds[k] # h
      PROVE  Brings(batch, queue[1], h) /\ 1 \in DOMAIN queue
  <2>1. h # None
    BY DEF HwIds, None
  <2> QED
    BY <1>1, <1>3, <2>1, HandledLeads DEF Moves
<1>4. ASSUME NEW i \in DOMAIN queue', queue'[i].kind = "cleared", NEW k \in Keys, geofenceIds'[k] = queue'[i].hw
      PROVE  FALSE
  <2>1. i + 1 \in DOMAIN queue /\ queue'[i] = queue[i + 1]
    BY <1>1 DEF Moves
  <2> DEFINE h == queue[i + 1].hw
  <2>2. queue[i + 1] \in Message
    BY <1>2, <2>1, ElementTyped
  <2>3. h \in HwIds
    BY <1>4, <2>1, <2>2, MessageParts
  <2>4. Uses(batch, queue[i + 1], h)
    BY <1>4, <2>1 DEF Uses
  <2>5. geofenceIds[k] # h
    BY <1>4, <2>1 DEF ClearsTheUnled
  <2>6. Brings(batch, queue[1], h) /\ 1 \in DOMAIN queue
    BY <1>3, <1>4, <2>1, <2>3, <2>5
  <2> QED
    BY <2>1, <2>3, <2>4, <2>6 DEF BroughtOnce
<1>5. ASSUME NEW c, c \in Call, c.kind = "clear", NEW k \in Keys, geofenceIds'[k] = c.hw,
             NEW j \in DOMAIN calls, c = calls[j]
      PROVE  FALSE
  <2>1. c.hw \in HwIds
    BY <1>5, CallParts DEF HwCalls
  <2>2. Uses(batch, calls[j], c.hw)
    BY <1>5 DEF Uses, HwCalls
  <2>3. geofenceIds[k] # c.hw
    BY <1>5 DEF ClearsTheUnled
  <2>4. Brings(batch, queue[1], c.hw) /\ 1 \in DOMAIN queue
    BY <1>3, <1>5, <2>1, <2>3
  <2> QED
    BY <2>1, <2>2, <2>4 DEF BroughtOnce
<1>6. ASSUME NEW i \in DOMAIN calls', calls'[i].kind = "clear", NEW k \in Keys, geofenceIds'[k] = calls'[i].hw
      PROVE  FALSE
  <2>1. CASE \E j \in DOMAIN calls : calls'[i] = calls[j]
    <3>1. PICK j \in DOMAIN calls : calls'[i] = calls[j]
      BY <2>1
    <3>2. calls[j] \in Call
      BY <1>2, ElementTyped
    <3> QED
      BY <1>5, <1>6, <3>1, <3>2
  <2>2. CASE \E j \in DOMAIN L : calls'[i] = L[j]
    BY <1>6, <2>2 DEF Added
  <2> QED
    BY <1>1, <2>1, <2>2 DEF Moves
<1> QED
  BY <1>4, <1>6 DEF ClearsTheUnled

LEMMA ClearsAfterOthers ==
  ASSUME Typed, ClearsTheUnled,
         \/ \E m : Answers(m) /\ Fits(m) /\ Outcome(m)
         \/ Repauses \/ Restarts \/ \E m : Posts(m)
  PROVE  ClearsTheUnled'
<1>1. ASSUME NEW m, Answers(m), Fits(m), Outcome(m)
      PROVE  ClearsTheUnled'
  <2>1. Arrives(m) /\ Served /\ UNCHANGED geofenceIds
    BY <1>1, AnswerArrives DEF Answers, adapterVars
  <2>2. m.kind = "cleared" => calls[1].kind = "clear" /\ calls[1].hw = m.hw /\ 1 \in DOMAIN calls
    BY <1>1, <2>1 DEF Fits, Served
  <2>3. \A i \in DOMAIN calls' : i + 1 \in DOMAIN calls /\ calls'[i] = calls[i + 1]
    BY <2>1 DEF Served
  <2>4. \A j \in DOMAIN queue' : (j \in DOMAIN queue /\ queue'[j] = queue[j]) \/ queue'[j] = m
    BY <2>1 DEF Arrives
  <2>5. ASSUME NEW i \in DOMAIN queue', queue'[i].kind = "cleared", NEW k \in Keys
        PROVE  geofenceIds'[k] # queue'[i].hw
    BY <2>1, <2>2, <2>4, <2>5 DEF ClearsTheUnled
  <2>6. ASSUME NEW i \in DOMAIN calls', calls'[i].kind = "clear", NEW k \in Keys
        PROVE  geofenceIds'[k] # calls'[i].hw
    BY <2>1, <2>3, <2>6 DEF ClearsTheUnled
  <2> QED
    BY <2>5, <2>6 DEF ClearsTheUnled
<1>2. CASE Repauses
  BY <1>2, RepauseServes DEF Repauses, adapterVars, ClearsTheUnled, Served
<1>3. CASE Restarts
  <2> DEFINE m == [kind |-> "ssr"]
  <2>1. UNCHANGED <<geofenceIds, queue>> /\ m \in Call /\ m.kind = "ssr" /\ calls' = Append(calls, m)
    BY <1>3, HwCallKinds DEF Restarts, adapterVars
  <2> HIDE DEF m
  <2>2. \A j \in DOMAIN calls' : (j \in DOMAIN calls /\ calls'[j] = calls[j]) \/ calls'[j] = m
    BY <2>1, AppendElements DEF Typed, TypeOK
  <2> QED
    BY <2>1, <2>2 DEF ClearsTheUnled
<1>4. ASSUME NEW m, Posts(m)
      PROVE  ClearsTheUnled'
  <2>1. Arrives(m) /\ UNCHANGED <<geofenceIds, calls>> /\ m.kind # "cleared"
    BY <1>4, PostArrives DEF Posts
  <2>2. \A j \in DOMAIN queue' : (j \in DOMAIN queue /\ queue'[j] = queue[j]) \/ queue'[j] = m
    BY <2>1 DEF Arrives
  <2> QED
    BY <2>1, <2>2 DEF ClearsTheUnled
<1> QED
  BY <1>1, <1>2, <1>3, <1>4

----------------------------------------------------------------------------
(* MapsAgree. *)

LEMMA MapsAfterSave ==
  ASSUME Typed, BorneOnce, BroughtOnce, MapsAgree, queue # <<>>, NEW k, NEW h, Saves(k, h)
  PROVE  MapsAgree'
<1>1. /\ k \in Keys /\ h \in HwIds /\ UNCHANGED clients
      /\ geofenceIds' = [geofenceIds EXCEPT ![k] = h]
      /\ geofences'[h].key = k
      /\ \A g \in HwIds : g # h => geofences'[g] = geofences[g]
  BY DEF Saves
<1>2. /\ geofences \in [HwIds -> GeofenceObject \cup {NoObject}]
      /\ geofenceIds \in [Keys -> HwIds \cup {None}]
  BY DEF Typed, TypeOK
<1>3. 1 \in DOMAIN queue /\ queue[1] = Msg
  BY TailElements DEF Typed, TypeOK, Msg
<1>4. ~Knows(h)
  BY <1>1, <1>3 DEF Saves, BroughtOnce
<1>5. Unknown(geofences, k)
  <2>1. ~Free(batch, queue, k)
    BY <1>3 DEF Saves, Free
  <2> QED
    BY <1>1, <2>1 DEF BorneOnce, Borne
<1>6. geofenceIds'[k] = h /\ \A l \in Keys : l # k => geofenceIds'[l] = geofenceIds[l]
  BY <1>1, <1>2
<1>7. ASSUME NEW l \in Keys, geofenceIds'[l] # None
      PROVE  geofences'[geofenceIds'[l]].key = l
  <2>1. CASE l = k
    BY <1>1, <1>6, <2>1
  <2>2. CASE l # k
    <3>1. geofenceIds'[l] = geofenceIds[l] /\ geofenceIds[l] \in HwIds /\ geofences[geofenceIds[l]].key = l
      BY <1>2, <1>6, <1>7, <2>2 DEF MapsAgree
    <3>2. geofenceIds[l] # h
      BY <1>1, <1>4, <3>1, KnownParts DEF Typed
    <3> QED
      BY <1>1, <3>1, <3>2
  <2> QED
    BY <2>1, <2>2
<1>8. ASSUME NEW g \in HwIds, Knows(g)', geofences'[g].key[1] \in clients'
      PROVE  geofenceIds'[geofences'[g].key] = g
  <2>1. CASE g = h
    BY <1>1, <1>6, <2>1
  <2>2. CASE g # h
    <3>1. geofences'[g] = geofences[g] /\ Knows(g)
      BY <1>1, <1>8, <2>2 DEF Knows
    <3>2. geofences[g].key \in Keys /\ geofences[g].key # k
      BY <1>5, <3>1, KnownParts DEF Unknown, Typed
    <3> QED
      BY <1>1, <1>6, <1>8, <3>1, <3>2 DEF MapsAgree
  <2> QED
    BY <2>1, <2>2
<1> QED
  BY <1>7, <1>8 DEF MapsAgree

(* What the maps name by an id, and the id by the maps.                       *)
LEMMA MapsAfterDrop ==
  ASSUME Typed, BorneOnce, MapsAgree, NEW h, Drops(h)
  PROVE  MapsAgree'
<1>1. h \in HwIds /\ RemoveGeofenceItem(h) /\ UNCHANGED clients
  BY DEF Drops
<1>2. /\ geofences \in [HwIds -> GeofenceObject \cup {NoObject}]
      /\ geofenceIds \in [Keys -> HwIds \cup {None}]
  BY DEF Typed, TypeOK
<1>3. CASE ~(Knows(h) /\ geofenceIds[geofences[h].key] # None)
  <2>1. UNCHANGED <<geofences, geofenceIds>>
    BY <1>1, <1>3 DEF RemoveGeofenceItem
  <2> QED
    BY <1>1, <2>1 DEF MapsAgree, Knows
<1>4. CASE Knows(h) /\ geofenceIds[geofences[h].key] # None
  <2> DEFINE k == geofences[h].key
  <2>1. geofenceIds' = [geofenceIds EXCEPT ![k] = None] /\ geofences' = [geofences EXCEPT ![h] = NoObject]
    BY <1>1, <1>4 DEF RemoveGeofenceItem
  <2>2. k \in Keys
    BY <1>1, <1>4, KnownParts DEF Typed
  <2>3. KnownOnce(geofences, k)
    BY <2>2 DEF BorneOnce, Borne
  <2>4. \A g \in HwIds : geofences[g].key = k => g = h
    BY <1>1, <2>3 DEF KnownOnce
  <2> HIDE DEF k
  <2>5. geofenceIds'[k] = None /\ \A l \in Keys : l # k => geofenceIds'[l] = geofenceIds[l]
    BY <1>2, <2>1, <2>2
  <2>6. geofences'[h] = NoObject /\ \A g \in HwIds : g # h => geofences'[g] = geofences[g]
    BY <1>1, <1>2, <2>1
  <2>7. ASSUME NEW l \in Keys, geofenceIds'[l] # None
        PROVE  geofences'[geofenceIds'[l]].key = l
    <3>1. l # k /\ geofenceIds'[l] = geofenceIds[l]
      BY <2>5, <2>7
    <3>2. geofenceIds[l] \in HwIds /\ geofences[geofenceIds[l]].key = l
      BY <1>2, <2>7, <3>1 DEF MapsAgree
    <3>3. geofenceIds[l] # h
      BY <3>1, <3>2 DEF k
    <3> QED
      BY <2>6, <3>1, <3>2, <3>3
  <2>8. ASSUME NEW g \in HwIds, Knows(g)', geofences'[g].key[1] \in clients'
        PROVE  geofenceIds'[geofences'[g].key] = g
    <3>1. g # h
      BY <2>6, <2>8 DEF Knows
    <3>2. geofences'[g] = geofences[g] /\ Knows(g)
      BY <2>6, <2>8, <3>1 DEF Knows
    <3>3. geofences[g].key \in Keys /\ geofences[g].key # k
      BY <2>4, <3>1, <3>2, KnownParts DEF Typed
    <3> QED
      BY <1>1, <2>5, <2>8, <3>2, <3>3 DEF MapsAgree
  <2> QED
    BY <2>7, <2>8 DEF MapsAgree
<1> QED
  BY <1>3, <1>4

LEMMA MapsAfterAdapter ==
  ASSUME Typed, BorneOnce, BroughtOnce, ClearsTheUnled, MapsAgree, queue # <<>>, Handled
  PROVE  MapsAgree'
<1>1. /\ geofences \in [HwIds -> GeofenceObject \cup {NoObject}]
      /\ geofenceIds \in [Keys -> HwIds \cup {None}]
      /\ 1 \in DOMAIN queue /\ queue[1] = Msg
  BY TailElements DEF Typed, TypeOK, Msg
<1>2. CASE Rests
  <2>1. /\ UNCHANGED <<clients, geofenceIds>>
        /\ \A h \in HwIds : (Knows(h)' <=> Knows(h)) /\ geofences'[h].key = geofences[h].key
    BY <1>2 DEF Rests
  <2>2. \A k \in Keys : geofenceIds[k] # None => geofenceIds[k] \in HwIds
    BY <1>1
  <2>3. ASSUME NEW k \in Keys, geofenceIds'[k] # None
        PROVE  geofences'[geofenceIds'[k]].key = k
    BY <2>1, <2>2, <2>3 DEF MapsAgree
  <2>4. ASSUME NEW h \in HwIds, Knows(h)', geofences'[h].key[1] \in clients'
        PROVE  geofenceIds'[geofences'[h].key] = h
    BY <2>1, <2>4 DEF MapsAgree
  <2> QED
    BY <2>3, <2>4 DEF MapsAgree
<1>3. ASSUME NEW h, Clears(h)
      PROVE  MapsAgree'
  <2>1. /\ h \in HwIds /\ UNCHANGED <<clients, geofenceIds>>
        /\ geofences' = [geofences EXCEPT ![h] = NoObject] /\ Msg.kind = "cleared" /\ Msg.hw = h
    BY <1>3 DEF Clears
  <2>2. \A k \in Keys : geofenceIds[k] # h
    BY <1>1, <2>1 DEF ClearsTheUnled
  <2>3. geofences'[h] = NoObject /\ \A g \in HwIds : g # h => geofences'[g] = geofences[g]
    BY <1>1, <2>1
  <2>4. ASSUME NEW k \in Keys, geofenceIds'[k] # None
        PROVE  geofences'[geofenceIds'[k]].key = k
    <3>1. geofenceIds[k] # None /\ geofenceIds[k] \in HwIds /\ geofenceIds[k] # h
      BY <1>1, <2>1, <2>2, <2>4
    <3> QED
      BY <2>1, <2>3, <3>1 DEF MapsAgree
  <2>5. ASSUME NEW g \in HwIds, Knows(g)', geofences'[g].key[1] \in clients'
        PROVE  geofenceIds'[geofences'[g].key] = g
    <3>1. g # h /\ geofences'[g] = geofences[g] /\ Knows(g)
      BY <2>3, <2>5 DEF Knows
    <3> QED
      BY <2>1, <2>5, <3>1 DEF MapsAgree
  <2> QED
    BY <2>4, <2>5 DEF MapsAgree
<1>4. CASE Resets
  BY <1>4 DEF Resets, MapsAgree, Knows
<1>5. ASSUME NEW c, Stops(c)
      PROVE  MapsAgree'
  <2>1. /\ UNCHANGED geofences /\ clients' = clients \ {c}
        /\ geofenceIds' = [k \in Keys |-> IF k[1] = c THEN None ELSE geofenceIds[k]]
    BY <1>5 DEF Stops
  <2>2. ASSUME NEW k \in Keys, geofenceIds'[k] # None
        PROVE  geofences'[geofenceIds'[k]].key = k
    BY <2>1, <2>2 DEF MapsAgree
  <2>3. ASSUME NEW g \in HwIds, Knows(g)', geofences'[g].key[1] \in clients'
        PROVE  geofenceIds'[geofences'[g].key] = g
    <3>1. Knows(g) /\ geofences'[g] = geofences[g] /\ geofences[g].key \in Keys
      BY <2>1, <2>3, KnownParts DEF Knows, Typed
    <3> QED
      BY <2>1, <2>3, <3>1 DEF MapsAgree
  <2> QED
    BY <2>2, <2>3 DEF MapsAgree
<1> QED
  BY <1>2, <1>3, <1>4, <1>5, MapsAfterSave, MapsAfterDrop DEF Handled

LEMMA MapsSame ==
  ASSUME MapsAgree, UNCHANGED <<clients, geofences, geofenceIds>>
  PROVE  MapsAgree'
  BY DEF MapsAgree, Knows

----------------------------------------------------------------------------
(* Reaches, as mail moves on. *)

LEMMA ReachesTail ==
  ASSUME NEW S, NEW bt, NEW bt2, NEW s \in Seq(S), NEW t, NEW g, NEW g2, NEW h, NEW k, NEW p \in Nat, p > 1,
         1 \in DOMAIN s,
         \A i \in DOMAIN t : i \in Nat /\ i > 0 /\ i + 1 \in DOMAIN s /\ t[i] = s[i + 1],
         \A i \in DOMAIN s : i \in Nat /\ i > 0 /\ (i # 1 => i - 1 \in DOMAIN t /\ t[i - 1] = s[i]),
         \A i \in DOMAIN t : /\ Brings(bt2, t[i], h) <=> Brings(bt, t[i], h)
                             /\ Bears(bt2, t[i], k) <=> Bears(bt, t[i], k)
                             /\ Forgets(bt2, t[i], h) <=> Forgets(bt, t[i], h),
         g[h].key = k /\ ~Forgets(bt, s[1], h) => g2[h].key = k,
         Brings(bt, s[1], h) /\ Bears(bt, s[1], k) => g2[h].key = k,
         Reaches(bt, s, g, h, k, p)
  PROVE  Reaches(bt2, t, g2, h, k, p - 1)
<1>1. CASE g[h].key = k /\ \A q \in DOMAIN s : q < p => ~Forgets(bt, s[q], h)
  <2>1. g2[h].key = k
    BY <1>1
  <2>2. \A q \in DOMAIN t : q < p - 1 => ~Forgets(bt2, t[q], h)
    BY <1>1
  <2> QED
    BY <2>1, <2>2 DEF Reaches
<1>2. ASSUME NEW q \in DOMAIN s, q < p, Brings(bt, s[q], h), Bears(bt, s[q], k),
             \A r \in DOMAIN s : q < r /\ r < p => ~Forgets(bt, s[r], h)
      PROVE  Reaches(bt2, t, g2, h, k, p - 1)
  <2>1. \A r \in DOMAIN t : q - 1 < r /\ r < p - 1 => ~Forgets(bt2, t[r], h)
    BY <1>2
  <2>2. CASE q = 1
    <3>1. g2[h].key = k
      BY <1>2, <2>2
    <3>2. \A r \in DOMAIN t : r < p - 1 => ~Forgets(bt2, t[r], h)
      BY <2>1, <2>2
    <3> QED
      BY <3>1, <3>2 DEF Reaches
  <2>3. CASE q # 1
    <3>1. q - 1 \in DOMAIN t /\ t[q - 1] = s[q] /\ q - 1 < p - 1
      BY <1>2, <2>3
    <3>2. Brings(bt2, t[q - 1], h) /\ Bears(bt2, t[q - 1], k)
      BY <1>2, <3>1
    <3> QED
      BY <2>1, <3>1, <3>2 DEF Reaches
  <2> QED
    BY <2>2, <2>3
<1> QED
  BY <1>1, <1>2 DEF Reaches

LEMMA ReachesGrows ==
  ASSUME NEW bt, NEW bt2, NEW s, NEW t, NEW g, NEW h, NEW k, NEW n \in Nat, NEW p \in Nat, p <= n + 1,
         DOMAIN t = DOMAIN s \cup {n + 1},
         \A i \in DOMAIN s : t[i] = s[i] /\ i \in Nat /\ i > 0 /\ i < n + 1,
         \A i \in DOMAIN s : /\ Brings(bt2, s[i], h) <=> Brings(bt, s[i], h)
                             /\ Bears(bt2, s[i], k) <=> Bears(bt, s[i], k)
                             /\ Forgets(bt2, s[i], h) <=> Forgets(bt, s[i], h),
         Reaches(bt, s, g, h, k, p)
  PROVE  /\ Reaches(bt2, t, g, h, k, p)
         /\ p = n + 1 /\ ~Forgets(bt2, t[n + 1], h) => Reaches(bt2, t, g, h, k, n + 2)
<1>1. CASE g[h].key = k /\ \A q \in DOMAIN s : q < p => ~Forgets(bt, s[q], h)
  <2>1. \A q \in DOMAIN t : q < p => ~Forgets(bt2, t[q], h)
    BY <1>1
  <2>2. p = n + 1 /\ ~Forgets(bt2, t[n + 1], h) => \A q \in DOMAIN t : q < n + 2 => ~Forgets(bt2, t[q], h)
    BY <1>1
  <2> QED
    BY <1>1, <2>1, <2>2 DEF Reaches
<1>2. ASSUME NEW q \in DOMAIN s, q < p, Brings(bt, s[q], h), Bears(bt, s[q], k),
             \A r \in DOMAIN s : q < r /\ r < p => ~Forgets(bt, s[r], h)
      PROVE  /\ Reaches(bt2, t, g, h, k, p)
             /\ p = n + 1 /\ ~Forgets(bt2, t[n + 1], h) => Reaches(bt2, t, g, h, k, n + 2)
  <2>1. q \in DOMAIN t /\ Brings(bt2, t[q], h) /\ Bears(bt2, t[q], k) /\ q < n + 2
    BY <1>2
  <2>2. \A r \in DOMAIN t : q < r /\ r < p => ~Forgets(bt2, t[r], h)
    BY <1>2
  <2>3. p = n + 1 /\ ~Forgets(bt2, t[n + 1], h) =>
          \A r \in DOMAIN t : q < r /\ r < n + 2 => ~Forgets(bt2, t[r], h)
    BY <1>2
  <2> QED
    BY <1>2, <2>1, <2>2, <2>3 DEF Reaches
<1> QED
  BY <1>1, <1>2 DEF Reaches

LEMMA ReachesNew ==
  ASSUME NEW bt, NEW t, NEW g, NEW h, NEW k, NEW n \in Nat, n + 1 \in DOMAIN t,
         Brings(bt, t[n + 1], h), Bears(bt, t[n + 1], k), \A i \in DOMAIN t : i \in Nat
  PROVE  Reaches(bt, t, g, h, k, n + 2)
<1>1. \A r \in DOMAIN t : ~(n + 1 < r /\ r < n + 2)
  OBVIOUS
<1> QED
  BY <1>1 DEF Reaches

(* What handling a message does to the fence h that it brings, or forgets not. *)
LEMMA HandledReaches ==
  ASSUME Typed, BroughtOnce, queue # <<>>, Handled, NEW h \in HwIds, NEW k \in Keys
  PROVE  /\ geofences[h].key = k /\ ~Forgets(batch, Msg, h) => geofences'[h].key = k
         /\ Brings(batch, Msg, h) /\ Bears(batch, Msg, k) => geofences'[h].key = k
<1>1. /\ geofences \in [HwIds -> GeofenceObject \cup {NoObject}]
      /\ 1 \in DOMAIN queue /\ queue[1] = Msg
  BY TailElements DEF Typed, TypeOK, Msg
<1>2. ASSUME geofences[h].key = k, ~Forgets(batch, Msg, h)
      PROVE  geofences'[h].key = k
  <2>1. Knows(h)
    BY <1>2, KnownParts DEF Typed
  <2>2. CASE Rests
    BY <1>2, <2>2 DEF Rests
  <2>3. ASSUME NEW l, NEW g, Saves(l, g)
        PROVE  geofences'[h].key = k
    <3>1. g # h
      BY <1>1, <2>1, <2>3 DEF Saves, BroughtOnce
    <3> QED
      BY <1>2, <2>3, <3>1 DEF Saves
  <2>4. ASSUME NEW g, Drops(g)
        PROVE  geofences'[h].key = k
    <3>1. g # h
      BY <1>2, <2>4 DEF Drops, Forgets
    <3>2. geofences'[h] = geofences[h]
      BY <1>1, <2>4, <3>1 DEF Drops, RemoveGeofenceItem
    <3> QED
      BY <1>2, <3>2
  <2>5. ASSUME NEW g, Clears(g)
        PROVE  geofences'[h].key = k
    <3>1. g # h
      BY <1>2, <2>5 DEF Clears, Forgets
    <3>2. geofences'[h] = geofences[h]
      BY <1>1, <2>5, <3>1 DEF Clears
    <3> QED
      BY <1>2, <3>2
  <2>6. ~Resets
    BY <1>2 DEF Resets, Forgets
  <2>7. ASSUME NEW c, Stops(c)
        PROVE  geofences'[h].key = k
    BY <1>2, <2>7 DEF Stops
  <2> QED
    BY <2>2, <2>3, <2>4, <2>5, <2>6, <2>7 DEF Handled
<1>3. ASSUME Brings(batch, Msg, h), Bears(batch, Msg, k)
      PROVE  geofences'[h].key = k
  <2>1. Msg.kind \in {"done", "restored"} /\ \A g : ~Removes(batch, Msg, g)
    BY <1>3, Meanings
  <2>2. ~Rests /\ (\A g : ~Drops(g)) /\ (\A g : ~Clears(g)) /\ ~Resets /\ \A c : ~Stops(c)
    BY <1>3, <2>1 DEF Rests, Drops, Clears, Resets, Stops
  <2>3. PICK l, g : Saves(l, g)
    BY <2>2 DEF Handled
  <2>4. /\ Brings(batch, Msg, g) /\ Bears(batch, Msg, l) /\ geofences'[g].key = l
    BY <2>3 DEF Saves
  <2>5. g = h /\ l = k
    BY <1>3, <2>4, Meanings
  <2> QED
    BY <2>4, <2>5
<1> QED
  BY <1>2, <1>3

LEMMA ReachesAfterAdapter ==
  ASSUME Typed, BroughtOnce, Frame, NEW L, Hands(L), Added(L), Handled,
         NEW h \in HwIds, NEW k \in Keys, NEW p \in Nat, p > 1,
         Reaches(batch, queue, geofences, h, k, p)
  PROVE  Reaches(batch', queue', geofences', h, k, p - 1)
<1>1. Moves(L) /\ queue \in Seq(Message) /\ queue # <<>>
  BY AdapterMoves DEF Hands, Typed, TypeOK
<1>2. /\ geofences[h].key = k /\ ~Forgets(batch, queue[1], h) => geofences'[h].key = k
      /\ Brings(batch, queue[1], h) /\ Bears(batch, queue[1], k) => geofences'[h].key = k
  BY <1>1, HandledReaches DEF Moves
<1>3. /\ 1 \in DOMAIN queue
      /\ \A i \in DOMAIN queue' : i \in Nat /\ i > 0 /\ i + 1 \in DOMAIN queue /\ queue'[i] = queue[i + 1]
      /\ \A i \in DOMAIN queue : i \in Nat /\ i > 0 /\ (i # 1 => i - 1 \in DOMAIN queue' /\ queue'[i - 1] = queue[i])
  BY <1>1 DEF Moves
<1>4. \A i \in DOMAIN queue' : /\ Brings(batch', queue'[i], h) <=> Brings(batch, queue'[i], h)
                               /\ Bears(batch', queue'[i], k) <=> Bears(batch, queue'[i], k)
                               /\ Forgets(batch', queue'[i], h) <=> Forgets(batch, queue'[i], h)
  BY <1>1 DEF Moves, MeansSame
<1> QED
  BY <1>1, <1>2, <1>3, <1>4, ReachesTail

LEMMA ReachesAfterArrival ==
  ASSUME Typed, UNCHANGED geofences, NEW m, Arrives(m),
         NEW h \in HwIds, NEW k \in Keys, NEW p \in Nat, p <= Len(queue) + 1,
         Reaches(batch, queue, geofences, h, k, p)
  PROVE  /\ Reaches(batch', queue', geofences', h, k, p)
         /\ p = Len(queue) + 1 /\ ~Forgets(batch', m, h) =>
              Reaches(batch', queue', geofences', h, k, Len(queue) + 2)
<1>1. /\ DOMAIN queue' = DOMAIN queue \cup {Len(queue) + 1}
      /\ \A i \in DOMAIN queue : queue'[i] = queue[i] /\ i \in Nat /\ i > 0 /\ i < Len(queue) + 1
      /\ queue'[Len(queue) + 1] = m /\ Len(queue) \in Nat
  BY DEF Arrives
<1>2. \A i \in DOMAIN queue : /\ Brings(batch', queue[i], h) <=> Brings(batch, queue[i], h)
                              /\ Bears(batch', queue[i], k) <=> Bears(batch, queue[i], k)
                              /\ Forgets(batch', queue[i], h) <=> Forgets(batch, queue[i], h)
  BY DEF Arrives, MeansSame
<1>3. /\ Reaches(batch', queue', geofences, h, k, p)
      /\ p = Len(queue) + 1 /\ ~Forgets(batch', queue'[Len(queue) + 1], h) =>
           Reaches(batch', queue', geofences, h, k, Len(queue) + 2)
  BY <1>1, <1>2, ReachesGrows
<1> QED
  BY <1>1, <1>3

----------------------------------------------------------------------------
(* HeldIsKnown. *)

LEMMA HeldAfterAdapter ==
  ASSUME Typed, BroughtOnce, HeldIsKnown, Frame, NEW L, Hands(L), Added(L), Handled
  PROVE  HeldIsKnown'
<1>1. Moves(L) /\ UNCHANGED engine
  BY AdapterMoves, AdapterDown
<1>2. Len(queue) \in Nat /\ Len(queue) > 0 /\ Len(queue') = Len(queue) - 1
  BY <1>1 DEF Moves, Typed, TypeOK
<1>3. ASSUME NEW h \in HwIds, Holds(h)
      PROVE  Reaches(batch', queue', geofences', h, engine[h].key, Len(queue') + 1)
  <2>1. engine[h].key \in Keys
    BY <1>3, KnownParts DEF Typed
  <2>2. Reaches(batch, queue, geofences, h, engine[h].key, Len(queue) + 1)
    BY <1>3 DEF HeldIsKnown
  <2>3. Reaches(batch', queue', geofences', h, engine[h].key, (Len(queue) + 1) - 1)
    BY <1>2, <2>1, <2>2, ReachesAfterAdapter
  <2>4. (Len(queue) + 1) - 1 = Len(queue') + 1
    BY <1>2
  <2> QED
    BY <2>3, <2>4
<1> QED
  BY <1>1, <1>3 DEF HeldIsKnown, Holds

LEMMA HeldAfterAnswer ==
  ASSUME Typed, DownIsEmpty, HeldIsKnown, NEW m, Answers(m), Fits(m), Outcome(m)
  PROVE  HeldIsKnown'
<1>1. Arrives(m) /\ UNCHANGED <<geofences, batch>>
  BY AnswerArrives DEF Answers, adapterVars
<1>2. Len(queue) \in Nat /\ Len(queue') = Len(queue) + 1 /\ Len(queue') + 1 = Len(queue) + 2
  BY <1>1 DEF Arrives
<1>3. ASSUME NEW h \in HwIds, Holds(h), ~Forgets(batch, m, h)
      PROVE  Reaches(batch', queue', geofences', h, engine[h].key, Len(queue) + 2)
  <2>1. engine[h].key \in Keys
    BY <1>3, KnownParts DEF Typed
  <2>2. Reaches(batch, queue, geofences, h, engine[h].key, Len(queue) + 1)
    BY <1>3 DEF HeldIsKnown
  <2> QED
    BY <1>1, <1>2, <1>3, <2>1, <2>2, ReachesAfterArrival
<1>4. ASSUME NEW h \in HwIds, Holds(h)'
      PROVE  Reaches(batch', queue', geofences', h, engine'[h].key, Len(queue) + 2)
  <2>1. CASE Keeps(m)
    <3>1. Holds(h) /\ engine' = engine /\ ~Removes(batch, m, h)
      BY <1>4, <2>1 DEF Keeps, Holds
    <3>2. m.kind # "ssr"
      BY <3>1, AnswerDown DEF DownIsEmpty
    <3> QED
      BY <1>3, <3>1, <3>2 DEF Forgets
  <2>2. ASSUME NEW k, NEW g, Accepts(m, k, g)
        PROVE  Reaches(batch', queue', geofences', h, engine'[h].key, Len(queue) + 2)
    <3>1. CASE g = h
      <4>1. Brings(batch, m, h) /\ Bears(batch, m, engine'[h].key)
        BY <2>2, <3>1 DEF Accepts
      <4>2. /\ Len(queue) + 1 \in DOMAIN queue' /\ queue'[Len(queue) + 1] = m
            /\ \A i \in DOMAIN queue' : i \in Nat
        BY <1>1 DEF Arrives
      <4> QED
        BY <1>1, <1>2, <4>1, <4>2, ReachesNew
    <3>2. CASE g # h
      <4>1. engine'[h] = engine[h] /\ m.kind # "ssr" /\ ~Removes(batch, m, h)
        BY <2>2, <3>2 DEF Accepts
      <4> QED
        BY <1>3, <1>4, <4>1 DEF Forgets, Holds
    <3> QED
      BY <3>1, <3>2
  <2>3. ASSUME NEW g, Loses(m, g)
        PROVE  Reaches(batch', queue', geofences', h, engine'[h].key, Len(queue) + 2)
    <3>1. /\ ~Down /\ engine' = [engine EXCEPT ![g] = NoObject]
          /\ Removes(batch, m, h) => h = g
      BY <2>3 DEF Loses
    <3>2. engine \in [HwIds -> GeofenceObject \cup {NoObject}]
      BY DEF Typed, TypeOK
    <3>3. h # g /\ engine'[h] = engine[h]
      BY <1>4, <3>1, <3>2 DEF Holds
    <3>4. m.kind # "ssr"
      BY <3>1, AnswerDown
    <3> QED
      BY <1>3, <1>4, <3>1, <3>3, <3>4 DEF Forgets, Holds
  <2>4. ASSUME NEW g, Turns(m, g)
        PROVE  Reaches(batch', queue', geofences', h, engine'[h].key, Len(queue) + 2)
    <3>1. ~Down /\ ~Removes(batch, m, h)
      BY <2>4 DEF Turns
    <3>2. Holds(h) /\ engine'[h].key = engine[h].key
      BY <1>4, <2>4 DEF Turns, Holds
    <3>3. m.kind # "ssr"
      BY <3>1, AnswerDown
    <3> QED
      BY <1>3, <3>1, <3>2, <3>3 DEF Forgets
  <2> QED
    BY <2>1, <2>2, <2>3, <2>4 DEF Outcome
<1> QED
  BY <1>2, <1>4 DEF HeldIsKnown

LEMMA HeldAfterOthers ==
  ASSUME Typed, HeldIsKnown, Repauses \/ Restarts \/ \E m : Posts(m)
  PROVE  HeldIsKnown'
<1>1. CASE Repauses
  <2>1. /\ UNCHANGED <<batch, queue, geofences>>
        /\ \A h \in HwIds : (Holds(h)' <=> Holds(h)) /\ engine'[h].key = engine[h].key
    BY <1>1 DEF Repauses, adapterVars, Holds
  <2> QED
    BY <2>1 DEF HeldIsKnown
<1>2. CASE Restarts
  BY <1>2 DEF Restarts, HeldIsKnown, Holds
<1>3. ASSUME NEW m, Posts(m)
      PROVE  HeldIsKnown'
  <2>1. Arrives(m) /\ UNCHANGED <<geofences, engine>>
    BY <1>3, PostArrives DEF Posts, engineVars
  <2>2. Len(queue) \in Nat /\ Len(queue') + 1 = Len(queue) + 2
    BY <2>1 DEF Arrives
  <2>3. ASSUME NEW h \in HwIds, Holds(h)
        PROVE  Reaches(batch', queue', geofences', h, engine[h].key, Len(queue) + 2)
    <3>1. engine[h].key \in Keys
      BY <2>3, KnownParts DEF Typed
    <3>2. Reaches(batch, queue, geofences, h, engine[h].key, Len(queue) + 1)
      BY <2>3 DEF HeldIsKnown
    <3>3. ~Forgets(batch', m, h)
      BY <1>3, PostIsPlain
    <3> QED
      BY <2>1, <2>2, <3>1, <3>2, <3>3, ReachesAfterArrival
  <2> QED
    BY <2>1, <2>2, <2>3 DEF HeldIsKnown, Holds
<1> QED
  BY <1>1, <1>2, <1>3

----------------------------------------------------------------------------
(* BreachIsKnown. *)

LEMMA BreachTyped ==
  ASSUME Typed, NEW p \in DOMAIN queue, queue[p].kind = "breach"
  PROVE  queue[p].hw \in HwIds /\ queue[p].key \in Keys
<1>1. queue[p] \in Message
  BY ElementTyped DEF Typed, TypeOK
<1> QED
  BY <1>1, MessageParts

LEMMA BreachAfterAdapter ==
  ASSUME Typed, BroughtOnce, BreachIsKnown, Frame, NEW L, Hands(L), Added(L), Handled
  PROVE  BreachIsKnown'
<1>1. Moves(L)
  BY AdapterMoves
<1>2. ASSUME NEW p \in DOMAIN queue', queue'[p].kind = "breach"
      PROVE  Reaches(batch', queue', geofences', queue'[p].hw, queue'[p].key, p)
  <2>1. p + 1 \in DOMAIN queue /\ queue'[p] = queue[p + 1] /\ p \in Nat /\ p + 1 > 1 /\ (p + 1) - 1 = p
    BY <1>1 DEF Moves
  <2>2. queue[p + 1].hw \in HwIds /\ queue[p + 1].key \in Keys
    BY <1>2, <2>1, BreachTyped
  <2>3. Reaches(batch, queue, geofences, queue[p + 1].hw, queue[p + 1].key, p + 1)
    BY <1>2, <2>1 DEF BreachIsKnown
  <2>4. Reaches(batch', queue', geofences', queue[p + 1].hw, queue[p + 1].key, (p + 1) - 1)
    BY <2>1, <2>2, <2>3, ReachesAfterAdapter
  <2> QED
    BY <2>1, <2>4
<1> QED
  BY <1>2 DEF BreachIsKnown

LEMMA BreachAfterArrival ==
  ASSUME Typed, BreachIsKnown, UNCHANGED geofences, NEW m, Arrives(m),
         m.kind = "breach" => Reaches(batch', queue', geofences', m.hw, m.key, Len(queue) + 1)
  PROVE  BreachIsKnown'
<1>1. ASSUME NEW p \in DOMAIN queue, queue[p].kind = "breach"
      PROVE  Reaches(batch', queue', geofences', queue[p].hw, queue[p].key, p)
  <2>1. queue[p].hw \in HwIds /\ queue[p].key \in Keys
    BY <1>1, BreachTyped
  <2>2. Reaches(batch, queue, geofences, queue[p].hw, queue[p].key, p)
    BY <1>1 DEF BreachIsKnown
  <2>3. p \in Nat /\ p <= Len(queue) + 1
    BY DEF Arrives
  <2> QED
    BY <2>1, <2>2, <2>3, ReachesAfterArrival
<1>2. \A p \in DOMAIN queue' : \/ p \in DOMAIN queue /\ queue'[p] = queue[p]
                               \/ p = Len(queue) + 1 /\ queue'[p] = m
  BY DEF Arrives
<1> QED
  BY <1>1, <1>2 DEF BreachIsKnown

LEMMA BreachAfterOthers ==
  ASSUME Typed, HeldIsKnown, BreachIsKnown,
         \/ \E m : Answers(m) /\ Fits(m) /\ Outcome(m)
         \/ Repauses \/ Restarts \/ \E m : Posts(m)
  PROVE  BreachIsKnown'
<1>1. ASSUME NEW m, Answers(m), Fits(m), Outcome(m)
      PROVE  BreachIsKnown'
  BY <1>1, AnswerArrives, BreachAfterArrival DEF Answers, adapterVars, Fits
<1>2. CASE Repauses \/ Restarts
  <2>1. UNCHANGED <<batch, queue, geofences>>
    BY <1>2 DEF Repauses, Restarts, adapterVars
  <2> QED
    BY <2>1 DEF BreachIsKnown
<1>3. ASSUME NEW m, Posts(m)
      PROVE  BreachIsKnown'
  <2>1. Arrives(m) /\ UNCHANGED geofences
    BY <1>3, PostArrives DEF Posts
  <2>2. ASSUME m.kind = "breach"
        PROVE  Reaches(batch', queue', geofences', m.hw, m.key, Len(queue) + 1)
    <3>1. Holds(m.hw) /\ m.hw \in HwIds /\ m.key = engine[m.hw].key
      BY <1>3, <2>2 DEF Posts
    <3>2. m.key \in Keys
      BY <3>1, KnownParts DEF Typed
    <3>3. Reaches(batch, queue, geofences, m.hw, m.key, Len(queue) + 1)
      BY <3>1 DEF HeldIsKnown
    <3>4. Len(queue) + 1 \in Nat
      BY <2>1 DEF Arrives
    <3> QED
      BY <2>1, <3>1, <3>2, <3>3, <3>4, ReachesAfterArrival
  <2> QED
    BY <2>1, <2>2, BreachAfterArrival
<1> QED
  BY <1>1, <1>2, <1>3

----------------------------------------------------------------------------
(* KnownIsHeld. *)


(* A fence that a client has stays in the map unless the engine forgot it.    *)
LEMMA HandledKeeps ==
  ASSUME Typed, MapsAgree, queue # <<>>, Handled, NEW h \in HwIds, Knows(h)',
         geofences'[h].key[1] \in clients', clients' \subseteq clients
  PROVE  \/ Knows(h) /\ geofences[h].key[1] \in clients /\ ~Forgets(batch, Msg, h)
         \/ Brings(batch, Msg, h)
<1>1. geofences \in [HwIds -> GeofenceObject \cup {NoObject}]
  BY DEF Typed, TypeOK
<1>2. geofences'[h] # NoObject
  BY DEF Knows
<1> SUFFICES ASSUME ~Brings(batch, Msg, h)
             PROVE  Knows(h) /\ geofences[h].key[1] \in clients /\ ~Forgets(batch, Msg, h)
  OBVIOUS
<1>3. Knows(h) /\ geofences[h].key[1] \in clients
  BY HandledKnows
<1>4. CASE Rests
  BY <1>3, <1>4 DEF Rests, Forgets
<1>5. ASSUME NEW k, NEW g, Saves(k, g)
      PROVE  ~Forgets(batch, Msg, h)
  BY <1>5, Meanings DEF Saves, Forgets
<1>6. ASSUME NEW g, Drops(g)
      PROVE  ~Forgets(batch, Msg, h)
  <2>1. Msg.kind = "done" /\ Removes(batch, Msg, g) /\ g \in HwIds /\ RemoveGeofenceItem(g)
    BY <1>6 DEF Drops
  <2>2. g # h
    <3> SUFFICES ASSUME g = h
                 PROVE  FALSE
      OBVIOUS
    <3>1. geofenceIds[geofences[h].key] = h /\ h # None
      BY <1>3 DEF MapsAgree, HwIds, None
    <3>2. geofences' = [geofences EXCEPT ![h] = NoObject]
      BY <1>3, <2>1, <3>1 DEF RemoveGeofenceItem
    <3> QED
      BY <1>1, <1>2, <3>2
  <2> QED
    BY <2>1, <2>2, Meanings DEF Forgets
<1>7. ASSUME NEW g, Clears(g)
      PROVE  ~Forgets(batch, Msg, h)
  <2>1. /\ Msg.kind = "cleared" /\ Removes(batch, Msg, g) /\ g \in HwIds
        /\ geofences' = [geofences EXCEPT ![g] = NoObject]
    BY <1>7 DEF Clears
  <2>2. g # h
    BY <1>1, <1>2, <2>1
  <2> QED
    BY <2>1, <2>2, Meanings DEF Forgets
<1>8. ~Resets
  BY <1>2 DEF Resets
<1>9. ASSUME NEW c, Stops(c)
      PROVE  ~Forgets(batch, Msg, h)
  BY <1>9, Meanings DEF Stops, Forgets
<1> QED
  BY <1>3, <1>4, <1>5, <1>6, <1>7, <1>8, <1>9 DEF Handled

LEMMA KnownAfterAdapter ==
  ASSUME Typed, MapsAgree, KnownIsHeld, Frame, NEW L, Hands(L), Added(L), Handled
  PROVE  KnownIsHeld'
<1>1. Moves(L) /\ (Down' <=> Down) /\ UNCHANGED engine /\ queue # <<>> /\ clients' \subseteq clients
  BY AdapterMoves, AdapterDown DEF Hands, Frame
<1>2. \A i \in DOMAIN queue : i # 1 => /\ i - 1 \in DOMAIN queue' /\ queue'[i - 1] = queue[i] /\ i \in Nat
                                       /\ MeansSame(queue[i])
  <2> SUFFICES ASSUME NEW i \in DOMAIN queue, i # 1
               PROVE  /\ i - 1 \in DOMAIN queue' /\ queue'[i - 1] = queue[i] /\ i \in Nat
                      /\ MeansSame(queue[i])
    OBVIOUS
  <2>1. i - 1 \in DOMAIN queue' /\ queue'[i - 1] = queue[i] /\ i \in Nat
    BY <1>1 DEF Moves
  <2>2. (i - 1) + 1 = i
    BY <2>1
  <2>3. MeansSame(queue[(i - 1) + 1])
    BY <1>1, <2>1 DEF Moves
  <2> QED
    BY <2>1, <2>2, <2>3
<1>3. 1 \in DOMAIN queue /\ queue[1] = Msg
  BY <1>1 DEF Moves
<1>4. ASSUME NEW h \in HwIds, \E p \in DOMAIN queue : p # 1 /\ Forgets(batch, queue[p], h)
      PROVE  \E p \in DOMAIN queue' : Forgets(batch', queue'[p], h)
  BY <1>2, <1>4 DEF MeansSame
<1>5. ASSUME NEW h \in HwIds, Knows(h)', geofences'[h].key[1] \in clients'
      PROVE  Holds(h)' \/ Down' \/ \E p \in DOMAIN queue' : Forgets(batch', queue'[p], h)
  <2>1. CASE Knows(h) /\ geofences[h].key[1] \in clients /\ ~Forgets(batch, Msg, h)
    <3>1. Holds(h) \/ Down \/ \E p \in DOMAIN queue : Forgets(batch, queue[p], h)
      BY <2>1 DEF KnownIsHeld
    <3>2. ASSUME NEW p \in DOMAIN queue, Forgets(batch, queue[p], h)
          PROVE  \E r \in DOMAIN queue' : Forgets(batch', queue'[r], h)
      BY <1>3, <1>4, <2>1, <3>2
    <3> QED
      BY <1>1, <3>1, <3>2 DEF Holds
  <2>2. CASE Brings(batch, Msg, h)
    <3>1. Brings(batch, queue[1], h)
      BY <1>3, <2>2
    <3>2. Holds(h) \/ Down \/ \E p \in DOMAIN queue : 1 < p /\ queue[p].kind = "ssr"
      BY <1>3, <3>1 DEF KnownIsHeld
    <3>3. ASSUME NEW p \in DOMAIN queue, 1 < p, queue[p].kind = "ssr"
          PROVE  \E r \in DOMAIN queue' : Forgets(batch', queue'[r], h)
      <4>1. Forgets(batch, queue[p], h) /\ p # 1
        BY <3>3 DEF Forgets
      <4> QED
        BY <1>4, <4>1
    <3> QED
      BY <1>1, <3>2, <3>3 DEF Holds
  <2> QED
    BY <1>1, <1>5, <2>1, <2>2, HandledKeeps
<1>6. ASSUME NEW h \in HwIds, NEW q \in DOMAIN queue', Brings(batch', queue'[q], h)
      PROVE  Holds(h)' \/ Down' \/ \E p \in DOMAIN queue' : q < p /\ queue'[p].kind = "ssr"
  <2>1. q + 1 \in DOMAIN queue /\ q \in Nat /\ q > 0 /\ Brings(batch, queue[q + 1], h)
    BY <1>1, <1>6 DEF Moves, MeansSame
  <2>2. Holds(h) \/ Down \/ \E p \in DOMAIN queue : q + 1 < p /\ queue[p].kind = "ssr"
    BY <2>1 DEF KnownIsHeld
  <2>3. ASSUME NEW p \in DOMAIN queue, q + 1 < p, queue[p].kind = "ssr"
        PROVE  \E r \in DOMAIN queue' : q < r /\ queue'[r].kind = "ssr"
    <3>1. p # 1 /\ p \in Nat
      BY <1>1, <2>1, <2>3 DEF Moves
    <3>2. p - 1 \in DOMAIN queue' /\ queue'[p - 1] = queue[p] /\ q < p - 1
      BY <1>2, <2>1, <2>3, <3>1
    <3> QED
      BY <2>3, <3>2
  <2> QED
    BY <1>1, <2>2, <2>3 DEF Holds
<1> QED
  BY <1>5, <1>6 DEF KnownIsHeld

(* A fence the engine holds stays unless it answers that it removed it.       *)
LEMMA AnswerHolds ==
  ASSUME Typed, NEW m, Outcome(m), NEW h \in HwIds, Holds(h)
  PROVE  Holds(h)' \/ (Removes(batch, m, h) /\ Uses(batch, Call1, h))
<1>1. engine \in [HwIds -> GeofenceObject \cup {NoObject}]
  BY DEF Typed, TypeOK
<1>2. CASE Keeps(m)
  BY <1>2 DEF Keeps, Holds
<1>3. ASSUME NEW k, NEW g, Accepts(m, k, g)
      PROVE  Holds(h)'
  BY <1>3 DEF Accepts, Holds
<1>4. ASSUME NEW g, Loses(m, g)
      PROVE  Holds(h)' \/ (Removes(batch, m, h) /\ Uses(batch, Call1, h))
  BY <1>1, <1>4 DEF Loses, Holds
<1>5. ASSUME NEW g, Turns(m, g)
      PROVE  Holds(h)'
  BY <1>5 DEF Turns, Holds
<1> QED
  BY <1>2, <1>3, <1>4, <1>5 DEF Outcome

LEMMA KnownAfterAnswer ==
  ASSUME Typed, BroughtOnce, KnownIsHeld, NEW m, Answers(m), Fits(m), Outcome(m)
  PROVE  KnownIsHeld'
<1>1. Arrives(m) /\ Served /\ UNCHANGED <<clients, geofences, batch>>
  BY AnswerArrives DEF Answers, adapterVars
<1>2. /\ \A i \in DOMAIN queue : i \in DOMAIN queue' /\ queue'[i] = queue[i] /\ i < Len(queue) + 1
      /\ Len(queue) + 1 \in DOMAIN queue' /\ queue'[Len(queue) + 1] = m
      /\ \A i \in DOMAIN queue' : \/ i \in DOMAIN queue /\ queue'[i] = queue[i]
                                  \/ i = Len(queue) + 1 /\ queue'[i] = m
  BY <1>1 DEF Arrives
<1>3. Down => Down' \/ m.kind = "ssr"
  BY AnswerDown
<1>4. ASSUME NEW h \in HwIds, Knows(h), geofences[h].key[1] \in clients
      PROVE  Holds(h)' \/ Down' \/ \E p \in DOMAIN queue' : Forgets(batch, queue'[p], h)
  <2>1. Holds(h) \/ Down \/ \E p \in DOMAIN queue : Forgets(batch, queue[p], h)
    BY <1>4 DEF KnownIsHeld
  <2>2. CASE Holds(h)
    BY <1>2, <2>2, AnswerHolds DEF Forgets
  <2>3. CASE Down
    BY <1>2, <1>3, <2>3 DEF Forgets
  <2>4. CASE \E p \in DOMAIN queue : Forgets(batch, queue[p], h)
    BY <1>2, <2>4
  <2> QED
    BY <2>1, <2>2, <2>3, <2>4
<1>5. ASSUME NEW h \in HwIds, NEW q \in DOMAIN queue', Brings(batch, queue'[q], h)
      PROVE  Holds(h)' \/ Down' \/ \E p \in DOMAIN queue' : q < p /\ queue'[p].kind = "ssr"
  <2>1. CASE q \in DOMAIN queue /\ queue'[q] = queue[q]
    <3>1. Holds(h) \/ Down \/ \E p \in DOMAIN queue : q < p /\ queue[p].kind = "ssr"
      BY <1>5, <2>1 DEF KnownIsHeld
    <3>2. ~Uses(batch, Call1, h)
      BY <1>1, <1>5, <2>1 DEF BroughtOnce, Served
    <3>3. CASE Holds(h)
      BY <3>2, <3>3, AnswerHolds
    <3>4. CASE Down
      BY <1>2, <1>3, <2>1, <3>4
    <3>5. CASE \E p \in DOMAIN queue : q < p /\ queue[p].kind = "ssr"
      BY <1>2, <3>5
    <3> QED
      BY <3>1, <3>3, <3>4, <3>5
  <2>2. CASE queue'[q] = m
    <3>1. Accepts(m, engine'[h].key, h)
      BY <1>5, <2>2, OutcomeBrings
    <3> QED
      BY <3>1 DEF Accepts, Holds
  <2> QED
    BY <1>2, <2>1, <2>2
<1>6. \A h \in HwIds : Knows(h)' <=> Knows(h)
  BY <1>1 DEF Knows
<1> QED
  BY <1>1, <1>4, <1>5, <1>6 DEF KnownIsHeld

LEMMA KnownAfterOthers ==
  ASSUME Typed, KnownIsHeld, Repauses \/ Restarts \/ \E m : Posts(m)
  PROVE  KnownIsHeld'
<1>1. CASE Repauses
  <2>1. /\ UNCHANGED <<clients, geofences, batch, queue>> /\ Call1.kind = "repause"
        /\ \A h \in HwIds : Holds(h)' <=> Holds(h)
    BY <1>1 DEF Repauses, adapterVars, Holds
  <2>2. Down => Down'
    BY <1>1, <2>1, RepauseServes DEF Down, Served
  <2>3. \A h \in HwIds : Knows(h)' <=> Knows(h)
    BY <2>1 DEF Knows
  <2> QED
    BY <2>1, <2>2, <2>3 DEF KnownIsHeld
<1>2. CASE Restarts
  <2> DEFINE m == [kind |-> "ssr"]
  <2>1. m \in Call /\ m.kind = "ssr" /\ calls' = Append(calls, m)
    BY <1>2, HwCallKinds DEF Restarts
  <2> HIDE DEF m
  <2>2. Len(calls) + 1 \in DOMAIN calls' /\ calls'[Len(calls) + 1] = m
    BY <2>1, AppendElements DEF Typed, TypeOK
  <2>3. Down'
    BY <2>1, <2>2 DEF Down
  <2> QED
    BY <2>3 DEF KnownIsHeld
<1>3. ASSUME NEW m, Posts(m)
      PROVE  KnownIsHeld'
  <2>1. Arrives(m) /\ UNCHANGED <<clients, geofences, calls, engine>>
    BY <1>3, PostArrives DEF Posts, engineVars
  <2>2. \A h : ~Brings(batch', m, h)
    BY <1>3, PostIsPlain
  <2>3. \A i \in DOMAIN queue : i \in DOMAIN queue' /\ queue'[i] = queue[i] /\ MeansSame(queue[i])
    BY <2>1 DEF Arrives
  <2>4. \A i \in DOMAIN queue' : (i \in DOMAIN queue /\ queue'[i] = queue[i]) \/ queue'[i] = m
    BY <2>1 DEF Arrives
  <2>5. (Down' <=> Down) /\ \A h \in HwIds : (Holds(h)' <=> Holds(h)) /\ (Knows(h)' <=> Knows(h))
    BY <2>1 DEF Down, Holds, Knows
  <2>6. ASSUME NEW h \in HwIds, Knows(h)', geofences'[h].key[1] \in clients'
        PROVE  Holds(h)' \/ Down' \/ \E p \in DOMAIN queue' : Forgets(batch', queue'[p], h)
    <3>1. Holds(h) \/ Down \/ \E p \in DOMAIN queue : Forgets(batch, queue[p], h)
      BY <2>1, <2>5, <2>6 DEF KnownIsHeld
    <3> QED
      BY <2>3, <2>5, <3>1 DEF MeansSame
  <2>7. ASSUME NEW h \in HwIds, NEW q \in DOMAIN queue', Brings(batch', queue'[q], h)
        PROVE  Holds(h)' \/ Down' \/ \E p \in DOMAIN queue' : q < p /\ queue'[p].kind = "ssr"
    <3>1. q \in DOMAIN queue /\ Brings(batch, queue[q], h)
      BY <2>2, <2>3, <2>4, <2>7 DEF MeansSame
    <3>2. Holds(h) \/ Down \/ \E p \in DOMAIN queue : q < p /\ queue[p].kind = "ssr"
      BY <3>1 DEF KnownIsHeld
    <3> QED
      BY <2>3, <2>5, <3>2
  <2> QED
    BY <2>6, <2>7 DEF KnownIsHeld
<1> QED
  BY <1>1, <1>2, <1>3

----------------------------------------------------------------------------
(* OptionsAgree. *)

Options(h) ==
  /\ Knows(h) /\ engine[h].modified /\ ~geofences[h].modified =>
       \E p \in DOMAIN queue : Modifies(batch, queue[p], h)
  /\ Knows(h) /\ geofences[h].modified => engine[h].modified
  /\ \A p \in DOMAIN queue : Modifies(batch, queue[p], h) => engine[h].modified
  /\ \A q \in DOMAIN queue : Brings(batch, queue[q], h) => engine[h].modified = Brought(queue[q])

LEMMA OptionsAgreeIs == OptionsAgree <=> \A h \in HwIds : Holds(h) => Options(h)
  BY DEF OptionsAgree, Options

LEMMA BroughtIsTrueOrFalse ==
  ASSUME NEW m \in Message
  PROVE  Brought(m) \in BOOLEAN
<1>1. m.kind = "restored" => m.object.modified \in BOOLEAN
  BY MessageParts, ObjectParts
<1> QED
  BY <1>1 DEF Brought

(* What becomes of a fence's option in the map.                               *)
LEMMA HandledOption ==
  ASSUME Typed, Handled, NEW h \in HwIds, Knows(h)'
  PROVE  \/ Rests /\ Knows(h)
         \/ Knows(h) /\ geofences'[h] = geofences[h] /\ ~Modifies(batch, Msg, h)
         \/ Brings(batch, Msg, h) /\ geofences'[h].modified = Brought(Msg)
<1>1. geofences \in [HwIds -> GeofenceObject \cup {NoObject}]
  BY DEF Typed, TypeOK
<1>2. geofences'[h] # NoObject
  BY DEF Knows
<1>3. geofences'[h] = geofences[h] => Knows(h)
  BY <1>2 DEF Knows
<1>4. CASE Rests
  BY <1>4 DEF Rests
<1>5. ASSUME NEW k, NEW g, Saves(k, g)
      PROVE  \/ geofences'[h] = geofences[h] /\ ~Modifies(batch, Msg, h)
             \/ Brings(batch, Msg, h) /\ geofences'[h].modified = Brought(Msg)
  <2>1. /\ Brings(batch, Msg, g) /\ geofences'[g].modified = Brought(Msg)
        /\ \A f \in HwIds : f # g => geofences'[f] = geofences[f]
    BY <1>5 DEF Saves
  <2>2. ~Modifies(batch, Msg, h)
    BY <2>1, Meanings
  <2>3. CASE g = h
    BY <2>1, <2>3
  <2>4. CASE g # h
    BY <2>1, <2>2, <2>4
  <2> QED
    BY <2>3, <2>4
<1>6. ASSUME NEW g, Drops(g)
      PROVE  geofences'[h] = geofences[h] /\ ~Modifies(batch, Msg, h)
  BY <1>1, <1>2, <1>6, Meanings DEF Drops, RemoveGeofenceItem
<1>7. ASSUME NEW g, Clears(g)
      PROVE  geofences'[h] = geofences[h] /\ ~Modifies(batch, Msg, h)
  BY <1>1, <1>2, <1>7, Meanings DEF Clears
<1>8. ~Resets
  BY <1>2 DEF Resets
<1>9. ASSUME NEW c, Stops(c)
      PROVE  geofences'[h] = geofences[h] /\ ~Modifies(batch, Msg, h)
  BY <1>9, Meanings DEF Stops
<1> QED
  BY <1>3, <1>4, <1>5, <1>6, <1>7, <1>8, <1>9 DEF Handled

LEMMA OptionsAfterAdapter ==
  ASSUME Typed, OptionsAgree, Frame, NEW L, Hands(L), Added(L), Handled
  PROVE  OptionsAgree'
<1>1. Moves(L) /\ UNCHANGED engine
  BY AdapterMoves, AdapterDown
<1> SUFFICES ASSUME NEW h \in HwIds, Holds(h)'
             PROVE  Options(h)'
  BY OptionsAgreeIs DEF OptionsAgree, Options
<1>2. Holds(h) /\ engine' = engine /\ Options(h)
  BY <1>1, OptionsAgreeIs DEF Holds
<1>3. /\ 1 \in DOMAIN queue /\ queue[1] = Msg
      /\ \A i \in DOMAIN queue' : i + 1 \in DOMAIN queue /\ queue'[i] = queue[i + 1] /\ MeansSame(queue[i + 1])
      /\ \A i \in DOMAIN queue : i # 1 => i - 1 \in DOMAIN queue' /\ queue'[i - 1] = queue[i]
  BY <1>1 DEF Moves
<1>4. ASSUME NEW p \in DOMAIN queue, p # 1, Modifies(batch, queue[p], h)
      PROVE  \E r \in DOMAIN queue' : Modifies(batch', queue'[r], h)
  <2>1. p - 1 \in DOMAIN queue' /\ queue'[p - 1] = queue[p]
    BY <1>3, <1>4
  <2>2. MeansSame(queue[p])
    BY <1>3, <2>1
  <2> QED
    BY <1>4, <2>1, <2>2 DEF MeansSame
<1>5. \A p \in DOMAIN queue' : Modifies(batch', queue'[p], h) => engine[h].modified
  BY <1>2, <1>3 DEF MeansSame, Options
<1>6. \A q \in DOMAIN queue' : Brings(batch', queue'[q], h) => engine[h].modified = Brought(queue'[q])
  <2> SUFFICES ASSUME NEW q \in DOMAIN queue', Brings(batch', queue'[q], h)
               PROVE  engine[h].modified = Brought(queue'[q])
    OBVIOUS
  <2>1. q + 1 \in DOMAIN queue /\ queue'[q] = queue[q + 1] /\ Brings(batch, queue[q + 1], h)
    BY <1>3 DEF MeansSame
  <2>2. engine[h].modified = Brought(queue[q + 1])
    BY <1>2, <2>1 DEF Options
  <2> QED
    BY <2>1, <2>2
<1>7. ASSUME Knows(h)'
      PROVE  /\ engine[h].modified /\ ~geofences'[h].modified =>
                  \E p \in DOMAIN queue' : Modifies(batch', queue'[p], h)
             /\ geofences'[h].modified => engine[h].modified
  <2>1. CASE Knows(h) /\ (geofences'[h].modified <=> geofences[h].modified \/ Modifies(batch, Msg, h))
    <3>1. ASSUME engine[h].modified, ~geofences'[h].modified
          PROVE  \E p \in DOMAIN queue' : Modifies(batch', queue'[p], h)
      <4>1. PICK p \in DOMAIN queue : Modifies(batch, queue[p], h)
        BY <1>2, <2>1, <3>1 DEF Options
      <4>2. p # 1
        BY <1>3, <2>1, <3>1, <4>1
      <4> QED
        BY <1>4, <4>1, <4>2
    <3>2. geofences'[h].modified => engine[h].modified
      BY <1>2, <1>3, <2>1 DEF Options
    <3> QED
      BY <3>1, <3>2
  <2>2. CASE Rests /\ Knows(h)
    <3>1. geofences'[h].modified = (geofences[h].modified \/ Modifies(batch, Msg, h))
      BY <2>2 DEF Rests
    <3> QED
      BY <2>1, <2>2, <3>1
  <2>3. CASE Knows(h) /\ geofences'[h] = geofences[h] /\ ~Modifies(batch, Msg, h)
    BY <2>1, <2>3
  <2>4. CASE Brings(batch, Msg, h) /\ geofences'[h].modified = Brought(Msg)
    <3>1. engine[h].modified = Brought(Msg)
      BY <1>2, <1>3, <2>4 DEF Options
    <3> QED
      BY <2>4, <3>1
  <2> QED
    BY <1>7, <2>2, <2>3, <2>4, HandledOption
<1> QED
  BY <1>2, <1>5, <1>6, <1>7 DEF Options

LEMMA OptionsAfterAnswer ==
  ASSUME Typed, BroughtOnce, OptionsAgree, NEW m, Answers(m), Fits(m), Outcome(m)
  PROVE  OptionsAgree'
<1>1. Arrives(m) /\ Served /\ UNCHANGED <<geofences, batch>>
  BY AnswerArrives DEF Answers, adapterVars
<1>2. /\ \A i \in DOMAIN queue : i \in DOMAIN queue' /\ queue'[i] = queue[i]
      /\ Len(queue) + 1 \in DOMAIN queue' /\ queue'[Len(queue) + 1] = m
      /\ \A i \in DOMAIN queue' : (i \in DOMAIN queue /\ queue'[i] = queue[i]) \/ queue'[i] = m
  BY <1>1 DEF Arrives
<1> SUFFICES ASSUME NEW h \in HwIds, Holds(h)'
             PROVE  Options(h)'
  BY OptionsAgreeIs DEF OptionsAgree, Options
<1>3. Knows(h)' <=> Knows(h)
  BY <1>1 DEF Knows
<1>4. ASSUME Holds(h), engine'[h] = engine[h], ~Modifies(batch, m, h), ~Brings(batch, m, h)
      PROVE  Options(h)'
  <2>1. Options(h)
    BY <1>4, OptionsAgreeIs
  <2>2. Knows(h) /\ engine'[h].modified /\ ~geofences[h].modified =>
          \E p \in DOMAIN queue' : Modifies(batch, queue'[p], h)
    BY <1>2, <1>4, <2>1 DEF Options
  <2>3. Knows(h) /\ geofences[h].modified => engine'[h].modified
    BY <1>4, <2>1 DEF Options
  <2>4. \A p \in DOMAIN queue' : Modifies(batch, queue'[p], h) => engine'[h].modified
    BY <1>2, <1>4, <2>1 DEF Options
  <2>5. \A q \in DOMAIN queue' : Brings(batch, queue'[q], h) => engine'[h].modified = Brought(queue'[q])
    <3> SUFFICES ASSUME NEW q \in DOMAIN queue', Brings(batch, queue'[q], h)
                 PROVE  engine'[h].modified = Brought(queue'[q])
      OBVIOUS
    <3>1. q \in DOMAIN queue /\ queue'[q] = queue[q]
      BY <1>2, <1>4
    <3>2. engine[h].modified = Brought(queue[q])
      BY <2>1, <3>1 DEF Options
    <3> QED
      BY <1>4, <3>1, <3>2
  <2> QED
    BY <1>1, <1>3, <2>2, <2>3, <2>4, <2>5 DEF Options
<1>5. CASE Keeps(m)
  BY <1>4, <1>5 DEF Keeps, Holds
<1>6. ASSUME NEW k, NEW g, Accepts(m, k, g)
      PROVE  Options(h)'
  <2>1. CASE g = h
    <3>1. h = hwLast + 1 /\ engine'[h].modified = Brought(m) /\ Brings(batch, m, h)
          /\ \A f : f \in HwIds => ~Modifies(batch, m, f)
      BY <1>6, <2>1 DEF Accepts
    <3>2. h \notin 1..hwLast
      BY <3>1, NotTheNext
    <3>3. ~Knows(h)
      BY <3>2, NotTheNext
    <3>4. \A i \in DOMAIN queue : ~Brings(batch, queue[i], h) /\ ~Modifies(batch, queue[i], h)
      BY <3>2, MailGiven
    <3>5. \A i \in DOMAIN queue' : ~Modifies(batch, queue'[i], h)
      BY <1>2, <3>1, <3>4
    <3>6. \A q \in DOMAIN queue' : Brings(batch, queue'[q], h) => engine'[h].modified = Brought(queue'[q])
      <4> SUFFICES ASSUME NEW q \in DOMAIN queue', Brings(batch, queue'[q], h)
                   PROVE  engine'[h].modified = Brought(queue'[q])
        OBVIOUS
      <4>1. queue'[q] = m
        BY <1>2, <3>4
      <4> QED
        BY <3>1, <4>1
    <3> QED
      BY <1>1, <1>3, <3>3, <3>5, <3>6 DEF Options
  <2>2. CASE g # h
    BY <1>4, <1>6, <2>2 DEF Accepts, Holds
  <2> QED
    BY <2>1, <2>2
<1>7. ASSUME NEW g, Loses(m, g)
      PROVE  Options(h)'
  <2>1. engine \in [HwIds -> GeofenceObject \cup {NoObject}]
    BY DEF Typed, TypeOK
  <2>2. h # g /\ engine'[h] = engine[h]
    BY <1>7, <2>1 DEF Loses, Holds
  <2> QED
    BY <1>4, <1>7, <2>2 DEF Loses, Holds
<1>8. ASSUME NEW g, Turns(m, g)
      PROVE  Options(h)'
  <2>1. CASE g # h
    BY <1>4, <1>8, <2>1 DEF Turns, Holds
  <2>2. CASE g = h
    <3>1. /\ Holds(h) /\ Uses(batch, Call1, h) /\ ~Brings(batch, m, h)
          /\ engine'[h].modified = (engine[h].modified \/ Modifies(batch, m, h))
      BY <1>8, <2>2 DEF Turns
    <3>2. Options(h)
      BY <3>1, OptionsAgreeIs
    <3>3. \A q \in DOMAIN queue' : ~Brings(batch, queue'[q], h)
      BY <1>1, <1>2, <3>1 DEF BroughtOnce, Served
    <3>4. engine'[h].modified <=> engine[h].modified \/ Modifies(batch, m, h)
      BY <3>1
    <3>5. Knows(h) /\ engine'[h].modified /\ ~geofences[h].modified =>
            \E p \in DOMAIN queue' : Modifies(batch, queue'[p], h)
      BY <1>2, <3>2, <3>4 DEF Options
    <3>6. Knows(h) /\ geofences[h].modified => engine'[h].modified
      BY <3>2, <3>4 DEF Options
    <3>7. \A p \in DOMAIN queue' : Modifies(batch, queue'[p], h) => engine'[h].modified
      BY <1>2, <3>2, <3>4 DEF Options
    <3> QED
      BY <1>1, <1>3, <3>3, <3>5, <3>6, <3>7 DEF Options
  <2> QED
    BY <2>1, <2>2
<1> QED
  BY <1>5, <1>6, <1>7, <1>8 DEF Outcome

LEMMA OptionsAfterOthers ==
  ASSUME Typed, OptionsAgree, Repauses \/ Restarts \/ \E m : Posts(m)
  PROVE  OptionsAgree'
<1>1. CASE Repauses
  <2>1. /\ UNCHANGED <<geofences, batch, queue>>
        /\ \A h \in HwIds : (Holds(h)' <=> Holds(h)) /\ engine'[h].modified = engine[h].modified
    BY <1>1 DEF Repauses, adapterVars, Holds
  <2> SUFFICES ASSUME NEW h \in HwIds, Holds(h)'
               PROVE  Options(h)'
    BY OptionsAgreeIs DEF OptionsAgree, Options
  <2>2. Options(h) /\ engine'[h].modified = engine[h].modified
    BY <2>1, OptionsAgreeIs
  <2>3. Knows(h)' <=> Knows(h)
    BY <2>1 DEF Knows
  <2> QED
    BY <2>1, <2>2, <2>3 DEF Options
<1>2. CASE Restarts
  BY <1>2 DEF Restarts, OptionsAgree, Holds
<1>3. ASSUME NEW m, Posts(m)
      PROVE  OptionsAgree'
  <2>1. Arrives(m) /\ UNCHANGED <<geofences, engine>>
    BY <1>3, PostArrives DEF Posts, engineVars
  <2>2. \A h : ~Brings(batch', m, h) /\ ~Modifies(batch', m, h)
    BY <1>3, PostIsPlain
  <2>3. \A i \in DOMAIN queue : i \in DOMAIN queue' /\ queue'[i] = queue[i] /\ MeansSame(queue[i])
    BY <2>1 DEF Arrives
  <2>4. \A i \in DOMAIN queue' : (i \in DOMAIN queue /\ queue'[i] = queue[i]) \/ queue'[i] = m
    BY <2>1 DEF Arrives
  <2> SUFFICES ASSUME NEW h \in HwIds, Holds(h)'
               PROVE  Options(h)'
    BY OptionsAgreeIs DEF OptionsAgree, Options
  <2>5. Options(h) /\ engine' = engine /\ geofences' = geofences
    BY <2>1, OptionsAgreeIs DEF Holds
  <2>6. Knows(h) /\ engine[h].modified /\ ~geofences[h].modified =>
          \E p \in DOMAIN queue' : Modifies(batch', queue'[p], h)
    BY <2>3, <2>5 DEF Options, MeansSame
  <2>7. \A p \in DOMAIN queue' : Modifies(batch', queue'[p], h) => engine[h].modified
    BY <2>2, <2>3, <2>4, <2>5 DEF Options, MeansSame
  <2>8. \A q \in DOMAIN queue' : Brings(batch', queue'[q], h) => engine[h].modified = Brought(queue'[q])
    <3> SUFFICES ASSUME NEW q \in DOMAIN queue', Brings(batch', queue'[q], h)
                 PROVE  engine[h].modified = Brought(queue'[q])
      OBVIOUS
    <3>1. q \in DOMAIN queue /\ queue'[q] = queue[q] /\ Brings(batch, queue[q], h)
      BY <2>2, <2>3, <2>4 DEF MeansSame
    <3> QED
      BY <2>5, <3>1 DEF Options
  <2>9. Knows(h)' <=> Knows(h)
    BY <2>5 DEF Knows
  <2>10. Knows(h) /\ geofences[h].modified => engine[h].modified
    BY <2>5 DEF Options
  <2> QED
    BY <2>5, <2>6, <2>7, <2>8, <2>9, <2>10 DEF Options
<1> QED
  BY <1>1, <1>2, <1>3

----------------------------------------------------------------------------
(* The invariant is inductive. *)

LEMMA InvariantInit == Init => IInv
<1> SUFFICES ASSUME Init
             PROVE  IInv
  OBVIOUS
<1>1. Typed
  BY TypedInit
<1>2. /\ DOMAIN queue = {} /\ DOMAIN calls = {}
      /\ \A h \in HwIds : geofences[h] = NoObject /\ engine[h] = NoObject
      /\ \A k \in Keys : geofenceIds[k] = None
  BY DEF Init
<1>3. \A h \in HwIds : ~Knows(h) /\ ~Holds(h) /\ geofences[h].key \notin Keys
  BY <1>2, NoObjectHasNoKey DEF Knows, Holds
<1>4. BorneOnce
  BY <1>2, <1>3 DEF BorneOnce, Borne, Single, Free, KnownOnce, Unknown
<1>5. BroughtOnce /\ DownIsEmpty /\ GoneIsGone /\ ClearsTheUnled
  BY <1>2, <1>3 DEF BroughtOnce, DownIsEmpty, Down, GoneIsGone, ClearsTheUnled
<1>6. MapsAgree /\ HeldIsKnown /\ BreachIsKnown /\ KnownIsHeld /\ OptionsAgree
  BY <1>2, <1>3 DEF MapsAgree, HeldIsKnown, BreachIsKnown, KnownIsHeld, OptionsAgree
<1> QED
  BY <1>1, <1>4, <1>5, <1>6 DEF IInv

LEMMA InvariantStep == IInv /\ Next => IInv'
<1> SUFFICES ASSUME IInv, Next
             PROVE  IInv'
  OBVIOUS
<1>1. /\ Typed /\ BorneOnce /\ BroughtOnce /\ DownIsEmpty /\ GoneIsGone /\ ClearsTheUnled /\ MapsAgree
      /\ HeldIsKnown /\ BreachIsKnown /\ KnownIsHeld /\ OptionsAgree
  BY DEF IInv
<1>2. ASSUME Frame, NEW L, Hands(L), Added(L), Handled
      PROVE  IInv'
  <2>1. queue # <<>>
    BY <1>2 DEF Hands
  <2>2. Typed' /\ BorneOnce' /\ BroughtOnce'
    BY <1>1, <1>2, TypedAfterAdapter, BorneAfterAdapter, BroughtAfterAdapter
  <2>3. DownIsEmpty' /\ GoneIsGone' /\ ClearsTheUnled'
    BY <1>1, <1>2, DownAfter, GoneAfter, ClearsAfterAdapter
  <2>4. MapsAgree' /\ HeldIsKnown' /\ BreachIsKnown'
    BY <1>1, <1>2, <2>1, MapsAfterAdapter, HeldAfterAdapter, BreachAfterAdapter
  <2>5. KnownIsHeld' /\ OptionsAgree'
    BY <1>1, <1>2, KnownAfterAdapter, OptionsAfterAdapter
  <2> QED
    BY <2>2, <2>3, <2>4, <2>5 DEF IInv
<1>3. ASSUME NEW m, Answers(m), Fits(m), Outcome(m)
      PROVE  IInv'
  <2>1. Typed' /\ BorneOnce' /\ BroughtOnce'
    BY <1>1, <1>3, TypedAfterAnswer, BorneAfterAnswer, BroughtAfterAnswer
  <2>2. DownIsEmpty' /\ GoneIsGone' /\ ClearsTheUnled'
    BY <1>1, <1>3, DownAfter, GoneAfter, ClearsAfterOthers
  <2>3. MapsAgree'
    BY <1>1, <1>3, MapsSame DEF Answers, adapterVars
  <2>4. HeldIsKnown' /\ BreachIsKnown'
    BY <1>1, <1>3, HeldAfterAnswer, BreachAfterOthers
  <2>5. KnownIsHeld' /\ OptionsAgree'
    BY <1>1, <1>3, KnownAfterAnswer, OptionsAfterAnswer
  <2> QED
    BY <2>1, <2>2, <2>3, <2>4, <2>5 DEF IInv
<1>4. ASSUME Repauses \/ Restarts \/ \E m : Posts(m)
      PROVE  IInv'
  <2>1. Typed' /\ BorneOnce' /\ BroughtOnce'
    BY <1>1, <1>4, TypedAfterRepause, TypedAfterRestart, TypedAfterPost,
       BorneAfterRepause, BorneAfterRestart, BorneAfterPost, BroughtAfterOthers
  <2>2. DownIsEmpty' /\ GoneIsGone' /\ ClearsTheUnled'
    BY <1>1, <1>4, DownAfter, GoneAfter, ClearsAfterOthers
  <2>3. MapsAgree'
    BY <1>1, <1>4, MapsSame DEF Repauses, Restarts, Posts, adapterVars
  <2>4. HeldIsKnown' /\ BreachIsKnown'
    BY <1>1, <1>4, HeldAfterOthers, BreachAfterOthers
  <2>5. KnownIsHeld' /\ OptionsAgree'
    BY <1>1, <1>4, KnownAfterOthers, OptionsAfterOthers
  <2> QED
    BY <2>1, <2>2, <2>3, <2>4, <2>5 DEF IInv
<1> QED
  BY <1>1, <1>2, <1>3, <1>4, StepKinds

LEMMA InvariantStutter == IInv /\ UNCHANGED vars => IInv'
<1> SUFFICES ASSUME IInv, UNCHANGED vars
             PROVE  IInv'
  OBVIOUS
<1>1. UNCHANGED <<clients, geofences, geofenceIds, lastId, batch, told, queue, calls, engine, hwLast,
                  restarts, world>>
  BY DEF vars, adapterVars, engineVars
<1>2. Typed' /\ BorneOnce' /\ BroughtOnce'
  BY <1>1 DEF IInv, Typed, TypeOK, GoodMail, IdsGiven, BorneOnce, BroughtOnce, Knows, Holds
<1>3. DownIsEmpty' /\ GoneIsGone' /\ ClearsTheUnled' /\ MapsAgree'
  BY <1>1 DEF IInv, DownIsEmpty, Down, GoneIsGone, ClearsTheUnled, MapsAgree, Knows, Holds
<1>4. HeldIsKnown' /\ BreachIsKnown'
  BY <1>1 DEF IInv, HeldIsKnown, BreachIsKnown, Holds
<1>5. KnownIsHeld' /\ OptionsAgree'
  BY <1>1 DEF IInv, KnownIsHeld, OptionsAgree, Down, Knows, Holds
<1> QED
  BY <1>2, <1>3, <1>4, <1>5 DEF IInv

LEMMA Invariant == Spec => []IInv
<1>1. Init => IInv
  BY InvariantInit
<1>2. IInv /\ [Next]_vars => IInv'
  BY InvariantStep, InvariantStutter
<1> QED
  BY <1>1, <1>2, PTL DEF Spec

----------------------------------------------------------------------------
(* What follows. *)

LEMMA QuietIsHeld == IInv => EngineHoldsTheFences
<1> SUFFICES ASSUME IInv
             PROVE  EngineHoldsTheFences
  OBVIOUS
<1>1. TypeOK /\ MapsAgree
  BY DEF IInv, Typed
<1>2. ASSUME Quiet, NEW k \in Keys, k[1] \in clients
      PROVE  /\ Held(k) = IF geofenceIds[k] = None THEN {} ELSE {geofenceIds[k]}
             /\ \A h \in Held(k) : engine[h].modified = geofences[h].modified
  <2>1. DOMAIN queue = {} /\ DOMAIN calls = {} /\ ~Down
    BY <1>2 DEF Quiet, Down
  <2>2. ASSUME NEW h \in HwIds, Holds(h)
        PROVE  geofences[h].key = engine[h].key /\ Knows(h)
    <3>1. Reaches(batch, queue, geofences, h, engine[h].key, Len(queue) + 1)
      BY <2>2 DEF IInv, HeldIsKnown
    <3>2. geofences[h].key = engine[h].key
      BY <2>1, <3>1 DEF Reaches
    <3>3. engine[h].key \in Keys
      BY <1>1, <2>2, KnownParts
    <3> QED
      BY <1>1, <3>2, <3>3, KnownParts
  <2>3. ASSUME NEW h \in Held(k)
        PROVE  geofenceIds[k] = h /\ h # None /\ engine[h].modified = geofences[h].modified
    <3>1. h \in HwIds /\ engine[h].key = k /\ Holds(h)
      BY <1>1, KnownParts DEF Held
    <3>2. geofences[h].key = k /\ Knows(h)
      BY <2>2, <3>1
    <3>3. geofenceIds[k] = h /\ h # None
      BY <1>1, <1>2, <3>1, <3>2 DEF MapsAgree, HwIds, None
    <3>4. engine[h].modified \in BOOLEAN /\ geofences[h].modified \in BOOLEAN
      BY <1>1, <3>1, <3>2, KnownParts
    <3>5. engine[h].modified <=> geofences[h].modified
      BY <2>1, <3>1, <3>2 DEF IInv, OptionsAgree
    <3>6. engine[h].modified = geofences[h].modified
      BY <3>4, <3>5
    <3> QED
      BY <3>3, <3>6
  <2>4. ASSUME geofenceIds[k] # None
        PROVE  geofenceIds[k] \in Held(k)
    <3> DEFINE h == geofenceIds[k]
    <3>1. h \in HwIds /\ geofences[h].key = k
      BY <1>1, <2>4 DEF TypeOK, MapsAgree
    <3> HIDE DEF h
    <3>2. Knows(h)
      BY <1>1, <3>1, KnownParts
    <3>3. Holds(h)
      BY <1>2, <2>1, <3>1, <3>2 DEF IInv, KnownIsHeld
    <3>4. engine[h].key = k
      BY <2>2, <3>1, <3>3
    <3> QED
      BY <3>1, <3>4 DEF Held, h
  <2>5. Held(k) = IF geofenceIds[k] = None THEN {} ELSE {geofenceIds[k]}
    BY <2>3, <2>4
  <2> QED
    BY <2>3, <2>5
<1> QED
  BY <1>1, <1>2 DEF EngineHoldsTheFences

LEMMA BreachIsFound == IInv => BreachFindsItsFence
<1> SUFFICES ASSUME IInv, queue # <<>>, Msg.kind = "breach"
             PROVE  Knows(Msg.hw) /\ geofences[Msg.hw].key = Msg.key
  BY DEF BreachFindsItsFence
<1>1. Typed
  BY DEF IInv
<1>2. 1 \in DOMAIN queue /\ queue[1] = Msg /\ \A i \in DOMAIN queue : i \in Nat /\ i > 0
  BY <1>1, TailElements DEF Typed, TypeOK, Msg
<1>3. queue[1].hw \in HwIds /\ queue[1].key \in Keys
  BY <1>1, <1>2, BreachTyped
<1>4. Reaches(batch, queue, geofences, queue[1].hw, queue[1].key, 1)
  BY <1>2 DEF IInv, BreachIsKnown
<1>5. geofences[queue[1].hw].key = queue[1].key
  BY <1>2, <1>4 DEF Reaches
<1>6. Knows(queue[1].hw)
  BY <1>1, <1>3, <1>5, KnownParts DEF Typed
<1> QED
  BY <1>2, <1>5, <1>6

(* Whatever restarts, refusals, repeated commands and removals come between, *)
(* once nothing is left to read or call the engine holds exactly the fences  *)
(* GeofenceAdapter's two maps name for the clients still registered, each    *)
(* with the option it was last given; and the two maps always agree.  Where a *)
(* modification's unknown last id has the options deleted before the answer   *)
(* of an earlier id saves one, the program is Undefined and nothing is said.  *)
THEOREM FencesHeld == Spec => []EngineHoldsTheFences
  BY Invariant, QuietIsHeld, PTL

(* A breach of a fence the engine holds is never dropped by                  *)
(* geofenceBreachEvent for want of the fence: saveGeofenceItem always ran    *)
(* before the breach is read, and nothing forgot the fence since.            *)
THEOREM BreachFound == Spec => []BreachFindsItsFence
  BY Invariant, BreachIsFound, PTL

----------------------------------------------------------------------------
(* The collective responses.  A command's items go from the adapter's thread   *)
(* to the engine's and back, twice, in four stages, and overtake each other    *)
(* nowhere.                                                                    *)

Stage(m) == CASE m.kind = "callQueue" -> 0 [] m.kind = "item" -> 1 [] m.kind = "done" -> 3 [] OTHER -> 2

(* m commands b, or carries an item of it.                                    *)
Commands(m, b) == m.kind = "command" /\ m.b = b
Carries(m, b) == m.kind \in ItemKinds /\ m.b = b

Behind(x, y) == Stage(x) < Stage(y) => y.i < x.i
InLine(s, b) ==
  \A p, q \in DOMAIN s : Carries(s[p], b) /\ Carries(s[q], b) =>
    /\ Behind(s[p], s[q])
    /\ Stage(s[p]) = Stage(s[q]) /\ p < q => s[p].i < s[q].i
Across(s, t, b) ==
  \A p \in DOMAIN s : \A q \in DOMAIN t : Carries(s[p], b) /\ Carries(t[q], b) =>
    Behind(s[p], t[q]) /\ Behind(t[q], s[p])
Ordered(s, t, b) == InLine(s, b) /\ InLine(t, b) /\ Across(s, t, b)

Given(s, b) == \E p \in DOMAIN s : Commands(s[p], b)
Idle(s, b) == \A p \in DOMAIN s : ~Carries(s[p], b)
On(s, b, i) == \E p \in DOMAIN s : Carries(s[p], b) /\ s[p].i = i
Before(s, b, i, last) == \E p \in DOMAIN s : Carries(s[p], b) /\ s[p].i = i /\ Stage(s[p]) <= last

(* A command waits once, and has no items under way while it does.            *)
Alone(q, c, b) ==
  /\ Ordered(q, c, b)
  /\ \A p, r \in DOMAIN q : Commands(q[p], b) /\ Commands(q[r], b) => p = r
  /\ Given(q, b) => Idle(q, b) /\ Idle(c, b)

(* The stage in which an item's error is first written: when the engine       *)
(* answers an add, when another finds its fence or does not.                  *)
Writes(x) == IF x.op = "add" THEN 3 ELSE 1

(* What the command x, waiting if g, still owes: its response with the last   *)
(* item's answer, and each error before it.                                   *)
Owes(x, g, s, t, b) ==
  LET n == Len(x.ids)
      comes == g \/ On(s, b, n) \/ On(t, b, n)
  IN /\ n >= 1 /\ (g => x.reports = 0)
     /\ x.reports = 0 =>
          /\ comes \/ (x.op = "resume" /\ x.truth[n] = "failure")
          /\ \A i \in 1..n : x.errs[i] = "uninitialised" =>
               g \/ Before(s, b, i, Writes(x)) \/ Before(t, b, i, Writes(x))
     /\ x.reports # 0 =>
          /\ x.reports = 1 /\ ~comes
          /\ \A i \in 1..n : x.errs[i] # "uninitialised"

Followed(x, q, c, b) == Alone(q, c, b) /\ Owes(x, Given(q, b), q, c, b)

CommandsFollow == \A b \in DOMAIN batch : Followed(batch[b], queue, calls, b)
EngineKnowsIds ==
  \A p \in DOMAIN queue : queue[p].kind = "done" => queue[p].err \in {"success", "failure"}

LEMMA StageParts ==
  ASSUME NEW m \in Message \cup Call, m.kind \in ItemKinds
  PROVE  /\ m.b \in 1..MaxEvents /\ m.i \in Items /\ m.i \in Nat /\ m.i >= 1
         /\ Stage(m) \in 0..3
         /\ m \in Message => Stage(m) = (IF m.kind = "item" THEN 1 ELSE 3)
         /\ m \in Call => Stage(m) = (IF m.kind = "callQueue" THEN 0 ELSE 2)
<1>1. m.b \in 1..MaxEvents /\ m.i \in Items
  BY MessageParts, CallParts DEF ItemKinds, Operation
<1>2. m.i \in Nat /\ m.i >= 1
  BY <1>1, BoundsAssumption DEF Items
<1>3. m \in Message => Stage(m) = (IF m.kind = "item" THEN 1 ELSE 3)
  BY MessageParts DEF ItemKinds, Operation, Stage
<1>4. m \in Call => Stage(m) = (IF m.kind = "callQueue" THEN 0 ELSE 2)
  BY CallParts DEF ItemKinds, Operation, Stage
<1> QED
  BY <1>1, <1>2, <1>3, <1>4

(* A sequence of messages or of calls, and one that waits on the other side.  *)
Sides(S, T) == (S = Message /\ T = Call) \/ (S = Call /\ T = Message)

LEMMA CarrierParts ==
  ASSUME NEW S, NEW T, Sides(S, T), NEW s \in Seq(S), NEW p \in DOMAIN s, NEW b, Carries(s[p], b)
  PROVE  s[p].i \in Nat /\ s[p].i >= 1 /\ Stage(s[p]) \in 0..3 /\ p \in Nat
<1>1. s[p] \in S /\ p \in Nat
  BY ElementTyped
<1> QED
  BY <1>1, StageParts DEF Sides, Carries

(* Messages and calls are never in the same stage.                            *)
LEMMA OtherStages ==
  ASSUME NEW S, NEW T, Sides(S, T), NEW s \in Seq(S), NEW t \in Seq(T), NEW b,
         NEW p \in DOMAIN s, NEW q \in DOMAIN t, Carries(s[p], b), Carries(t[q], b)
  PROVE  Stage(s[p]) # Stage(t[q])
<1>1. s[p] \in S /\ t[q] \in T
  BY ElementTyped
<1>2. ASSUME NEW x \in Message, NEW y \in Call, x.kind \in ItemKinds, y.kind \in ItemKinds
      PROVE  Stage(x) # Stage(y)
  BY <1>2, StageParts
<1> QED
  BY <1>1, <1>2 DEF Sides, Carries

----------------------------------------------------------------------------
(* What is not a command's changes nothing of it: the sequence s2 has its      *)
(* items where s has them, d places further on.                                *)
Shifted(s2, s, d, b) ==
  /\ \A p \in DOMAIN s2 : Carries(s2[p], b) \/ Commands(s2[p], b) => p + d \in DOMAIN s /\ s2[p] = s[p + d]
  /\ \A p \in DOMAIN s : Carries(s[p], b) \/ Commands(s[p], b) => p - d \in DOMAIN s2 /\ s2[p - d] = s[p]

LEMMA ShiftedSame ==
  ASSUME NEW S, NEW s \in Seq(S), NEW b
  PROVE  Shifted(s, s, 0, b)
<1>1. \A p \in DOMAIN s : p + 0 = p /\ p - 0 = p
  OBVIOUS
<1> QED
  BY <1>1 DEF Shifted

LEMMA ShiftedTail ==
  ASSUME NEW S, NEW s \in Seq(S), s # <<>>, NEW b, ~Carries(Head(s), b), ~Commands(Head(s), b)
  PROVE  Shifted(Tail(s), s, 1, b)
<1>1. ASSUME NEW p \in DOMAIN Tail(s)
      PROVE  p + 1 \in DOMAIN s /\ Tail(s)[p] = s[p + 1]
  BY TailElements
<1>2. ASSUME NEW p \in DOMAIN s, Carries(s[p], b) \/ Commands(s[p], b)
      PROVE  p - 1 \in DOMAIN Tail(s) /\ Tail(s)[p - 1] = s[p]
  BY <1>2, TailElements
<1> QED
  BY <1>1, <1>2 DEF Shifted

LEMMA ShiftedConcat ==
  ASSUME NEW S, NEW s \in Seq(S), NEW t \in Seq(S), NEW b,
         \A p \in DOMAIN t : ~Carries(t[p], b) /\ ~Commands(t[p], b)
  PROVE  Shifted(s \o t, s, 0, b)
<1>1. ASSUME NEW p \in DOMAIN (s \o t), Carries((s \o t)[p], b) \/ Commands((s \o t)[p], b)
      PROVE  p + 0 \in DOMAIN s /\ (s \o t)[p] = s[p + 0]
  <2>1. p \in DOMAIN s /\ (s \o t)[p] = s[p]
    BY <1>1, ConcatCases
  <2>2. p + 0 = p
    BY <2>1, ElementTyped
  <2> QED
    BY <2>1, <2>2
<1>2. ASSUME NEW p \in DOMAIN s
      PROVE  p - 0 \in DOMAIN (s \o t) /\ (s \o t)[p - 0] = s[p]
  <2>1. p \in DOMAIN (s \o t) /\ (s \o t)[p] = s[p] /\ p \in Nat
    BY ConcatElements
  <2>2. p - 0 = p
    BY <2>1
  <2> QED
    BY <2>1, <2>2
<1> QED
  BY <1>1, <1>2 DEF Shifted

LEMMA ShiftedAppend ==
  ASSUME NEW S, NEW s \in Seq(S), NEW m \in S, NEW b, ~Carries(m, b), ~Commands(m, b)
  PROVE  Shifted(Append(s, m), s, 0, b)
<1> DEFINE t == <<m>>
<1>1. t \in Seq(S) /\ \A p \in DOMAIN t : t[p] = m
  OBVIOUS
<1>2. Append(s, m) = s \o t
  BY ConcatOne
<1> HIDE DEF t
<1> QED
  BY <1>1, <1>2, ShiftedConcat

(* What the shifted sequence has.                                             *)
LEMMA ShiftedHas ==
  ASSUME NEW s2, NEW s, NEW d, NEW b, Shifted(s2, s, d, b)
  PROVE  /\ Given(s2, b) <=> Given(s, b)
         /\ Idle(s2, b) <=> Idle(s, b)
         /\ \A i : On(s2, b, i) <=> On(s, b, i)
         /\ \A i, last : Before(s2, b, i, last) <=> Before(s, b, i, last)
<1>1. \A p \in DOMAIN s2 : Carries(s2[p], b) \/ Commands(s2[p], b) => p + d \in DOMAIN s /\ s2[p] = s[p + d]
  BY DEF Shifted
<1>2. \A p \in DOMAIN s : Carries(s[p], b) \/ Commands(s[p], b) => p - d \in DOMAIN s2 /\ s2[p - d] = s[p]
  BY DEF Shifted
<1>3. Given(s2, b) <=> Given(s, b)
  BY <1>1, <1>2 DEF Given
<1>4. Idle(s2, b) <=> Idle(s, b)
  BY <1>1, <1>2 DEF Idle
<1>5. ASSUME NEW i
      PROVE  On(s2, b, i) <=> On(s, b, i)
  BY <1>1, <1>2 DEF On
<1>6. ASSUME NEW i, NEW last
      PROVE  Before(s2, b, i, last) <=> Before(s, b, i, last)
  BY <1>1, <1>2 DEF Before
<1> QED
  BY <1>3, <1>4, <1>5, <1>6

LEMMA ShiftedOrders ==
  ASSUME NEW S, NEW s2 \in Seq(S), NEW s \in Seq(S), NEW d \in Nat, NEW b, Shifted(s2, s, d, b),
         InLine(s, b)
  PROVE  InLine(s2, b)
<1>1. ASSUME NEW p \in DOMAIN s2, NEW q \in DOMAIN s2, Carries(s2[p], b), Carries(s2[q], b)
      PROVE  /\ Behind(s2[p], s2[q])
             /\ Stage(s2[p]) = Stage(s2[q]) /\ p < q => s2[p].i < s2[q].i
  <2>1. p + d \in DOMAIN s /\ s2[p] = s[p + d] /\ q + d \in DOMAIN s /\ s2[q] = s[q + d]
    BY <1>1 DEF Shifted
  <2>2. p < q => p + d < q + d
    OBVIOUS
  <2> QED
    BY <1>1, <2>1, <2>2 DEF InLine
<1> QED
  BY <1>1 DEF InLine

LEMMA FollowedShifted ==
  ASSUME NEW x, NEW q \in Seq(Message), NEW q2 \in Seq(Message), NEW c \in Seq(Call), NEW c2 \in Seq(Call),
         NEW b, NEW d \in Nat, NEW e \in Nat, Shifted(q2, q, d, b), Shifted(c2, c, e, b), Followed(x, q, c, b)
  PROVE  Followed(x, q2, c2, b)
<1>1. InLine(q2, b) /\ InLine(c2, b)
  BY ShiftedOrders DEF Followed, Alone, Ordered
<1>2. ASSUME NEW p \in DOMAIN q2, NEW r \in DOMAIN c2, Carries(q2[p], b), Carries(c2[r], b)
      PROVE  Behind(q2[p], c2[r]) /\ Behind(c2[r], q2[p])
  <2>1. p + d \in DOMAIN q /\ q2[p] = q[p + d] /\ r + e \in DOMAIN c /\ c2[r] = c[r + e]
    BY <1>2 DEF Shifted
  <2> QED
    BY <1>2, <2>1 DEF Followed, Alone, Ordered, Across
<1>3. Ordered(q2, c2, b)
  BY <1>1, <1>2 DEF Ordered, Across
<1>4. ASSUME NEW p \in DOMAIN q2, NEW r \in DOMAIN q2, Commands(q2[p], b), Commands(q2[r], b)
      PROVE  p = r
  <2>1. p + d \in DOMAIN q /\ q2[p] = q[p + d] /\ r + d \in DOMAIN q /\ q2[r] = q[r + d]
    BY <1>4 DEF Shifted
  <2>2. p + d = r + d
    BY <1>4, <2>1 DEF Followed, Alone
  <2> QED
    BY <2>2
<1>5. Alone(q2, c2, b)
  BY <1>3, <1>4, ShiftedHas DEF Followed, Alone
<1>6. Owes(x, Given(q2, b), q2, c2, b)
  <2>1. /\ Given(q2, b) <=> Given(q, b)
        /\ \A i : On(q2, b, i) <=> On(q, b, i)
        /\ \A i, last : Before(q2, b, i, last) <=> Before(q, b, i, last)
    BY ShiftedHas
  <2>2. /\ \A i : On(c2, b, i) <=> On(c, b, i)
        /\ \A i, last : Before(c2, b, i, last) <=> Before(c, b, i, last)
    BY ShiftedHas
  <2> QED
    BY <2>1, <2>2 DEF Followed, Owes
<1> QED
  BY <1>5, <1>6 DEF Followed

----------------------------------------------------------------------------
(* An item goes on: from the head of s to the end of t, one stage further.    *)
GoesOn(s, t, m, b) ==
  /\ s # <<>> /\ Carries(Head(s), b) /\ Carries(m, b)
  /\ m.i = Head(s).i /\ Stage(m) = Stage(Head(s)) + 1

LEMMA OrderedTail ==
  ASSUME NEW S, NEW s \in Seq(S), NEW t, NEW b, s # <<>>, Ordered(s, t, b)
  PROVE  Ordered(Tail(s), t, b)
<1>1. \A p \in DOMAIN Tail(s) : p \in Nat /\ p + 1 \in DOMAIN s /\ Tail(s)[p] = s[p + 1]
  BY TailElements
<1>2. ASSUME NEW p \in DOMAIN Tail(s), NEW q \in DOMAIN Tail(s), Carries(Tail(s)[p], b), Carries(Tail(s)[q], b)
      PROVE  /\ Behind(Tail(s)[p], Tail(s)[q])
             /\ Stage(Tail(s)[p]) = Stage(Tail(s)[q]) /\ p < q => Tail(s)[p].i < Tail(s)[q].i
  <2>1. p + 1 \in DOMAIN s /\ q + 1 \in DOMAIN s /\ Tail(s)[p] = s[p + 1] /\ Tail(s)[q] = s[q + 1]
        /\ (p < q => p + 1 < q + 1)
    BY <1>1
  <2> QED
    BY <1>2, <2>1 DEF Ordered, InLine
<1>3. InLine(Tail(s), b)
  BY <1>2 DEF InLine
<1>4. Across(Tail(s), t, b)
  BY <1>1 DEF Ordered, Across
<1> QED
  BY <1>3, <1>4 DEF Ordered

LEMMA OrderedSwap ==
  ASSUME NEW s, NEW t, NEW b, Ordered(s, t, b)
  PROVE  Ordered(t, s, b)
  BY DEF Ordered, Across

(* The item at the head is ahead of all that are no further than it.          *)
LEMMA HeadIsAhead ==
  ASSUME NEW S, NEW T, Sides(S, T), NEW s \in Seq(S), NEW t \in Seq(T), NEW b,
         s # <<>>, Carries(Head(s), b), Ordered(s, t, b)
  PROVE  /\ \A p \in DOMAIN Tail(s) : Carries(Tail(s)[p], b) =>
              /\ Stage(Tail(s)[p]) <= Stage(Head(s)) => Head(s).i < Tail(s)[p].i
              /\ Stage(Tail(s)[p]) > Stage(Head(s)) => Tail(s)[p].i < Head(s).i
         /\ \A q \in DOMAIN t : Carries(t[q], b) =>
              /\ Stage(t[q]) # Stage(Head(s))
              /\ Stage(t[q]) < Stage(Head(s)) => Head(s).i < t[q].i
              /\ Stage(t[q]) > Stage(Head(s)) => t[q].i < Head(s).i
<1>1. /\ 1 \in DOMAIN s /\ Head(s) = s[1] /\ s[1] \in S
      /\ \A p \in DOMAIN Tail(s) : p \in Nat /\ p > 0 /\ p + 1 \in DOMAIN s /\ Tail(s)[p] = s[p + 1]
  BY TailElements
<1>2. ASSUME NEW p \in DOMAIN Tail(s), Carries(Tail(s)[p], b)
      PROVE  /\ Stage(Tail(s)[p]) <= Stage(Head(s)) => Head(s).i < Tail(s)[p].i
             /\ Stage(Tail(s)[p]) > Stage(Head(s)) => Tail(s)[p].i < Head(s).i
  <2>1. p \in Nat /\ p > 0 /\ p + 1 \in DOMAIN s /\ Tail(s)[p] = s[p + 1] /\ 1 < p + 1
    BY <1>1
  <2>2. Stage(Head(s)) \in 0..3 /\ Stage(s[p + 1]) \in 0..3
    BY <1>1, <1>2, <2>1, CarrierParts
  <2>3. /\ Behind(s[p + 1], Head(s)) /\ Behind(Head(s), s[p + 1])
        /\ Stage(Head(s)) = Stage(s[p + 1]) => Head(s).i < s[p + 1].i
    BY <1>1, <1>2, <2>1 DEF Ordered, InLine
  <2> QED
    BY <2>1, <2>2, <2>3 DEF Behind
<1>3. ASSUME NEW q \in DOMAIN t, Carries(t[q], b)
      PROVE  /\ Stage(t[q]) # Stage(Head(s))
             /\ Stage(t[q]) < Stage(Head(s)) => Head(s).i < t[q].i
             /\ Stage(t[q]) > Stage(Head(s)) => t[q].i < Head(s).i
  <2>1. Stage(t[q]) # Stage(Head(s))
    BY <1>1, <1>3, OtherStages
  <2>2. Behind(s[1], t[q]) /\ Behind(t[q], s[1])
    BY <1>1, <1>3 DEF Ordered, Across
  <2> QED
    BY <1>1, <2>1, <2>2 DEF Behind
<1> QED
  BY <1>2, <1>3

LEMMA OrderedGoesOn ==
  ASSUME NEW S, NEW T, Sides(S, T), NEW s \in Seq(S), NEW t \in Seq(T), NEW m \in T, NEW b,
         GoesOn(s, t, m, b), Ordered(s, t, b)
  PROVE  Ordered(Tail(s), Append(t, m), b)
<1> DEFINE h == Head(s)
           u == Tail(s)
           v == Append(t, m)
<1>1. /\ s # <<>> /\ Carries(h, b) /\ Carries(m, b) /\ m.i = h.i /\ Stage(m) = Stage(h) + 1
  BY DEF GoesOn
<1>2. /\ DOMAIN v = DOMAIN t \cup {Len(t) + 1} /\ v[Len(t) + 1] = m
      /\ \A q \in DOMAIN t : v[q] = t[q] /\ q \in Nat /\ q < Len(t) + 1
      /\ Len(t) \in Nat /\ u \in Seq(S) /\ v \in Seq(T)
  BY <1>1, AppendElements, TailElements
<1>3. h.i \in Nat /\ Stage(h) \in 0..3
  BY <1>1, TailElements, CarrierParts
<1>4. /\ \A p \in DOMAIN u : Carries(u[p], b) =>
              /\ Stage(u[p]) <= Stage(h) => h.i < u[p].i
              /\ Stage(u[p]) > Stage(h) => u[p].i < h.i
      /\ \A q \in DOMAIN t : Carries(t[q], b) =>
              /\ Stage(t[q]) # Stage(h)
              /\ Stage(t[q]) < Stage(h) => h.i < t[q].i
              /\ Stage(t[q]) > Stage(h) => t[q].i < h.i
  BY <1>1, HeadIsAhead
<1>5. InLine(u, b) /\ Across(u, t, b) /\ InLine(t, b)
  BY <1>1, OrderedTail DEF Ordered
<1>6. ASSUME NEW q \in DOMAIN t, Carries(t[q], b)
      PROVE  /\ Behind(t[q], m) /\ Behind(m, t[q])
             /\ Stage(t[q]) = Stage(m) => t[q].i < m.i
  <2>1. Stage(t[q]) \in 0..3
    BY <1>6, CarrierParts DEF Sides
  <2> QED
    BY <1>1, <1>3, <1>4, <1>6, <2>1 DEF Behind
<1>7. ASSUME NEW p \in DOMAIN u, Carries(u[p], b)
      PROVE  Behind(u[p], m) /\ Behind(m, u[p])
  <2>1. Stage(u[p]) \in 0..3
    BY <1>2, <1>7, CarrierParts
  <2> QED
    BY <1>1, <1>3, <1>4, <1>7, <2>1 DEF Behind
<1>8. Behind(m, m)
  BY <1>1, <1>3 DEF Behind
<1> HIDE DEF h, u, v
<1>9. InLine(v, b)
  BY <1>2, <1>5, <1>6, <1>8 DEF InLine
<1>10. Across(u, v, b)
  BY <1>2, <1>5, <1>7 DEF Across
<1>11. Ordered(u, v, b)
  BY <1>5, <1>9, <1>10 DEF Ordered
<1> QED
  BY <1>11 DEF u, v

LEMMA OnTail ==
  ASSUME NEW S, NEW s \in Seq(S), NEW b, NEW i, s # <<>>, Carries(Head(s), b)
  PROVE  On(s, b, i) <=> On(Tail(s), b, i) \/ i = Head(s).i
<1>1. /\ 1 \in DOMAIN s /\ Head(s) = s[1]
      /\ \A p \in DOMAIN Tail(s) : p + 1 \in DOMAIN s /\ Tail(s)[p] = s[p + 1]
      /\ \A p \in DOMAIN s : p # 1 => p - 1 \in DOMAIN Tail(s) /\ Tail(s)[p - 1] = s[p]
  BY TailElements
<1>2. ASSUME On(Tail(s), b, i)
      PROVE  On(s, b, i)
  <2>1. PICK p \in DOMAIN Tail(s) : Carries(Tail(s)[p], b) /\ Tail(s)[p].i = i
    BY <1>2 DEF On
  <2>2. p + 1 \in DOMAIN s /\ Carries(s[p + 1], b) /\ s[p + 1].i = i
    BY <1>1, <2>1
  <2> QED
    BY <2>2 DEF On
<1>3. ASSUME On(s, b, i), i # Head(s).i
      PROVE  On(Tail(s), b, i)
  <2>1. PICK p \in DOMAIN s : Carries(s[p], b) /\ s[p].i = i
    BY <1>3 DEF On
  <2>2. p # 1
    BY <1>1, <1>3, <2>1
  <2>3. p - 1 \in DOMAIN Tail(s) /\ Carries(Tail(s)[p - 1], b) /\ Tail(s)[p - 1].i = i
    BY <1>1, <2>1, <2>2
  <2> QED
    BY <2>3 DEF On
<1>4. i = Head(s).i => On(s, b, i)
  BY <1>1 DEF On
<1> QED
  BY <1>2, <1>3, <1>4

LEMMA BeforeTail ==
  ASSUME NEW S, NEW s \in Seq(S), NEW b, NEW i, NEW last, s # <<>>, Before(s, b, i, last)
  PROVE  Before(Tail(s), b, i, last) \/ (Head(s).i = i /\ Stage(Head(s)) <= last)
<1>1. /\ Head(s) = s[1]
      /\ \A p \in DOMAIN s : p # 1 => p - 1 \in DOMAIN Tail(s) /\ Tail(s)[p - 1] = s[p]
  BY TailElements
<1>2. PICK p \in DOMAIN s : Carries(s[p], b) /\ s[p].i = i /\ Stage(s[p]) <= last
  BY DEF Before
<1>3. CASE p = 1
  BY <1>1, <1>2, <1>3
<1>4. CASE p # 1
  <2>1. /\ p - 1 \in DOMAIN Tail(s) /\ Carries(Tail(s)[p - 1], b)
        /\ Tail(s)[p - 1].i = i /\ Stage(Tail(s)[p - 1]) <= last
    BY <1>1, <1>2, <1>4
  <2> QED
    BY <2>1 DEF Before
<1> QED
  BY <1>3, <1>4

LEMMA OnGoesOn ==
  ASSUME NEW S, NEW T, NEW s \in Seq(S), NEW t \in Seq(T), NEW m \in T, NEW b, GoesOn(s, t, m, b), NEW i
  PROVE  On(Tail(s), b, i) \/ On(Append(t, m), b, i) <=> On(s, b, i) \/ On(t, b, i)
<1> DEFINE v == Append(t, m)
<1>1. /\ s # <<>> /\ Carries(Head(s), b) /\ Carries(m, b) /\ m.i = Head(s).i
  BY DEF GoesOn
<1>2. /\ DOMAIN v = DOMAIN t \cup {Len(t) + 1} /\ v[Len(t) + 1] = m
      /\ \A q \in DOMAIN t : v[q] = t[q]
  BY AppendElements
<1> HIDE DEF v
<1>3. On(s, b, i) <=> On(Tail(s), b, i) \/ i = Head(s).i
  BY <1>1, OnTail
<1>4. On(t, b, i) => On(v, b, i)
  BY <1>2 DEF On
<1>5. i = Head(s).i => On(v, b, i)
  BY <1>1, <1>2 DEF On
<1>6. ASSUME On(v, b, i), i # Head(s).i
      PROVE  On(t, b, i)
  <2>1. PICK p \in DOMAIN v : Carries(v[p], b) /\ v[p].i = i
    BY <1>6 DEF On
  <2>2. p \in DOMAIN t /\ v[p] = t[p]
    BY <1>1, <1>2, <1>6, <2>1
  <2> QED
    BY <2>1, <2>2 DEF On
<1> QED
  BY <1>3, <1>4, <1>5, <1>6 DEF v

LEMMA BeforeGoesOn ==
  ASSUME NEW S, NEW T, NEW s \in Seq(S), NEW t \in Seq(T), NEW m \in T, NEW b, GoesOn(s, t, m, b),
         NEW i, NEW last, Before(s, b, i, last) \/ Before(t, b, i, last)
  PROVE  \/ Before(Tail(s), b, i, last) \/ Before(Append(t, m), b, i, last)
         \/ Head(s).i = i /\ Stage(Head(s)) <= last /\ ~(Stage(m) <= last)
<1> DEFINE v == Append(t, m)
<1>1. /\ s # <<>> /\ Carries(m, b) /\ m.i = Head(s).i
  BY DEF GoesOn
<1>2. /\ DOMAIN v = DOMAIN t \cup {Len(t) + 1} /\ v[Len(t) + 1] = m
      /\ \A q \in DOMAIN t : v[q] = t[q]
  BY AppendElements
<1> HIDE DEF v
<1>3. Before(t, b, i, last) => Before(v, b, i, last)
  BY <1>2 DEF Before
<1>4. Before(s, b, i, last) => Before(Tail(s), b, i, last) \/ (Head(s).i = i /\ Stage(Head(s)) <= last)
  BY <1>1, BeforeTail
<1>5. Head(s).i = i /\ Stage(m) <= last => Before(v, b, i, last)
  BY <1>1, <1>2 DEF Before
<1> QED
  BY <1>3, <1>4, <1>5 DEF v

(* The command x becomes x2, whose item's error may now be written.           *)
LEMMA OwesGoesOn ==
  ASSUME NEW S, NEW T, Sides(S, T), NEW s \in Seq(S), NEW t \in Seq(T), NEW m \in T, NEW b, NEW x, NEW x2,
         GoesOn(s, t, m, b), Ordered(s, t, b), Owes(x, FALSE, s, t, b), Writes(x) \in Nat,
         x2.op = x.op, x2.ids = x.ids, x2.reports = x.reports, x2.truth = x.truth,
         \A j \in 1..Len(x.ids) : x2.errs[j] = "uninitialised" =>
           /\ x.errs[j] = "uninitialised"
           /\ j = Head(s).i => Stage(m) <= Writes(x) \/ Stage(Head(s)) > Writes(x)
  PROVE  Owes(x2, FALSE, Tail(s), Append(t, m), b)
<1> DEFINE n == Len(x.ids)
           u == Tail(s)
           v == Append(t, m)
<1>1. On(u, b, n) \/ On(v, b, n) <=> On(s, b, n) \/ On(t, b, n)
  BY OnGoesOn
<1>2. ASSUME NEW i \in 1..n, x2.errs[i] = "uninitialised", Before(s, b, i, Writes(x)) \/ Before(t, b, i, Writes(x))
      PROVE  Before(u, b, i, Writes(x)) \/ Before(v, b, i, Writes(x))
  <2>1. \/ Before(u, b, i, Writes(x)) \/ Before(v, b, i, Writes(x))
        \/ Head(s).i = i /\ Stage(Head(s)) <= Writes(x) /\ ~(Stage(m) <= Writes(x))
    BY <1>2, BeforeGoesOn
  <2>2. Stage(Head(s)) \in 0..3
    BY TailElements, CarrierParts DEF GoesOn
  <2> QED
    BY <1>2, <2>1, <2>2
<1>3. n >= 1 /\ Writes(x2) = Writes(x) /\ Len(x2.ids) = n
  BY DEF Owes, Writes
<1> HIDE DEF u, v
<1>4. x.reports = 0 =>
          /\ On(u, b, n) \/ On(v, b, n) \/ (x.op = "resume" /\ x.truth[n] = "failure")
          /\ \A i \in 1..n : x2.errs[i] = "uninitialised" => Before(u, b, i, Writes(x)) \/ Before(v, b, i, Writes(x))
  BY <1>1, <1>2 DEF Owes
<1>5. x.reports # 0 => /\ x.reports = 1 /\ ~(On(u, b, n) \/ On(v, b, n))
                       /\ \A i \in 1..n : x2.errs[i] # "uninitialised"
  BY <1>1 DEF Owes
<1> HIDE DEF n
<1>6. Owes(x2, FALSE, u, v, b)
  BY <1>3, <1>4, <1>5 DEF Owes
<1> QED
  BY <1>6 DEF u, v

(* Of its own items the head is ahead of all that may write an error yet.      *)
LEMMA BeforeLeaves ==
  ASSUME NEW S, NEW T, Sides(S, T), NEW s \in Seq(S), NEW t \in Seq(T), NEW b, s # <<>>,
         Carries(Head(s), b), Ordered(s, t, b), NEW i, NEW last \in Nat, Stage(Head(s)) >= last,
         Before(s, b, i, last) \/ Before(t, b, i, last)
  PROVE  \/ Before(Tail(s), b, i, last) \/ Before(t, b, i, last)
         \/ i = Head(s).i /\ Stage(Head(s)) = last
<1>1. 1 \in DOMAIN s /\ Head(s) = s[1]
  BY TailElements
<1>2. Stage(Head(s)) \in 0..3
  BY <1>1, CarrierParts
<1>3. Before(s, b, i, last) => Before(Tail(s), b, i, last) \/ (Head(s).i = i /\ Stage(Head(s)) <= last)
  BY BeforeTail
<1> QED
  BY <1>2, <1>3

LEMMA BeforeIsBehind ==
  ASSUME NEW S, NEW T, Sides(S, T), NEW s \in Seq(S), NEW t \in Seq(T), NEW b, s # <<>>,
         Carries(Head(s), b), Ordered(s, t, b), NEW i, NEW last \in Nat, Stage(Head(s)) >= last,
         Before(Tail(s), b, i, last) \/ Before(t, b, i, last)
  PROVE  Head(s).i < i
<1>1. /\ \A p \in DOMAIN Tail(s) : Carries(Tail(s)[p], b) =>
              (Stage(Tail(s)[p]) <= Stage(Head(s)) => Head(s).i < Tail(s)[p].i)
      /\ \A q \in DOMAIN t : Carries(t[q], b) =>
              /\ Stage(t[q]) # Stage(Head(s))
              /\ Stage(t[q]) < Stage(Head(s)) => Head(s).i < t[q].i
  BY HeadIsAhead
<1>2. Stage(Head(s)) \in 0..3
  BY TailElements, CarrierParts
<1>3. CASE Before(Tail(s), b, i, last)
  <2>1. PICK p \in DOMAIN Tail(s) : Carries(Tail(s)[p], b) /\ Tail(s)[p].i = i /\ Stage(Tail(s)[p]) <= last
    BY <1>3 DEF Before
  <2>2. Stage(Tail(s)[p]) \in 0..3
    BY <2>1, TailElements, CarrierParts
  <2> QED
    BY <1>1, <1>2, <2>1, <2>2
<1>4. CASE Before(t, b, i, last)
  <2>1. PICK q \in DOMAIN t : Carries(t[q], b) /\ t[q].i = i /\ Stage(t[q]) <= last
    BY <1>4 DEF Before
  <2>2. Stage(t[q]) \in 0..3
    BY <2>1, CarrierParts DEF Sides
  <2> QED
    BY <1>1, <1>2, <2>1, <2>2
<1> QED
  BY <1>3, <1>4

LEMMA OnLeaves ==
  ASSUME NEW S, NEW T, Sides(S, T), NEW s \in Seq(S), NEW t \in Seq(T), NEW b, s # <<>>,
         Carries(Head(s), b), Ordered(s, t, b), NEW i
  PROVE  On(Tail(s), b, i) \/ On(t, b, i) <=> (On(s, b, i) \/ On(t, b, i)) /\ i # Head(s).i
<1>1. /\ 1 \in DOMAIN s /\ Head(s) = s[1] /\ Tail(s) \in Seq(S)
      /\ \A p \in DOMAIN Tail(s) : p + 1 \in DOMAIN s /\ Tail(s)[p] = s[p + 1]
      /\ \A p \in DOMAIN s : p # 1 => p - 1 \in DOMAIN Tail(s) /\ Tail(s)[p - 1] = s[p]
  BY TailElements
<1>2. /\ \A p \in DOMAIN Tail(s) : Carries(Tail(s)[p], b) =>
              /\ Stage(Tail(s)[p]) <= Stage(Head(s)) => Head(s).i < Tail(s)[p].i
              /\ Stage(Tail(s)[p]) > Stage(Head(s)) => Tail(s)[p].i < Head(s).i
      /\ \A q \in DOMAIN t : Carries(t[q], b) =>
              /\ Stage(t[q]) # Stage(Head(s))
              /\ Stage(t[q]) < Stage(Head(s)) => Head(s).i < t[q].i
              /\ Stage(t[q]) > Stage(Head(s)) => t[q].i < Head(s).i
  BY HeadIsAhead
<1>3. Stage(Head(s)) \in 0..3 /\ Head(s).i \in Nat
  BY <1>1, CarrierParts
<1>4. ASSUME NEW p \in DOMAIN Tail(s), Carries(Tail(s)[p], b)
      PROVE  Tail(s)[p].i # Head(s).i
  <2>1. Stage(Tail(s)[p]) \in 0..3 /\ Tail(s)[p].i \in Nat
    BY <1>1, <1>4, CarrierParts
  <2> QED
    BY <1>2, <1>3, <1>4, <2>1
<1>5. ASSUME NEW q \in DOMAIN t, Carries(t[q], b)
      PROVE  t[q].i # Head(s).i
  <2>1. Stage(t[q]) \in 0..3 /\ t[q].i \in Nat
    BY <1>5, CarrierParts DEF Sides
  <2> QED
    BY <1>2, <1>3, <1>5, <2>1
<1>6. On(s, b, i) <=> On(Tail(s), b, i) \/ i = Head(s).i
  BY OnTail
<1>7. On(Tail(s), b, i) \/ On(t, b, i) => i # Head(s).i
  BY <1>4, <1>5 DEF On
<1> QED
  BY <1>6, <1>7

(* The item at the head is answered: x becomes x2, with one report more if it  *)
(* was the last, but for a resumption that failed.                            *)
Answered(x, x2, i, last) ==
  /\ x2.op = x.op /\ x2.ids = x.ids
  /\ \/ x2.reports = x.reports + 1 /\ i = Len(x.ids)
     \/ /\ x2.reports = x.reports
        /\ i = Len(x.ids) => x.op = "resume" /\ x2.truth[i] = "failure"
  /\ \A j \in Items : j # i => x2.truth[j] = x.truth[j] /\ x2.errs[j] = x.errs[j]
  /\ x2.errs[i] = "uninitialised" => x.errs[i] = "uninitialised"
  /\ x.reports = 0 /\ x2.errs[i] = "uninitialised" => ~last

LEMMA OwesAnswered ==
  ASSUME NEW S, NEW T, Sides(S, T), NEW s \in Seq(S), NEW t \in Seq(T), NEW b, NEW x, NEW x2, s # <<>>,
         Carries(Head(s), b), Ordered(s, t, b), Owes(x, FALSE, s, t, b), Writes(x) \in Nat, x.reports \in Nat,
         Len(x.ids) \in Nat, 1..Len(x.ids) \subseteq Items,
         Stage(Head(s)) >= Writes(x), Answered(x, x2, Head(s).i, Stage(Head(s)) = Writes(x))
  PROVE  Owes(x2, FALSE, Tail(s), t, b)
<1> DEFINE n == Len(x.ids)
           u == Tail(s)
           i == Head(s).i
           comes == On(s, b, n) \/ On(t, b, n)
           left == On(u, b, n) \/ On(t, b, n)
           last == Stage(Head(s)) = Writes(x)
<1>1. left <=> comes /\ n # i
  BY OnLeaves
<1>2. On(s, b, i)
  BY TailElements DEF On
<1>3. i \in Nat /\ i >= 1
  BY TailElements, CarrierParts
<1>4. n >= 1 /\ Writes(x2) = Writes(x) /\ Len(x2.ids) = n
  BY DEF Owes, Writes, Answered
<1>5. ASSUME x.reports = 0, NEW j \in 1..n, x2.errs[j] = "uninitialised"
      PROVE  Before(u, b, j, Writes(x)) \/ Before(t, b, j, Writes(x))
  <2>1. x.errs[j] = "uninitialised" /\ (j = i => ~last)
    BY <1>5 DEF Answered
  <2>2. Before(s, b, j, Writes(x)) \/ Before(t, b, j, Writes(x))
    BY <1>5, <2>1 DEF Owes
  <2> QED
    BY <2>1, <2>2, BeforeLeaves
<1>6. ASSUME x.reports = 0, NEW j \in 1..n, x2.errs[j] = "uninitialised"
      PROVE  i < j
  BY <1>5, <1>6, BeforeIsBehind
<1> SUFFICES Owes(x2, FALSE, u, t, b)
  OBVIOUS
<1>7. CASE x.reports = 0 /\ x2.reports = 0
  <2>1. left \/ (x.op = "resume" /\ x2.truth[n] = "failure")
    <3>1. CASE i = n
      BY <1>3, <1>7, <3>1 DEF Answered
    <3>2. CASE i # n
      <4>1. x2.truth[n] = x.truth[n]
        <5>1. n \in Items
          BY <1>4
        <5> QED
          BY <3>2, <5>1 DEF Answered
      <4>2. comes \/ (x.op = "resume" /\ x.truth[n] = "failure")
        BY <1>7 DEF Owes
      <4> QED
        BY <1>1, <3>2, <4>1, <4>2
    <3> QED
      BY <3>1, <3>2
  <2> HIDE DEF n, u
  <2> QED
    BY <1>4, <1>5, <1>7, <2>1 DEF Owes, Answered
<1>8. CASE x.reports = 0 /\ x2.reports # 0
  <2>1. x2.reports = 1 /\ i = n
    BY <1>8 DEF Answered
  <2>2. ASSUME NEW j \in 1..n, x2.errs[j] = "uninitialised"
        PROVE  FALSE
    <3>1. i < j
      BY <1>6, <1>8, <2>2
    <3> QED
      BY <1>3, <2>1, <3>1
  <2>3. ~left
    BY <1>1, <2>1
  <2> HIDE DEF n, u
  <2> QED
    BY <1>4, <2>1, <2>2, <2>3 DEF Owes
<1>9. CASE x.reports # 0
  <2>1. x.reports = 1 /\ ~comes /\ \A j \in 1..n : x.errs[j] # "uninitialised"
    BY <1>9 DEF Owes
  <2>2. i # n
    BY <1>2, <2>1
  <2>3. x2.reports = x.reports /\ \A j \in 1..n : x2.errs[j] # "uninitialised"
    BY <1>9, <2>1, <2>2 DEF Answered
  <2>4. ~left
    BY <1>1, <2>1
  <2> HIDE DEF n, u
  <2> QED
    BY <1>4, <2>1, <2>3, <2>4 DEF Owes
<1> QED
  BY <1>7, <1>8, <1>9

----------------------------------------------------------------------------
(* Each kind of step for one command, and for the others.                     *)

LEMMA NotAnothers ==
  ASSUME NEW m, NEW b, NEW c, c # b
  PROVE  /\ Carries(m, b) => ~Carries(m, c) /\ ~Commands(m, c) /\ ~Commands(m, b)
         /\ Commands(m, b) => ~Carries(m, c) /\ ~Commands(m, c) /\ ~Carries(m, b)
  BY DEF Carries, Commands, ItemKinds, Operation

LEMMA CarriesIsNoCommand ==
  ASSUME NEW m, NEW b, Carries(m, b)
  PROVE  ~Commands(m, b)
  BY DEF Carries, Commands, ItemKinds, Operation

LEMMA WritesTyped ==
  ASSUME NEW x
  PROVE  Writes(x) \in Nat /\ Writes(x) <= 3 /\ Writes(x) >= 1
         /\ (x.op = "add" => Writes(x) = 3) /\ (x.op # "add" => Writes(x) = 1)
  BY DEF Writes

(* What is known of a command in the list.                                    *)
LEMMA CommandParts ==
  ASSUME Typed, NEW b \in DOMAIN batch
  PROVE  /\ batch[b] \in Batch /\ batch[b].op \in Operation /\ batch[b].ids \in Seq(1..MaxId)
         /\ batch[b].errs \in [Items -> Error \cup {"uninitialised"}]
         /\ batch[b].truth \in [Items -> Error \cup {"pending"}]
         /\ batch[b].reports \in Nat
         /\ Len(batch[b].ids) \in Nat /\ 1..Len(batch[b].ids) = DOMAIN batch[b].ids
         /\ DOMAIN batch[b].ids \subseteq Items
<1>1. batch[b] \in Batch
  BY ElementTyped DEF Typed, TypeOK
<1>2. batch[b].ids \in Seq(1..MaxId)
  BY <1>1, BatchParts
<1>3. Len(batch[b].ids) \in Nat /\ 1..Len(batch[b].ids) = DOMAIN batch[b].ids
  BY <1>2
<1>4. DOMAIN batch[b].ids \subseteq Items
  BY DEF Typed, IdsGiven
<1> QED
  BY <1>1, <1>2, <1>3, <1>4, BatchParts

(* A command with items under way does not wait.                              *)
LEMMA NotGiven ==
  ASSUME NEW q, NEW c, NEW b, Alone(q, c, b),
         (\E p \in DOMAIN q : Carries(q[p], b)) \/ (\E p \in DOMAIN c : Carries(c[p], b))
  PROVE  ~Given(q, b)
  BY DEF Alone, Idle

LEMMA GivenTail ==
  ASSUME NEW q \in Seq(Message), NEW b, q # <<>>, ~Given(q, b)
  PROVE  ~Given(Tail(q), b)
<1>1. \A p \in DOMAIN Tail(q) : p + 1 \in DOMAIN q /\ Tail(q)[p] = q[p + 1]
  BY TailElements
<1> QED
  BY <1>1 DEF Given

LEMMA GivenAppend ==
  ASSUME NEW q \in Seq(Message), NEW m \in Message, NEW b, ~Given(q, b), ~Commands(m, b)
  PROVE  ~Given(Append(q, m), b)
<1> DEFINE v == Append(q, m)
<1>1. DOMAIN v = DOMAIN q \cup {Len(q) + 1} /\ v[Len(q) + 1] = m /\ \A p \in DOMAIN q : v[p] = q[p]
  BY AppendElements
<1> HIDE DEF v
<1>2. ~Given(v, b)
  BY <1>1 DEF Given
<1> QED
  BY <1>2 DEF v

LEMMA NotGivenIsAlone ==
  ASSUME NEW q, NEW c, NEW b, ~Given(q, b), Ordered(q, c, b)
  PROVE  Alone(q, c, b)
  BY DEF Alone, Given

LEMMA HandsOn ==
  ASSUME NEW q \in Seq(Message), NEW c \in Seq(Call), NEW m \in Call, NEW b, NEW x, NEW x2,
         Followed(x, q, c, b), GoesOn(q, c, m, b),
         x2.op = x.op, x2.ids = x.ids, x2.reports = x.reports, x2.truth = x.truth,
         \A j \in 1..Len(x.ids) : x2.errs[j] = "uninitialised" =>
           /\ x.errs[j] = "uninitialised"
           /\ j = Head(q).i => Stage(m) <= Writes(x) \/ Stage(Head(q)) > Writes(x)
  PROVE  Followed(x2, Tail(q), Append(c, m), b)
<1>1. Alone(q, c, b) /\ Ordered(q, c, b) /\ Owes(x, Given(q, b), q, c, b)
  BY DEF Followed, Alone
<1>2. q # <<>> /\ Carries(Head(q), b) /\ 1 \in DOMAIN q /\ Head(q) = q[1]
  BY TailElements DEF GoesOn
<1>3. Given(q, b) = FALSE
  BY <1>1, <1>2, NotGiven DEF Given
<1>4. Given(Tail(q), b) = FALSE
  BY <1>2, <1>3, GivenTail DEF Given
<1>5. Sides(Message, Call) /\ Writes(x) \in Nat
  BY WritesTyped DEF Sides
<1>6. Ordered(Tail(q), Append(c, m), b)
  BY <1>1, <1>5, OrderedGoesOn
<1>7. Owes(x, FALSE, q, c, b)
  BY <1>1, <1>3
<1>8. Owes(x2, FALSE, Tail(q), Append(c, m), b)
  BY <1>1, <1>5, <1>7, OwesGoesOn
<1>9. Alone(Tail(q), Append(c, m), b)
  BY <1>4, <1>6, NotGivenIsAlone
<1> QED
  BY <1>4, <1>8, <1>9 DEF Followed

LEMMA OwesSwap ==
  ASSUME NEW x, NEW g, NEW s, NEW t, NEW b, Owes(x, g, s, t, b)
  PROVE  Owes(x, g, t, s, b)
  BY DEF Owes

LEMMA AnswersOn ==
  ASSUME NEW q \in Seq(Message), NEW c \in Seq(Call), NEW m \in Message, NEW b, NEW x,
         Followed(x, q, c, b), GoesOn(c, q, m, b),
         Stage(m) <= Writes(x) \/ Stage(Head(c)) > Writes(x)
  PROVE  Followed(x, Append(q, m), Tail(c), b)
<1>1. Alone(q, c, b) /\ Ordered(c, q, b) /\ Owes(x, Given(q, b), c, q, b)
  BY OrderedSwap, OwesSwap DEF Followed, Alone
<1>2. c # <<>> /\ Carries(Head(c), b) /\ 1 \in DOMAIN c /\ Head(c) = c[1] /\ Carries(m, b)
  BY TailElements DEF GoesOn
<1>3. Given(q, b) = FALSE
  BY <1>1, <1>2, NotGiven DEF Given
<1>4. Given(Append(q, m), b) = FALSE
  BY <1>2, <1>3, GivenAppend, CarriesIsNoCommand DEF Given
<1>5. Sides(Call, Message) /\ Writes(x) \in Nat
  BY WritesTyped DEF Sides
<1>6. Ordered(Append(q, m), Tail(c), b)
  BY <1>1, <1>5, OrderedGoesOn, OrderedSwap
<1>7. Owes(x, FALSE, c, q, b)
  BY <1>1, <1>3
<1>8. Owes(x, FALSE, Append(q, m), Tail(c), b)
  BY <1>1, <1>5, <1>7, OwesGoesOn, OwesSwap
<1>9. Alone(Append(q, m), Tail(c), b)
  BY <1>4, <1>6, NotGivenIsAlone
<1> QED
  BY <1>4, <1>8, <1>9 DEF Followed

LEMMA IsAnswered ==
  ASSUME NEW q \in Seq(Message), NEW c \in Seq(Call), NEW b, NEW x, NEW x2,
         Followed(x, q, c, b), q # <<>>, Carries(Head(q), b),
         x.reports \in Nat, Len(x.ids) \in Nat, 1..Len(x.ids) \subseteq Items,
         Stage(Head(q)) >= Writes(x), Answered(x, x2, Head(q).i, Stage(Head(q)) = Writes(x))
  PROVE  Followed(x2, Tail(q), c, b)
<1>1. Alone(q, c, b) /\ Ordered(q, c, b) /\ Owes(x, Given(q, b), q, c, b)
  BY DEF Followed, Alone
<1>2. 1 \in DOMAIN q /\ Head(q) = q[1]
  BY TailElements
<1>3. Given(q, b) = FALSE
  BY <1>1, <1>2, NotGiven DEF Given
<1>4. Given(Tail(q), b) = FALSE
  BY <1>3, GivenTail DEF Given
<1>5. Sides(Message, Call) /\ Writes(x) \in Nat
  BY WritesTyped DEF Sides
<1>6. Ordered(Tail(q), c, b)
  BY <1>1, OrderedTail
<1>7. Owes(x, FALSE, q, c, b)
  BY <1>1, <1>3
<1>8. Owes(x2, FALSE, Tail(q), c, b)
  BY <1>1, <1>5, <1>7, OwesAnswered
<1>9. Alone(Tail(q), c, b)
  BY <1>4, <1>6, NotGivenIsAlone
<1> QED
  BY <1>4, <1>8, <1>9 DEF Followed

(* The commands but b are as they were, their mail d and e places ahead.       *)
Rest(b, d, e) ==
  /\ DOMAIN batch' = DOMAIN batch
  /\ \A a \in DOMAIN batch : a # b => /\ batch'[a] = batch[a]
                                      /\ Shifted(queue', queue, d, a) /\ Shifted(calls', calls, e, a)

LEMMA OthersFollow ==
  ASSUME Typed, Typed', CommandsFollow, NEW b, NEW d \in {0, 1}, NEW e \in {0, 1}, Rest(b, d, e),
         b \in DOMAIN batch => Followed(batch'[b], queue', calls', b)
  PROVE  CommandsFollow'
<1>1. queue \in Seq(Message) /\ queue' \in Seq(Message) /\ calls \in Seq(Call) /\ calls' \in Seq(Call)
  BY DEF Typed, TypeOK
<1>2. ASSUME NEW a \in DOMAIN batch, a # b
      PROVE  Followed(batch'[a], queue', calls', a)
  <2>1. Followed(batch[a], queue, calls, a)
    BY DEF CommandsFollow
  <2>2. batch'[a] = batch[a] /\ Shifted(queue', queue, d, a) /\ Shifted(calls', calls, e, a)
    BY <1>2 DEF Rest
  <2>3. d \in Nat /\ e \in Nat
    OBVIOUS
  <2>4. Followed(batch[a], queue', calls', a)
    BY <1>1, <2>1, <2>2, <2>3, FollowedShifted
  <2> QED
    BY <2>2, <2>4
<1>3. DOMAIN batch' = DOMAIN batch
  BY DEF Rest
<1>4. \A a \in DOMAIN batch' : Followed(batch'[a], queue', calls', a)
  BY <1>2, <1>3
<1> QED
  BY <1>4 DEF CommandsFollow

(* The adapter hands an item on, or looks it up first.                        *)
LEMMA FollowAfterItem ==
  ASSUME Typed, Typed', CommandsFollow, AddItem \/ KnownItem
  PROVE  CommandsFollow'
<1> DEFINE b == Msg.b
           i == Msg.i
           x == batch[b]
           x2 == batch'[b]
<1>1. /\ queue # <<>> /\ Msg.kind = "item" /\ queue' = Tail(queue)
  BY DEF AddItem, KnownItem, Take, Msg
<1>2. /\ IsItem(batch, b, i) /\ b \in 1..MaxEvents /\ i \in Items
      /\ b \in DOMAIN batch /\ x.op \in Operation /\ Msg \in Message
  BY <1>1, HeadTyped, CommandParts
<1>3. x.errs \in [Items -> Error \cup {"uninitialised"}] /\ x.reports \in Nat /\ batch \in Seq(Batch)
  BY <1>2, CommandParts DEF Typed, TypeOK
<1>4. \E m : /\ m \in Call /\ m.kind = x.op /\ m.b = b /\ m.i = i /\ calls' = Append(calls, m)
  <2>1. CASE AddItem
    <3> DEFINE m == [kind |-> "add", b |-> b, i |-> i, key |-> KeyOf(b, i)]
    <3>1. calls' = Append(calls, m) /\ x.op = "add"
      BY <2>1 DEF AddItem, Msg
    <3>2. m \in Call
      BY <1>2, KeyTyped, CallKinds DEF Typed, KeyOf, KeyIn
    <3> QED
      BY <3>1, <3>2
  <2>2. CASE KnownItem
    <3> DEFINE h == HwIdFromClient(b, i)
               m == [kind |-> x.op, b |-> b, i |-> i, hw |-> h]
    <3>1. calls' = Append(calls, m) /\ x.op # "add" /\ h # None
      BY <2>2 DEF KnownItem, Msg
    <3>2. KeyOf(b, i) \in Keys
      BY <1>2, KeyTyped DEF Typed, KeyOf, KeyIn
    <3>3. h \in HwIds
      BY <3>1, <3>2 DEF Typed, TypeOK, HwIdFromClient
    <3>4. m \in Call
      BY <1>2, <3>1, <3>3, CallKinds
    <3> QED
      BY <3>1, <3>4
  <2> QED
    BY <2>1, <2>2
<1>5. PICK m \in Call : m.kind = x.op /\ m.b = b /\ m.i = i /\ calls' = Append(calls, m)
  BY <1>4
<1>6. /\ Stage(Msg) = 1 /\ Stage(m) = 2 /\ Carries(Msg, b) /\ Carries(m, b)
  BY <1>1, <1>2, <1>5, StageParts DEF Carries, ItemKinds, Operation
<1>7. /\ DOMAIN batch' = DOMAIN batch
      /\ \A a \in DOMAIN batch : a # b => batch'[a] = batch[a]
      /\ x2.op = x.op /\ x2.ids = x.ids /\ x2.reports = x.reports /\ x2.truth = x.truth
      /\ x2.errs = x.errs \/ (x.op # "add" /\ x2.errs = [x.errs EXCEPT ![i] = "success"])
      /\ x.op # "add" /\ x.reports = 0 => x2.errs = [x.errs EXCEPT ![i] = "success"]
  <2>1. CASE AddItem
    <3>1. batch' = batch /\ x.op = "add"
      BY <2>1 DEF AddItem, Msg, adapterVars
    <3> QED
      BY <3>1
  <2>2. CASE KnownItem
    <3>1. /\ x.op # "add"
          /\ batch' = [batch EXCEPT ![b].errs[i] = "success"]
      BY <2>2 DEF KnownItem, Msg
    <3>2. x2 = [x EXCEPT !.errs[i] = "success"] /\ DOMAIN batch' = DOMAIN batch
          /\ \A a \in DOMAIN batch : a # b => batch'[a] = batch[a]
      BY <1>2, <3>1
    <3>3. x \in Batch
      BY <1>2, CommandParts
    <3> HIDE DEF x, x2
    <3>4. x2.op = x.op /\ x2.ids = x.ids /\ x2.reports = x.reports /\ x2.truth = x.truth
          /\ x2.errs = [x.errs EXCEPT ![i] = "success"]
      BY <3>2, <3>3 DEF Batch
    <3> QED
      BY <3>1, <3>2, <3>4
  <2> QED
    BY <2>1, <2>2
<1>8. queue \in Seq(Message) /\ calls \in Seq(Call) /\ Followed(x, queue, calls, b)
  BY <1>2 DEF Typed, TypeOK, CommandsFollow
<1>9. GoesOn(queue, calls, m, b)
  BY <1>1, <1>5, <1>6 DEF GoesOn, Msg
<1> HIDE DEF b, i, x, x2
<1>10. ASSUME NEW j \in 1..Len(x.ids), x2.errs[j] = "uninitialised"
       PROVE  /\ x.errs[j] = "uninitialised"
              /\ j = Head(queue).i => Stage(m) <= Writes(x) \/ Stage(Head(queue)) > Writes(x)
  <2>0. j \in Items
    BY <1>2, <1>10, CommandParts DEF x
  <2>1. x.errs[j] = "uninitialised"
    BY <1>2, <1>3, <1>7, <1>10, <2>0
  <2>2. x.reports = 0
    BY <1>8, <2>1 DEF Followed, Owes
  <2>3. x.op = "add" \/ j # i
    BY <1>2, <1>3, <1>7, <1>10, <2>2, <2>0
  <2>4. CASE x.op = "add"
    BY <1>6, <2>1, <2>4, WritesTyped
  <2>5. CASE j # i
    BY <2>1, <2>5 DEF i, Msg
  <2> QED
    BY <2>3, <2>4, <2>5
<1>11. Followed(x2, queue', calls', b)
  <2>1. Followed(x2, Tail(queue), Append(calls, m), b)
    BY <1>7, <1>8, <1>9, <1>10, HandsOn
  <2> QED
    BY <1>1, <1>5, <2>1
<1>12. ASSUME NEW a \in DOMAIN batch, a # b
       PROVE  Shifted(queue', queue, 1, a) /\ Shifted(calls', calls, 0, a)
  <2>1. /\ ~Carries(Head(queue), a) /\ ~Commands(Head(queue), a)
        /\ ~Carries(m, a) /\ ~Commands(m, a)
    BY <1>6, <1>12, NotAnothers DEF Msg
  <2> QED
    BY <1>1, <1>5, <1>8, <2>1, ShiftedTail, ShiftedAppend
<1>13. x2 = batch'[b]
  BY DEF x2
<1>14. Rest(b, 1, 0)
  BY <1>7, <1>12 DEF Rest
<1> QED
  BY <1>11, <1>13, <1>14, OthersFollow

(* The engine serves an item, or takes its turn.                              *)
LEMMA FollowAfterServed ==
  ASSUME Typed, Typed', CommandsFollow, NEW m \in Message, calls # <<>>, calls' = Tail(calls),
         queue' = Append(queue, m), UNCHANGED batch,
         Call1.kind \in {"callQueue"} \cup Operation,
         m.kind = IF Call1.kind = "callQueue" THEN "item" ELSE "done",
         m.b = Call1.b, m.i = Call1.i
  PROVE  CommandsFollow'
<1> DEFINE b == Call1.b
<1>1. /\ Call1 \in Call /\ Good(batch, lastId, hwLast, Call1) /\ calls \in Seq(Call) /\ queue \in Seq(Message)
  BY CallTyped DEF Typed, TypeOK
<1>2. /\ b \in DOMAIN batch /\ Call1.kind \in ItemKinds /\ m.kind \in ItemKinds
      /\ Call1.kind \in Operation => batch[b].op = Call1.kind
  BY <1>1 DEF Good, ItemKinds, IsItem
<1>3. Carries(Call1, b) /\ Carries(m, b)
  BY <1>2 DEF Carries
<1>4. /\ Call1.kind = "callQueue" => Stage(Call1) = 0 /\ Stage(m) = 1
      /\ Call1.kind \in Operation => Stage(Call1) = 2 /\ Stage(m) = 3
  BY <1>1, <1>2, StageParts DEF Operation
<1>5. Stage(m) = Stage(Call1) + 1
  BY <1>4
<1>6. GoesOn(calls, queue, m, b)
  BY <1>3, <1>5 DEF GoesOn, Call1
<1>7. Stage(m) <= Writes(batch[b]) \/ Stage(Head(calls)) > Writes(batch[b])
  BY <1>2, <1>4, WritesTyped DEF Call1
<1>8. Followed(batch[b], queue, calls, b)
  BY <1>2 DEF CommandsFollow
<1>9. Followed(batch[b], Append(queue, m), Tail(calls), b)
  BY <1>1, <1>6, <1>7, <1>8, AnswersOn
<1> HIDE DEF b
<1>10. ASSUME NEW a \in DOMAIN batch, a # b
       PROVE  Shifted(queue', queue, 0, a) /\ Shifted(calls', calls, 1, a)
  <2>1. /\ ~Carries(Head(calls), a) /\ ~Commands(Head(calls), a)
        /\ ~Carries(m, a) /\ ~Commands(m, a)
    BY <1>3, <1>10, NotAnothers DEF Call1
  <2> QED
    BY <1>1, <2>1, ShiftedTail, ShiftedAppend
<1>11. batch' = batch /\ Followed(batch'[b], queue', calls', b)
  BY <1>9
<1>12. Rest(b, 0, 1)
  BY <1>10, <1>11 DEF Rest
<1> QED
  BY <1>11, <1>12, OthersFollow

(* The last item's answer sends the response.                                 *)
LEMMA AnswerParts ==
  ASSUME Typed, NEW b \in DOMAIN batch, NEW i \in Items, NEW err, NEW truth,
         NEW answers \in BOOLEAN, Answer(b, i, err, truth, answers)
  PROVE  /\ DOMAIN batch' = DOMAIN batch /\ \A a \in DOMAIN batch : a # b => batch'[a] = batch[a]
         /\ batch'[b].op = batch[b].op /\ batch'[b].ids = batch[b].ids
         /\ batch'[b].reports = IF answers /\ IsLast(b, i) THEN batch[b].reports + 1 ELSE batch[b].reports
         /\ batch'[b].truth = [batch[b].truth EXCEPT ![i] = truth]
         /\ batch'[b].errs = [batch[b].errs EXCEPT ![i] = err]
<1> DEFINE errs == [batch[b].errs EXCEPT ![i] = err]
           report == answers /\ IsLast(b, i)
           early == \E j \in DOMAIN batch[b].ids : j # i /\ batch[b].truth[j] = "pending"
           truths == [batch[b].truth EXCEPT ![i] = truth]
           reports == IF report THEN batch[b].reports + 1 ELSE batch[b].reports
           was == batch[b].early \/ (report /\ early)
           x == [batch[b] EXCEPT !.errs = errs, !.truth = truths, !.reports = reports, !.early = was]
<1>1. batch[b] \in Batch
  BY CommandParts
<1>2. batch' = [batch EXCEPT ![b].errs = errs, ![b].truth[i] = truth,
                             ![b].reports = IF report THEN @ + 1 ELSE @,
                             ![b].early = @ \/ (report /\ early)]
  BY DEF Answer
<1> HIDE DEF errs, report, early
<1>3. batch' = [batch EXCEPT ![b] = x]
  BY <1>1, <1>2 DEF Batch
<1> HIDE DEF truths, reports, was
<1>4. x.op = batch[b].op /\ x.ids = batch[b].ids /\ x.errs = errs /\ x.truth = truths /\ x.reports = reports
  BY <1>1 DEF Batch
<1> HIDE DEF x
<1>5. DOMAIN batch' = DOMAIN batch /\ batch'[b] = x /\ \A a \in DOMAIN batch : a # b => batch'[a] = batch[a]
  BY <1>3
<1> QED
  BY <1>4, <1>5 DEF errs, truths, reports, report

LEMMA FollowAfterAnswer ==
  ASSUME Typed, Typed', CommandsFollow, NEW err, NEW truth, NEW answers \in BOOLEAN,
         queue # <<>>, Msg.kind \in {"item", "done"}, queue' = Tail(queue), UNCHANGED calls,
         Answer(Msg.b, Msg.i, err, truth, answers),
         Msg.kind = "item" => batch[Msg.b].op # "add",
         err = "uninitialised" =>
           Msg.kind = "done" /\ batch[Msg.b].op # "add" /\ batch[Msg.b].errs[Msg.i] = "uninitialised",
         ~answers => batch[Msg.b].op = "resume" /\ truth = "failure"
  PROVE  CommandsFollow'
<1> DEFINE b == Msg.b
           i == Msg.i
           x == batch[b]
           x2 == batch'[b]
<1>1. b \in DOMAIN batch /\ i \in Items /\ Msg \in Message /\ Msg = Head(queue)
  BY HeadTyped DEF Msg
<1>2. /\ x.reports \in Nat /\ Len(x.ids) \in Nat /\ 1..Len(x.ids) \subseteq Items
      /\ x.errs \in [Items -> Error \cup {"uninitialised"}]
      /\ x.truth \in [Items -> Error \cup {"pending"}]
  BY <1>1, CommandParts
<1>3. /\ DOMAIN batch' = DOMAIN batch /\ \A a \in DOMAIN batch : a # b => batch'[a] = batch[a]
      /\ x2.op = x.op /\ x2.ids = x.ids
      /\ x2.reports = IF answers /\ IsLast(b, i) THEN x.reports + 1 ELSE x.reports
      /\ x2.truth = [x.truth EXCEPT ![i] = truth]
      /\ x2.errs = [x.errs EXCEPT ![i] = err]
  BY <1>1, AnswerParts
<1>4. Carries(Msg, b) /\ Stage(Msg) = (IF Msg.kind = "item" THEN 1 ELSE 3)
  BY <1>1, StageParts DEF Carries, ItemKinds
<1>5. Stage(Msg) >= Writes(x) /\ (Msg.kind = "done" /\ x.op # "add" => Stage(Msg) # Writes(x))
  BY <1>4, WritesTyped
<1>6. Followed(x, queue, calls, b) /\ queue \in Seq(Message) /\ calls \in Seq(Call)
  BY <1>1 DEF CommandsFollow, Typed, TypeOK
<1>7. IsLast(b, i) <=> i = Len(x.ids)
  BY DEF IsLast
<1>8. ~answers => x.op = "resume" /\ truth = "failure"
  OBVIOUS
<1>9. err = "uninitialised" => Stage(Msg) # Writes(x) /\ x.errs[i] = "uninitialised"
  BY <1>5
<1> HIDE DEF b, i, x, x2
<1>10. Answered(x, x2, i, Stage(Msg) = Writes(x))
  <2>1. \/ x2.reports = x.reports + 1 /\ i = Len(x.ids)
        \/ /\ x2.reports = x.reports
           /\ i = Len(x.ids) => x.op = "resume" /\ x2.truth[i] = "failure"
    BY <1>1, <1>2, <1>3, <1>7, <1>8
  <2>2. \A j \in Items : j # i => x2.truth[j] = x.truth[j] /\ x2.errs[j] = x.errs[j]
    BY <1>2, <1>3
  <2>3. x2.errs[i] = err
    BY <1>1, <1>2, <1>3
  <2>4. x2.errs[i] = "uninitialised" => x.errs[i] = "uninitialised" /\ ~(Stage(Msg) = Writes(x))
    BY <1>9, <2>3
  <2> QED
    BY <1>3, <2>1, <2>2, <2>4 DEF Answered
<1>11. Followed(x2, Tail(queue), calls, b)
  BY <1>1, <1>2, <1>4, <1>5, <1>6, <1>10, IsAnswered DEF i
<1>12. ASSUME NEW a \in DOMAIN batch, a # b
       PROVE  Shifted(queue', queue, 1, a) /\ Shifted(calls', calls, 0, a)
  <2>1. ~Carries(Head(queue), a) /\ ~Commands(Head(queue), a)
    BY <1>1, <1>4, <1>12, NotAnothers
  <2>2. Shifted(Tail(queue), queue, 1, a)
    BY <1>6, <2>1, ShiftedTail
  <2>3. Shifted(calls, calls, 0, a)
    BY <1>6, ShiftedSame
  <2> QED
    BY <2>2, <2>3
<1>13. x2 = batch'[b]
  BY DEF x2
<1>14. Rest(b, 1, 0)
  BY <1>3, <1>12 DEF Rest
<1>15. Followed(batch'[b], queue', calls', b)
  BY <1>11, <1>13
<1> QED
  BY <1>14, <1>15, OthersFollow

LEMMA FollowAfterDone ==
  ASSUME Typed, Typed', CommandsFollow, EngineKnowsIds, UnknownItem \/ AddDone \/ RemoveDone \/ ChangeDone
  PROVE  CommandsFollow'
<1>1. /\ queue # <<>> /\ Msg.kind \in {"item", "done"} /\ queue' = Tail(queue) /\ UNCHANGED calls
  BY DEF UnknownItem, AddDone, RemoveDone, ChangeDone, TakeDone, Take, Msg
<1>2. /\ Msg \in Message /\ 1 \in DOMAIN queue /\ Msg = queue[1]
      /\ Msg.kind = "done" => Msg.err \in {"success", "failure"}
  BY <1>1, HeadTyped DEF EngineKnowsIds
<1>3. CASE UnknownItem
  <2>1. /\ Answer(Msg.b, Msg.i, "id_unknown", "id_unknown", TRUE) /\ batch[Msg.b].op # "add"
    BY <1>3 DEF UnknownItem, Msg
  <2> QED
    BY <1>1, <2>1, FollowAfterAnswer
<1>4. CASE AddDone \/ RemoveDone
  <2>1. Answer(Msg.b, Msg.i, Msg.err, Msg.err, TRUE) /\ Msg.kind = "done"
    BY <1>4 DEF AddDone, RemoveDone, TakeDone, Take, Msg
  <2>2. Msg.err # "uninitialised"
    BY <1>2, <2>1
  <2> QED
    BY <1>1, <2>1, <2>2, FollowAfterAnswer
<1>5. CASE ChangeDone
  <2> DEFINE err == IF batch[Msg.b].op = "pause" THEN Msg.err ELSE batch[Msg.b].errs[Msg.i]
             answers == batch[Msg.b].op = "resume" => Msg.err = "success"
  <2>1. /\ Answer(Msg.b, Msg.i, err, Msg.err, answers) /\ Msg.kind = "done"
        /\ batch[Msg.b].op \in {"pause", "resume", "modify"}
    BY <1>5 DEF ChangeDone, TakeDone, Take, Msg
  <2>2. err = "uninitialised" =>
          Msg.kind = "done" /\ batch[Msg.b].op # "add" /\ batch[Msg.b].errs[Msg.i] = "uninitialised"
    BY <1>2, <2>1
  <2>3. ~answers => batch[Msg.b].op = "resume" /\ Msg.err = "failure"
    BY <1>2, <2>1
  <2>4. answers \in BOOLEAN
    OBVIOUS
  <2> HIDE DEF err, answers
  <2> QED
    BY <1>1, <2>1, <2>2, <2>3, <2>4, FollowAfterAnswer
<1> QED
  BY <1>3, <1>4, <1>5

(* A command is taken: its items wait for the engine's thread, in order.       *)
LEMMA ItemsInLine ==
  ASSUME NEW c \in Seq(Call), NEW L \in Seq(Call), NEW b, Idle(c, b),
         \A j \in DOMAIN L : Carries(L[j], b) /\ L[j].i = j /\ Stage(L[j]) = 0
  PROVE  /\ InLine(c \o L, b)
         /\ \A j \in DOMAIN L : On(c \o L, b, j) /\ \A last \in Nat : Before(c \o L, b, j, last)
<1> DEFINE v == c \o L
<1>1. ASSUME NEW p \in DOMAIN v, Carries(v[p], b)
      PROVE  p - Len(c) \in DOMAIN L /\ v[p] = L[p - Len(c)] /\ p \in Nat /\ Len(c) \in Nat
  <2>1. \/ p \in DOMAIN c /\ v[p] = c[p]
        \/ p - Len(c) \in DOMAIN L /\ v[p] = L[p - Len(c)]
    BY ConcatCases
  <2>2. p \in Nat /\ Len(c) \in Nat
    BY ConcatElements
  <2> QED
    BY <1>1, <2>1, <2>2 DEF Idle
<1>2. \A j \in DOMAIN L : Len(c) + j \in DOMAIN v /\ v[Len(c) + j] = L[j]
  BY ConcatElements
<1> HIDE DEF v
<1>3. ASSUME NEW p \in DOMAIN v, NEW q \in DOMAIN v, Carries(v[p], b), Carries(v[q], b)
      PROVE  /\ Behind(v[p], v[q])
             /\ Stage(v[p]) = Stage(v[q]) /\ p < q => v[p].i < v[q].i
  <2>1. /\ Stage(v[p]) = 0 /\ Stage(v[q]) = 0 /\ v[p].i = p - Len(c) /\ v[q].i = q - Len(c)
        /\ p \in Nat /\ q \in Nat /\ Len(c) \in Nat
    BY <1>1, <1>3
  <2> QED
    BY <2>1 DEF Behind
<1>4. InLine(v, b)
  BY <1>3 DEF InLine
<1>5. \A j \in DOMAIN L : On(v, b, j)
  BY <1>2 DEF On
<1>6. ASSUME NEW j \in DOMAIN L, NEW last \in Nat
      PROVE  Before(v, b, j, last)
  BY <1>2 DEF Before
<1> QED
  BY <1>4, <1>5, <1>6 DEF v

LEMMA FollowAfterCommand ==
  ASSUME Typed, Typed', CommandsFollow, ProcessCommand
  PROVE  CommandsFollow'
<1> DEFINE b == Msg.b
           x == batch[b]
           n == Len(x.ids)
           L == [i \in DOMAIN batch[Msg.b].ids |-> [kind |-> "callQueue", b |-> Msg.b, i |-> i]]
<1>1. /\ queue # <<>> /\ Msg.kind = "command" /\ queue' = Tail(queue) /\ calls' = calls \o L
      /\ UNCHANGED batch
  BY DEF ProcessCommand, Take, Msg, adapterVars
<1>2. /\ b \in DOMAIN batch /\ b \in 1..MaxEvents /\ Msg = queue[1] /\ 1 \in DOMAIN queue
  BY <1>1, HeadTyped, MessageParts DEF Good
<1>3. n \in Nat /\ DOMAIN x.ids = 1..n /\ 1..n \subseteq Items
  BY <1>2, CommandParts
<1>4. /\ DOMAIN L = 1..n /\ L = [i \in 1..n |-> L[i]]
      /\ \A i \in 1..n : L[i] = [kind |-> "callQueue", b |-> b, i |-> i]
  BY <1>3
<1> HIDE DEF L, n, b
<1>5. ASSUME NEW i \in 1..n
      PROVE  /\ L[i] \in Call /\ Carries(L[i], b) /\ L[i].i = i /\ Stage(L[i]) = 0
             /\ \A a : a # b => ~Carries(L[i], a) /\ ~Commands(L[i], a)
  <2>1. L[i] = [kind |-> "callQueue", b |-> b, i |-> i]
    BY <1>4
  <2>2. L[i] \in Call /\ L[i].kind = "callQueue" /\ L[i].b = b /\ L[i].i = i
    BY <1>2, <1>3, <2>1, CallKinds
  <2>3. Carries(L[i], b) /\ Stage(L[i]) = 0
    BY <2>2 DEF Carries, ItemKinds, Stage
  <2> QED
    BY <2>2, <2>3, NotAnothers
<1>6. L \in Seq(Call)
  <2>1. L \in [1..n -> Call]
    BY <1>4, <1>5
  <2> QED
    BY <1>3, <2>1, Listed
<1>7. queue \in Seq(Message) /\ calls \in Seq(Call) /\ Followed(x, queue, calls, b)
  BY <1>2 DEF Typed, TypeOK, CommandsFollow
<1>8. Commands(Msg, b) /\ Given(queue, b)
  BY <1>1, <1>2 DEF Commands, Given, b
<1>9. /\ Idle(queue, b) /\ Idle(calls, b) /\ x.reports = 0 /\ n >= 1
      /\ \A p \in DOMAIN queue : Commands(queue[p], b) => p = 1
  BY <1>2, <1>7, <1>8 DEF Followed, Alone, Owes, n
<1>10. /\ InLine(calls', b)
       /\ \A j \in 1..n : On(calls', b, j) /\ \A last \in Nat : Before(calls', b, j, last)
  BY <1>1, <1>4, <1>5, <1>6, <1>7, <1>9, ItemsInLine
<1>11. ASSUME NEW p \in DOMAIN queue'
       PROVE  ~Carries(queue'[p], b) /\ ~Commands(queue'[p], b)
  <2>1. p \in Nat /\ p > 0 /\ p + 1 \in DOMAIN queue /\ queue'[p] = queue[p + 1]
    BY <1>1, <1>7, TailElements
  <2>2. p + 1 # 1
    BY <2>1
  <2> QED
    BY <1>9, <2>1, <2>2 DEF Idle
<1>12. Ordered(queue', calls', b) /\ Given(queue', b) = FALSE
  BY <1>10, <1>11 DEF Ordered, InLine, Across, Given
<1>13. Alone(queue', calls', b)
  BY <1>12, NotGivenIsAlone
<1>14. Owes(x, FALSE, queue', calls', b)
  <2>1. On(calls', b, n)
    BY <1>3, <1>9, <1>10
  <2>2. \A i \in 1..n : Before(calls', b, i, Writes(x))
    BY <1>10, WritesTyped
  <2> QED
    BY <1>9, <2>1, <2>2 DEF Owes, n
<1>15. Followed(batch'[b], queue', calls', b)
  BY <1>1, <1>12, <1>13, <1>14 DEF Followed
<1> HIDE DEF x
<1>16. ASSUME NEW a \in DOMAIN batch, a # b
       PROVE  Shifted(queue', queue, 1, a) /\ Shifted(calls', calls, 0, a)
  <2>1. ~Carries(Head(queue), a) /\ ~Commands(Head(queue), a)
    BY <1>8, <1>16, NotAnothers DEF Msg
  <2>2. \A p \in DOMAIN L : ~Carries(L[p], a) /\ ~Commands(L[p], a)
    BY <1>4, <1>5, <1>16
  <2> QED
    BY <1>1, <1>6, <1>7, <2>1, <2>2, ShiftedTail, ShiftedConcat
<1>17. Rest(b, 1, 0)
  BY <1>1, <1>16 DEF Rest
<1> QED
  BY <1>15, <1>17, OthersFollow

(* What no command is about leaves all as they are.                           *)
Plain(m) == m.kind \notin ItemKinds /\ m.kind # "command"

LEMMA PlainIsNobodys ==
  ASSUME NEW m, Plain(m), NEW b
  PROVE  ~Carries(m, b) /\ ~Commands(m, b)
  BY DEF Plain, Carries, Commands

LEMMA FollowAfterPlain ==
  ASSUME Typed, Typed', CommandsFollow, UNCHANGED batch,
         \/ /\ queue # <<>> /\ queue' = Tail(queue) /\ Plain(Msg)
            /\ \E L \in Seq(Call) : calls' = calls \o L /\ \A j \in DOMAIN L : Plain(L[j])
         \/ /\ calls # <<>> /\ calls' = Tail(calls) /\ Plain(Call1)
            /\ UNCHANGED queue \/ \E m \in Message : queue' = Append(queue, m) /\ Plain(m)
         \/ UNCHANGED calls /\ \E m \in Message : queue' = Append(queue, m) /\ Plain(m)
         \/ UNCHANGED queue /\ \E m \in Call : calls' = Append(calls, m) /\ Plain(m)
  PROVE  CommandsFollow'
<1>1. queue \in Seq(Message) /\ calls \in Seq(Call) /\ 0 \notin DOMAIN batch
  BY DEF Typed, TypeOK
<1>2. CASE /\ queue # <<>> /\ queue' = Tail(queue) /\ Plain(Msg)
           /\ \E L \in Seq(Call) : calls' = calls \o L /\ \A j \in DOMAIN L : Plain(L[j])
  <2>1. PICK L \in Seq(Call) : calls' = calls \o L /\ \A j \in DOMAIN L : Plain(L[j])
    BY <1>2
  <2>2. ASSUME NEW a \in DOMAIN batch
        PROVE  Shifted(queue', queue, 1, a) /\ Shifted(calls', calls, 0, a)
    <3>1. ~Carries(Head(queue), a) /\ ~Commands(Head(queue), a)
      BY <1>2, PlainIsNobodys DEF Msg
    <3>2. \A j \in DOMAIN L : ~Carries(L[j], a) /\ ~Commands(L[j], a)
      BY <2>1, PlainIsNobodys
    <3> QED
      BY <1>1, <1>2, <2>1, <3>1, <3>2, ShiftedTail, ShiftedConcat
  <2>3. Rest(0, 1, 0)
    BY <2>2 DEF Rest
  <2> QED
    BY <1>1, <2>3, OthersFollow
<1>3. ASSUME NEW d \in {0, 1}, IF d = 1 THEN calls # <<>> /\ calls' = Tail(calls) /\ Plain(Call1)
                               ELSE UNCHANGED calls,
             UNCHANGED queue \/ \E m \in Message : queue' = Append(queue, m) /\ Plain(m)
      PROVE  CommandsFollow'
  <2>1. ASSUME NEW a \in DOMAIN batch
        PROVE  Shifted(queue', queue, 0, a)
    <3>1. CASE UNCHANGED queue
      BY <1>1, <3>1, ShiftedSame
    <3>2. CASE \E m \in Message : queue' = Append(queue, m) /\ Plain(m)
      BY <1>1, <3>2, PlainIsNobodys, ShiftedAppend
    <3> QED
      BY <1>3, <3>1, <3>2
  <2>2. ASSUME NEW a \in DOMAIN batch
        PROVE  Shifted(calls', calls, d, a)
    <3>1. CASE d = 0
      BY <1>1, <1>3, <3>1, ShiftedSame
    <3>2. CASE d = 1
      <4>1. calls # <<>> /\ calls' = Tail(calls) /\ Plain(Call1)
        BY <1>3, <3>2
      <4>2. ~Carries(Head(calls), a) /\ ~Commands(Head(calls), a)
        BY <4>1, PlainIsNobodys DEF Call1
      <4>3. Shifted(Tail(calls), calls, 1, a)
        BY <1>1, <4>1, <4>2, ShiftedTail
      <4> QED
        BY <3>2, <4>1, <4>3
    <3> QED
      BY <3>1, <3>2
  <2>3. Rest(0, 0, d)
    BY <2>1, <2>2 DEF Rest
  <2> QED
    BY <1>1, <2>3, OthersFollow
<1>4. CASE UNCHANGED queue /\ \E m \in Call : calls' = Append(calls, m) /\ Plain(m)
  <2>1. ASSUME NEW a \in DOMAIN batch
        PROVE  Shifted(queue', queue, 0, a) /\ Shifted(calls', calls, 0, a)
    BY <1>1, <1>4, PlainIsNobodys, ShiftedSame, ShiftedAppend
  <2>2. Rest(0, 0, 0)
    BY <2>1 DEF Rest
  <2> QED
    BY <1>1, <2>2, OthersFollow
<1>5. CASE /\ calls # <<>> /\ calls' = Tail(calls) /\ Plain(Call1)
           /\ UNCHANGED queue \/ \E m \in Message : queue' = Append(queue, m) /\ Plain(m)
  <2>1. IF 1 = 1 THEN calls # <<>> /\ calls' = Tail(calls) /\ Plain(Call1) ELSE UNCHANGED calls
    BY <1>5
  <2> QED
    BY <1>3, <1>5, <2>1
<1>6. CASE UNCHANGED calls /\ \E m \in Message : queue' = Append(queue, m) /\ Plain(m)
  <2>1. IF 0 = 1 THEN calls # <<>> /\ calls' = Tail(calls) /\ Plain(Call1) ELSE UNCHANGED calls
    BY <1>6
  <2> QED
    BY <1>3, <1>6, <2>1
<1> QED
  BY <1>2, <1>4, <1>5, <1>6

(* A new command waits alone.                                                 *)
LEMMA FollowAfterNew ==
  ASSUME Typed, Typed', CommandsFollow, NEW op, NEW c, NEW n \in Items, NEW ids \in [1..n -> 1..MaxId],
         Command(op, c, ids)
  PROVE  CommandsFollow'
<1> DEFINE b == Len(batch) + 1
           x == [op |-> op, client |-> c, ids |-> ids,
                 errs |-> [i \in Items |-> "uninitialised"],
                 truth |-> [i \in Items |-> "pending"], reports |-> 0, early |-> FALSE]
           m == [kind |-> "command", b |-> b]
<1>1. batch' = Append(batch, x) /\ queue' = Append(queue, m) /\ calls' = calls
  BY DEF Command
<1>2. /\ batch \in Seq(Batch) /\ batch' \in Seq(Batch) /\ queue \in Seq(Message) /\ queue' \in Seq(Message)
      /\ calls \in Seq(Call)
  BY DEF Typed, TypeOK
<1>3. n \in Nat /\ n >= 1 /\ Len(ids) = n
  <2>1. n \in Nat /\ n >= 1
    BY BoundsAssumption DEF Items
  <2> QED
    BY <2>1, Listed
<1>4. m.kind = "command" /\ m.b = b /\ x.reports = 0 /\ x.ids = ids
  OBVIOUS
<1> HIDE DEF x, m
<1>5. /\ DOMAIN batch' = DOMAIN batch \cup {b} /\ b \notin DOMAIN batch /\ batch'[b] = x
      /\ \A a \in DOMAIN batch : batch'[a] = batch[a]
  BY <1>1, <1>2
<1>6. /\ Len(queue) + 1 \in DOMAIN queue' /\ queue'[Len(queue) + 1] = m
      /\ \A p \in DOMAIN queue' : p = Len(queue) + 1 \/ (p \in DOMAIN queue /\ queue'[p] = queue[p])
      /\ m \in Message
  <2>1. Len(queue') = Len(queue) + 1 /\ Len(queue) \in Nat
    BY <1>1, <1>2
  <2>2. Len(queue) + 1 \in DOMAIN queue' /\ queue'[Len(queue) + 1] = m
    BY <1>1, <1>2, <2>1
  <2>3. m \in Message
    BY <1>2, <2>2, ElementTyped
  <2> QED
    BY <1>1, <1>2, <2>2, <2>3, AppendElements
<1> HIDE DEF b
<1>7. ASSUME NEW y, Good(batch, lastId, hwLast, y)
      PROVE  ~Carries(y, b) /\ ~Commands(y, b)
  BY <1>5, <1>7 DEF Good, Carries, Commands, IsItem
<1>8. /\ \A p \in DOMAIN queue : ~Carries(queue[p], b) /\ ~Commands(queue[p], b)
      /\ \A p \in DOMAIN calls : ~Carries(calls[p], b)
  BY <1>7 DEF Typed, GoodMail
<1>9. Commands(m, b) /\ ~Carries(m, b) /\ \A a : a # b => ~Carries(m, a) /\ ~Commands(m, a)
  BY <1>4 DEF Commands, Carries, ItemKinds, Operation
<1>10. Given(queue', b) = TRUE
  BY <1>6, <1>9 DEF Given
<1>11. Idle(queue', b) /\ Idle(calls', b)
  BY <1>1, <1>6, <1>8, <1>9 DEF Idle
<1>12. Alone(queue', calls', b)
  <2>1. Ordered(queue', calls', b)
    BY <1>11 DEF Ordered, InLine, Across, Idle
  <2>2. \A p, r \in DOMAIN queue' : Commands(queue'[p], b) /\ Commands(queue'[r], b) => p = r
    BY <1>6, <1>8
  <2> QED
    BY <1>11, <2>1, <2>2 DEF Alone
<1>13. Owes(x, TRUE, queue', calls', b)
  BY <1>3, <1>4 DEF Owes
<1>14. Followed(batch'[b], queue', calls', b)
  BY <1>5, <1>10, <1>12, <1>13 DEF Followed
<1>15. ASSUME NEW a \in DOMAIN batch
       PROVE  Followed(batch'[a], queue', calls', a)
  <2>1. Shifted(queue', queue, 0, a) /\ Shifted(calls', calls, 0, a)
    BY <1>1, <1>2, <1>5, <1>6, <1>9, ShiftedAppend, ShiftedSame
  <2>2. Followed(batch[a], queue, calls, a) /\ batch'[a] = batch[a]
    BY <1>5 DEF CommandsFollow
  <2> QED
    BY <1>1, <1>2, <2>1, <2>2, FollowedShifted
<1> QED
  BY <1>5, <1>14, <1>15 DEF CommandsFollow

(* The engine answers with success or a failure, and looks no id up.          *)
LEMMA EngineStillKnows ==
  ASSUME queue \in Seq(Message), EngineKnowsIds,
         \/ UNCHANGED queue
         \/ queue # <<>> /\ queue' = Tail(queue)
         \/ \E m \in Message : queue' = Append(queue, m) /\ (m.kind = "done" => m.err \in {"success", "failure"})
  PROVE  EngineKnowsIds'
<1>1. CASE UNCHANGED queue
  BY <1>1 DEF EngineKnowsIds
<1>2. CASE queue # <<>> /\ queue' = Tail(queue)
  <2>1. \A p \in DOMAIN queue' : p + 1 \in DOMAIN queue /\ queue'[p] = queue[p + 1]
    BY <1>2, TailElements
  <2> QED
    BY <2>1 DEF EngineKnowsIds
<1>3. CASE \E m \in Message : queue' = Append(queue, m) /\ (m.kind = "done" => m.err \in {"success", "failure"})
  <2>1. PICK m \in Message : queue' = Append(queue, m) /\ (m.kind = "done" => m.err \in {"success", "failure"})
    BY <1>3
  <2>2. \A p \in DOMAIN queue' : queue'[p] = m \/ (p \in DOMAIN queue /\ queue'[p] = queue[p])
    BY <2>1, AppendElements
  <2> QED
    BY <2>1, <2>2 DEF EngineKnowsIds
<1> QED
  BY <1>1, <1>2, <1>3

AnswersInv == CommandsFollow /\ EngineKnowsIds

LEMMA AnswersAfterAdapter ==
  ASSUME IInv, Typed', AnswersInv, AdapterStep
  PROVE  AnswersInv'
<1>1. /\ Typed /\ BorneOnce /\ MapsAgree /\ CommandsFollow /\ EngineKnowsIds /\ queue \in Seq(Message)
  BY DEF IInv, AnswersInv, Typed, TypeOK
<1>2. queue # <<>> /\ queue' = Tail(queue)
  BY DEF AdapterStep, ProcessCommand, AddItem, KnownItem, UnknownItem, AddDone, RemoveDone, ChangeDone,
         RestartGeofences, RestoredGeofence, StopClientSessions, ClearedGeofence, GeofenceBreach,
             TakeDone, Take
<1>3. EngineKnowsIds'
  BY <1>1, <1>2, EngineStillKnows
<1>4. ASSUME NEW L \in Seq(Call), calls' = calls \o L, \A j \in DOMAIN L : Plain(L[j]),
             UNCHANGED batch, Msg.kind \in {"ssr", "restored", "removeClient", "cleared", "breach"}
      PROVE  CommandsFollow'
  <2>1. Plain(Msg)
    BY <1>4 DEF Plain, ItemKinds, Operation
  <2> QED
    BY <1>1, <1>2, <1>4, <2>1, FollowAfterPlain
<1> SUFFICES CommandsFollow'
  BY <1>3 DEF AnswersInv
<1>5. CASE RestartGeofences \/ StopClientSessions
  <2>1. PICK L : Hands(L) /\ Added(L) /\ (Only(L, "readd") \/ Only(L, "clear"))
    BY <1>1, <1>5, RestartGeofencesHands, StopClientSessionsHands
  <2>2. L \in Seq(Call) /\ calls' = calls \o L /\ \A j \in DOMAIN L : Plain(L[j])
    BY <2>1 DEF Hands, Added, Only, Plain, ItemKinds, Operation
  <2>3. UNCHANGED batch /\ Msg.kind \in {"ssr", "removeClient"}
    BY <1>5 DEF RestartGeofences, StopClientSessions, Take, Msg
  <2> QED
    BY <1>4, <2>2, <2>3
<1>6. CASE RestoredGeofence
  <2> DEFINE m == [kind |-> "repause", hw |-> Msg.hw]
  <2>1. /\ Msg.kind = "restored" /\ UNCHANGED batch
        /\ calls' = calls \/ (calls' = Append(calls, m) /\ Msg.err = "success")
    BY <1>6 DEF RestoredGeofence, Take, Msg
  <2>2. calls \in Seq(Call)
    BY <1>1 DEF Typed, TypeOK
  <2>3. CASE calls' = calls
    <3>1. <<>> \in Seq(Call) /\ calls \o <<>> = calls
      BY <2>2, ConcatNothing
    <3>2. \A j \in DOMAIN <<>> : Plain(<<>>[j])
      OBVIOUS
    <3>3. calls' = calls \o <<>>
      BY <2>3, <3>1
    <3> QED
      BY <1>4, <2>1, <3>1, <3>2, <3>3
  <2>4. CASE calls' = Append(calls, m) /\ Msg.err = "success"
    <3>1. Msg.hw \in HwIds
      <4>1. Msg.hw \in 1..hwLast
        BY <1>1, <1>2, <2>1, <2>4, HeadTyped DEF Good
      <4>2. hwLast \in Nat /\ MaxHwId \in Nat /\ hwLast <= MaxHwId
        BY <1>1, BoundsAssumption DEF Typed, TypeOK
      <4> QED
        BY <4>1, <4>2 DEF HwIds
    <3>2. m \in Call /\ Plain(m)
      BY <3>1, HwCallKinds DEF Plain, ItemKinds, Operation
    <3> HIDE DEF m
    <3>3. calls' = calls \o <<m>> /\ <<m>> \in Seq(Call) /\ \A j \in DOMAIN <<m>> : <<m>>[j] = m
      BY <2>2, <2>4, <3>2, ConcatOne
    <3> QED
      BY <1>4, <2>1, <3>2, <3>3
  <2> QED
    BY <2>1, <2>3, <2>4
<1>7. CASE ClearedGeofence \/ GeofenceBreach
  <2>1. Msg.kind \in {"cleared", "breach"} /\ UNCHANGED <<batch, calls>>
    BY <1>7 DEF ClearedGeofence, GeofenceBreach, Take, Msg, adapterVars
  <2>2. calls \in Seq(Call)
    BY <1>1 DEF Typed, TypeOK
  <2>3. <<>> \in Seq(Call) /\ calls \o <<>> = calls
    BY <2>2, ConcatNothing
  <2>4. \A j \in DOMAIN <<>> : Plain(<<>>[j])
    OBVIOUS
  <2>5. calls' = calls \o <<>>
    BY <2>1, <2>3
  <2> QED
    BY <1>4, <2>1, <2>3, <2>4, <2>5
<1>8. CASE ProcessCommand \/ AddItem \/ KnownItem
  BY <1>1, <1>8, FollowAfterCommand, FollowAfterItem
<1>9. CASE UnknownItem \/ AddDone \/ RemoveDone \/ ChangeDone
  BY <1>1, <1>9, FollowAfterDone
<1> QED
  BY <1>5, <1>6, <1>7, <1>8, <1>9 DEF AdapterStep

LEMMA AnswersAfterEngine ==
  ASSUME IInv, Typed', AnswersInv, EngineStep
  PROVE  AnswersInv'
<1>1. /\ Typed /\ CommandsFollow /\ EngineKnowsIds /\ queue \in Seq(Message) /\ calls \in Seq(Call)
  BY DEF IInv, AnswersInv, Typed, TypeOK
<1>2. ASSUME NEW m, queue' = Append(queue, m)
      PROVE  m \in Message
  <2>1. queue' \in Seq(Message) /\ queue'[Len(queue) + 1] = m /\ Len(queue) + 1 \in DOMAIN queue'
    <3>1. queue' \in Seq(Message)
      BY DEF Typed, TypeOK
    <3> QED
      BY <1>1, <1>2, <3>1
  <2> QED
    BY <2>1, ElementTyped
<1>3. CASE CallQueueServed \/ AddServed \/ ChangeServed
  <2>1. /\ calls # <<>> /\ calls' = Tail(calls) /\ Call1.kind \in {"callQueue"} \cup Operation
        /\ UNCHANGED batch
    BY <1>3 DEF CallQueueServed, AddServed, ChangeServed, Serve, adapterVars, Operation
  <2>2. \E m : /\ queue' = Append(queue, m) /\ m.b = Call1.b /\ m.i = Call1.i
               /\ m.kind = IF Call1.kind = "callQueue" THEN "item" ELSE "done"
               /\ m.kind = "done" => m.err \in {"success", "failure"}
    <3>1. CASE CallQueueServed
      BY <3>1 DEF CallQueueServed
    <3>2. CASE AddServed \/ ChangeServed
      <4>1. Call1.kind # "callQueue" /\ \E err \in {"success", "failure"} : \E h : Respond(err, h)
        BY <3>2 DEF AddServed, ChangeServed, Operation
      <4> QED
        BY <4>1 DEF Respond
    <3> QED
      BY <1>3, <3>1, <3>2
  <2>3. PICK m : /\ queue' = Append(queue, m) /\ m.b = Call1.b /\ m.i = Call1.i
                 /\ m.kind = IF Call1.kind = "callQueue" THEN "item" ELSE "done"
                 /\ m.kind = "done" => m.err \in {"success", "failure"}
    BY <2>2
  <2>4. m \in Message
    BY <1>2, <2>3
  <2>5. CommandsFollow'
    BY <1>1, <2>1, <2>3, <2>4, FollowAfterServed
  <2>6. EngineKnowsIds'
    BY <1>1, <2>3, <2>4, EngineStillKnows
  <2> QED
    BY <2>5, <2>6 DEF AnswersInv
<1>4. CASE ReaddServed \/ ClearServed \/ EngineIsBack \/ RepauseServed
  <2>1. /\ calls # <<>> /\ calls' = Tail(calls) /\ Plain(Call1) /\ UNCHANGED batch
    BY <1>4 DEF ReaddServed, ClearServed, EngineIsBack, RepauseServed, Serve, adapterVars, Plain,
                ItemKinds, Operation
  <2>2. UNCHANGED queue \/ \E m : queue' = Append(queue, m) /\ m.kind \in {"restored", "cleared", "ssr"}
    BY <1>4 DEF ReaddServed, ClearServed, EngineIsBack, RepauseServed
  <2>3. UNCHANGED queue \/ \E m \in Message : queue' = Append(queue, m) /\ Plain(m) /\ m.kind # "done"
    BY <1>2, <2>2 DEF Plain, ItemKinds, Operation
  <2>4. CommandsFollow' /\ EngineKnowsIds'
    BY <1>1, <2>1, <2>3, FollowAfterPlain, EngineStillKnows
  <2> QED
    BY <2>4 DEF AnswersInv
<1>5. CASE EngineRestarts
  <2> DEFINE m == [kind |-> "ssr"]
  <2>1. UNCHANGED <<batch, queue>> /\ calls' = Append(calls, m)
    BY <1>5 DEF EngineRestarts, adapterVars
  <2>2. m \in Call /\ Plain(m)
    BY HwCallKinds DEF Plain, ItemKinds, Operation
  <2> HIDE DEF m
  <2>3. CommandsFollow' /\ EngineKnowsIds'
    BY <1>1, <2>1, <2>2, FollowAfterPlain, EngineStillKnows
  <2> QED
    BY <2>3 DEF AnswersInv
<1>6. CASE EngineBreaches
  <2>1. UNCHANGED <<batch, calls>> /\ \E m : queue' = Append(queue, m) /\ m.kind = "breach"
    BY <1>6 DEF EngineBreaches, adapterVars
  <2>2. \E m \in Message : queue' = Append(queue, m) /\ Plain(m) /\ m.kind # "done"
    BY <1>2, <2>1 DEF Plain, ItemKinds, Operation
  <2>3. CommandsFollow' /\ EngineKnowsIds'
    BY <1>1, <2>1, <2>2, FollowAfterPlain, EngineStillKnows
  <2> QED
    BY <2>3 DEF AnswersInv
<1> QED
  BY <1>3, <1>4, <1>5, <1>6 DEF EngineStep

LEMMA AnswersAfterClient ==
  ASSUME IInv, Typed', AnswersInv, ClientStep
  PROVE  AnswersInv'
<1>1. /\ Typed /\ CommandsFollow /\ EngineKnowsIds /\ queue \in Seq(Message)
      /\ lastId \in 0..MaxId /\ MaxId \in Nat /\ queue' \in Seq(Message)
  BY BoundsAssumption DEF IInv, AnswersInv, Typed, TypeOK
<1>2. ASSUME NEW m, queue' = Append(queue, m)
      PROVE  m \in Message
  <2>1. queue'[Len(queue) + 1] = m /\ Len(queue) + 1 \in DOMAIN queue'
    BY <1>1, <1>2
  <2> QED
    BY <1>1, <2>1, ElementTyped
<1>3. ASSUME NEW op, NEW c, NEW n \in Items, NEW ids \in [1..n -> 1..MaxId], Command(op, c, ids)
      PROVE  AnswersInv'
  <2>1. \E m : queue' = Append(queue, m) /\ m.kind = "command"
    BY <1>3 DEF Command
  <2>2. EngineKnowsIds'
    BY <1>1, <1>2, <2>1, EngineStillKnows
  <2>3. CommandsFollow'
    BY <1>1, <1>3, FollowAfterNew
  <2> QED
    BY <2>2, <2>3 DEF AnswersInv
<1>4. CASE AddGeofencesCommand
  <2>1. PICK c \in Clients, n \in Items :
          lastId + n <= MaxId /\ Command("add", c, [i \in 1..n |-> lastId + i])
    BY <1>4 DEF AddGeofencesCommand
  <2>2. [i \in 1..n |-> lastId + i] \in [1..n -> 1..MaxId]
    BY <1>1, <2>1, BoundsAssumption DEF Items
  <2> QED
    BY <1>3, <2>1, <2>2
<1>5. CASE ChangeGeofencesCommand
  <2>1. PICK c \in Clients, op \in Operation \ {"add"}, n \in Items :
          \E ids \in [1..n -> 1..lastId] : Command(op, c, ids)
    BY <1>5 DEF ChangeGeofencesCommand
  <2>2. PICK ids \in [1..n -> 1..lastId] : Command(op, c, ids)
    BY <2>1
  <2>3. ids \in [1..n -> 1..MaxId]
    BY <1>1, <2>2
  <2> QED
    BY <1>3, <2>2, <2>3
<1>6. CASE RemoveClientCommand
  <2>1. UNCHANGED <<batch, calls>> /\ \E m : queue' = Append(queue, m) /\ m.kind = "removeClient"
    BY <1>6 DEF RemoveClientCommand, adapterVars
  <2>2. \E m \in Message : queue' = Append(queue, m) /\ Plain(m) /\ m.kind # "done"
    BY <1>2, <2>1 DEF Plain, ItemKinds, Operation
  <2>3. CommandsFollow' /\ EngineKnowsIds'
    BY <1>1, <2>1, <2>2, FollowAfterPlain, EngineStillKnows
  <2> QED
    BY <2>3 DEF AnswersInv
<1> QED
  BY <1>4, <1>5, <1>6 DEF ClientStep

LEMMA AnswersInvariant == Spec => [](IInv /\ AnswersInv)
<1>1. Init => AnswersInv
  BY DEF Init, AnswersInv, CommandsFollow, EngineKnowsIds
<1>2. IInv /\ IInv' /\ AnswersInv /\ [Next]_vars => AnswersInv'
  <2> SUFFICES ASSUME IInv, IInv', AnswersInv, [Next]_vars
               PROVE  AnswersInv'
    OBVIOUS
  <2>1. Typed'
    BY DEF IInv
  <2>2. CASE Next
    BY <2>1, <2>2, AnswersAfterAdapter, AnswersAfterEngine, AnswersAfterClient DEF Next
  <2>3. CASE UNCHANGED vars
    BY <2>3 DEF vars, adapterVars, AnswersInv, CommandsFollow, EngineKnowsIds
  <2> QED
    BY <2>2, <2>3
<1> QED
  BY <1>1, <1>2, Invariant, PTL DEF Spec

(* Every command of a client is answered with one collective response, none   *)
(* of its errors read before it was written (the responses that               *)
(* addGeofencesCommand and the others collect in an array of errors): however  *)
(* the items of several commands, restarts and refusals interleave.  Only a    *)
(* resumption whose last item fails gets no response; and none is promised once *)
(* an item's answer uses its command's deleted arrays.  This is the first part *)
(* of ToldIsServed.                                                           *)
THEOREM CommandsAnsweredOnce == Spec => []AnsweredOnce
<1>1. IInv /\ AnswersInv => AnsweredOnce
  <2> SUFFICES ASSUME IInv, AnswersInv, NEW b \in DOMAIN batch
               PROVE  /\ batch[b].reports <= 1
                      /\ batch[b].reports = 1 =>
                           \A i \in 1..Len(batch[b].ids) : batch[b].errs[i] # "uninitialised"
                      /\ Quiet => \/ batch[b].reports = 1
                                  \/ /\ batch[b].op = "resume"
                                     /\ batch[b].truth[Len(batch[b].ids)] = "failure"
    BY DEF AnsweredOnce
  <2>1. Owes(batch[b], Given(queue, b), queue, calls, b)
    BY DEF AnswersInv, CommandsFollow, Followed
  <2>2. batch[b].reports \in Nat
    BY CommandParts DEF IInv
  <2>3. Quiet => DOMAIN queue = {} /\ DOMAIN calls = {}
    BY DEF Quiet
  <2>4. Quiet => ~Given(queue, b) /\ \A i : ~On(queue, b, i) /\ ~On(calls, b, i)
    BY <2>3 DEF Given, On
  <2> QED
    BY <2>1, <2>2, <2>4 DEF Owes
<1> QED
  BY <1>1, AnswersInvariant, PTL

=============================================================================
