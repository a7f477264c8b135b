--------------------------- MODULE ObserversProofs ---------------------------
(* Proofs about SystemStatus, SystemStatusOsObserver and the XTRA observer,    *)
(* for any networks, clients, items lists and length of the queue, whatever    *)
(* the daemon does.                                                            *)
EXTENDS XtraObserver, Integers, FiniteSetTheorems, TLAPS

----------------------------------------------------------------------------
(* The table of networks.                                                      *)

Injective(t) == \A i, j \in DOMAIN t : t[i] = t[j] => i = j

(* What the newest table has of the networks that are connected; g is the one  *)
(* the first event said was gone.                                              *)
Holds(t, on) ==
  /\ t \in Seq(Networks)
  /\ Injective(t)
  /\ Len(t) <= MaxHandles
  /\ Cardinality(Networks) <= MaxHandles => on \subseteq Range(t)
  /\ \E g \in Networks : Range(t) \ on \subseteq {g}

TablesInv ==
  /\ netReports \in Seq(NetworkInfo)
  /\ Len(netReports) <= MaxItem
  /\ online \subseteq Networks
  /\ netReports = <<>> => online = {}
  /\ netReports # <<>> => Holds(Last(netReports).table, online)

(* A sequence without repetition is as long as the set of its elements.        *)
LEMMA InjectiveCounts ==
  ASSUME NEW t \in Seq(Networks), Injective(t)
  PROVE  /\ IsFiniteSet(Range(t))
         /\ Cardinality(Range(t)) = Len(t)
<1> DEFINE D == 1 .. Len(t)
<1>1. Len(t) \in Nat /\ DOMAIN t = D
  OBVIOUS
<1>2. IsFiniteSet(D) /\ Cardinality(D) = Len(t)
  <2>1. IsFiniteSet(1 .. Len(t)) /\ Cardinality(1 .. Len(t)) = IF 1 > Len(t) THEN 0 ELSE Len(t) - 1 + 1
    BY <1>1, FS_Interval
  <2> QED  BY <2>1, <1>1
<1>3. t \in Injection(D, Range(t))
  <2>1. t \in [D -> Range(t)]
    BY <1>1 DEF Range
  <2>2. IsInjective(t)
    BY DEF Injective, IsInjective
  <2> QED  BY <2>1, <2>2 DEF Injection
<1>4. t \in Surjection(D, Range(t))
  BY <1>1 DEF Surjection, Range
<1>5. ExistsBijection(D, Range(t))
  BY <1>3, <1>4, Zenon DEF ExistsBijection, Bijection
<1> QED  BY <1>2, <1>5, FS_Bijection

LEMMA WithoutRemoves ==
  ASSUME NEW t \in Seq(Networks), Injective(t), NEW h \in Networks
  PROVE  /\ Without(t, h) \in Seq(Networks)
         /\ Injective(Without(t, h))
         /\ Len(Without(t, h)) <= Len(t)
         /\ Range(Without(t, h)) = Range(t) \ {h}
<1> DEFINE at == {i \in DOMAIN t : t[i] = h}
           w  == Without(t, h)
<1>1. Len(t) \in Nat /\ DOMAIN t = 1 .. Len(t) /\ \A i \in 1 .. Len(t) : t[i] \in Networks
  OBVIOUS
<1>2. CASE at = {}
  <2>1. Cardinality(at) = 0
    BY <1>2, FS_EmptySet
  <2>2. w = [i \in 1 .. Len(t) |-> t[i]]
    BY <1>1, <1>2, <2>1 DEF Without
  <2>3. w = t
    BY <1>1, <2>2
  <2>4. h \notin Range(t)
    BY <1>2 DEF Range
  <2> QED  BY <2>3, <2>4
<1>3. CASE at # {}
  <2>1. PICK k \in DOMAIN t : at = {k} /\ t[k] = h
    BY <1>3 DEF Injective
  <2>2. Cardinality(at) = 1
    BY <2>1, FS_Singleton
  <2>3. w = [i \in 1 .. Len(t) - 1 |-> IF i = k THEN t[Len(t)] ELSE t[i]]
    BY <1>1, <2>1, <2>2 DEF Without
  <2>4. Len(t) - 1 \in Nat /\ k \in 1 .. Len(t)
    BY <1>1, <2>1
  <2> HIDE DEF w, at
  <2>5. w \in Seq(Networks) /\ Len(w) = Len(t) - 1 /\ DOMAIN w = 1 .. Len(t) - 1
    BY <1>1, <2>3, <2>4
  <2>6. \A i \in 1 .. Len(t) - 1 : w[i] = IF i = k THEN t[Len(t)] ELSE t[i]
    BY <2>3
  <2>7. \A i, j \in 1 .. Len(t) : t[i] = t[j] => i = j
    BY <1>1 DEF Injective
  <2>8. Injective(w)
    BY <1>1, <2>4, <2>5, <2>6, <2>7 DEF Injective
  <2>9. \A x \in Range(w) : x \in Range(t) /\ x # h
    BY <1>1, <2>1, <2>4, <2>5, <2>6, <2>7 DEF Range
  <2>10. ASSUME NEW x \in Range(t), x # h  PROVE x \in Range(w)
    <3>1. PICK i \in 1 .. Len(t) : t[i] = x /\ i # k
      BY <1>1, <2>1, <2>10 DEF Range
    <3>2. CASE i = Len(t)
      <4>1. k \in 1 .. Len(t) - 1 /\ w[k] = x
        BY <3>1, <3>2, <2>4, <2>6
      <4> QED  BY <4>1, <2>5 DEF Range
    <3>3. CASE i # Len(t)
      <4>1. i \in 1 .. Len(t) - 1 /\ w[i] = x
        BY <3>1, <3>3, <2>4, <2>6
      <4> QED  BY <4>1, <2>5 DEF Range
    <3> QED  BY <3>2, <3>3
  <2> QED  BY <2>5, <2>8, <2>9, <2>10, <1>1 DEF w
<1> QED  BY <1>2, <1>3

LEMMA RawIsInfo ==
  ASSUME NEW c \in BOOLEAN, NEW h \in Networks
  PROVE  /\ Raw(c, h) \in NetworkInfo
         /\ Raw(c, h).connected = c /\ Raw(c, h).handle = h /\ Raw(c, h).table = <<h>>
<1>1. TypeOfNet[h] \in NetworkType
  BY StatusAssumption
<1>2. <<h>> \in Seq(Networks)
  OBVIOUS
<1> QED  BY <1>1, <1>2 DEF Raw, NetworkInfo

Now(on, c, h) == IF c THEN on \cup {h} ELSE on \ {h}

LEMMA CollateHolds ==
  ASSUME NEW cur \in NetworkInfo, NEW on \in SUBSET Networks, NEW c \in BOOLEAN, NEW h \in Networks,
         Holds(cur.table, on)
  PROVE  /\ Collate(cur, Raw(c, h)) \in NetworkInfo
         /\ Holds(Collate(cur, Raw(c, h)).table, Now(on, c, h))
<1> DEFINE new == Raw(c, h)
           t   == cur.table
           col == Collate(cur, new)
           type   == TypeOfNet[h]
           others == {i \in DOMAIN t : TypeOfNet[t[i]] = type /\ t[i] # h}
<1>1. new \in NetworkInfo /\ new.connected = c /\ new.handle = h
  BY RawIsInfo
<1>2. t \in Seq(Networks) /\ Injective(t) /\ Len(t) <= MaxHandles /\ Len(t) \in Nat /\ MaxHandles \in Nat
  BY StatusAssumption DEF Holds
<1>3. CASE c
  <2> DEFINE enter == h \notin Range(t) /\ Len(t) < MaxHandles
             t2    == IF enter THEN Append(t, h) ELSE t
  <2>1. col = [new EXCEPT !.allTypes = @ \cup cur.allTypes, !.table = t2]
    BY <1>1, <1>3 DEF Collate
  <2>2. t2 \in Seq(Networks)
    BY <1>2
  <2> HIDE DEF t2
  <2>3. col \in NetworkInfo /\ col.table = t2
    BY <2>1, <2>2, <1>1 DEF NetworkInfo
  <2>4. CASE enter
    <3>1. t2 = Append(t, h)
      BY <2>4 DEF t2
    <3>2. /\ Len(t2) = Len(t) + 1 /\ DOMAIN t2 = 1 .. Len(t) + 1 /\ DOMAIN t = 1 .. Len(t)
          /\ \A i \in 1 .. Len(t) : t2[i] = t[i]
          /\ t2[Len(t) + 1] = h
      BY <3>1, <1>2
    <3>3. \A i \in 1 .. Len(t) : t[i] # h
      BY <2>4, <3>2 DEF Range
    <3>4. Injective(t2)
      BY <3>2, <3>3, <1>2 DEF Injective
    <3>5. Range(t2) = Range(t) \cup {h}
      BY <3>2, <1>2 DEF Range
    <3>6. Len(t2) <= MaxHandles
      BY <3>2, <2>4, <1>2
    <3> QED  BY <2>2, <2>3, <3>4, <3>5, <3>6, <1>3 DEF Holds, Now
  <2>5. CASE ~enter
    <3>1. t2 = t
      BY <2>5 DEF t2
    <3>2. Cardinality(Networks) <= MaxHandles => h \in Range(t)
      <4> SUFFICES ASSUME Cardinality(Networks) <= MaxHandles, h \notin Range(t)  PROVE FALSE
        OBVIOUS
      <4>1. Len(t) = MaxHandles
        BY <2>5, <1>2
      <4>2. IsFiniteSet(Range(t)) /\ Cardinality(Range(t)) = Len(t)
        BY <1>2, InjectiveCounts
      <4>3. Range(t) \subseteq Networks /\ IsFiniteSet(Networks)
        BY <1>2, StatusAssumption DEF Range
      <4>4. Cardinality(Range(t) \cup {h}) = Len(t) + 1
        BY <4>2, FS_AddElement
      <4>5. Range(t) \cup {h} \subseteq Networks
        BY <4>3
      <4>6. Cardinality(Range(t) \cup {h}) <= Cardinality(Networks) /\ Cardinality(Networks) \in Nat
        BY <4>3, <4>5, FS_Subset, FS_CardinalityType
      <4> QED  BY <4>1, <4>4, <4>6, <1>2
    <3> QED  BY <2>3, <3>1, <3>2, <1>3 DEF Holds, Now
  <2> QED  BY <2>4, <2>5
<1>4. CASE ~c
  <2> DEFINE t2 == Without(t, h)
             at == IF others = {} THEN cur.allTypes \ new.allTypes ELSE new.allTypes
  <2>1. col = [new EXCEPT !.allTypes = at, !.table = t2]
    BY <1>1, <1>4 DEF Collate
  <2>2. /\ t2 \in Seq(Networks) /\ Injective(t2) /\ Len(t2) <= Len(t)
        /\ Range(t2) = Range(t) \ {h}
    BY <1>2, WithoutRemoves
  <2>3. at \in SUBSET NetworkType
    BY <1>1 DEF NetworkInfo
  <2> HIDE DEF t2, at
  <2>4. col \in NetworkInfo /\ col.table = t2
    BY <2>1, <2>2, <2>3, <1>1 DEF NetworkInfo
  <2>5. Len(t2) <= MaxHandles
    BY <2>2, <1>2
  <2> QED  BY <2>2, <2>4, <2>5, <1>4 DEF Holds, Now
<1> QED  BY <1>3, <1>4

LEMMA NewestIsLast ==
  ASSUME NEW s \in Seq(NetworkInfo), Len(s) <= MaxItem, NEW x \in NetworkInfo
  PROVE  /\ KeepNewest(s, x) \in Seq(NetworkInfo)
         /\ Len(KeepNewest(s, x)) <= MaxItem
         /\ KeepNewest(s, x) # <<>>
         /\ Last(KeepNewest(s, x)) = x
<1> DEFINE all == Append(s, x)
<1>1. /\ all \in Seq(NetworkInfo) /\ Len(all) = Len(s) + 1 /\ all[Len(s) + 1] = x
      /\ Len(s) \in Nat /\ MaxItem \in Nat \ {0}
  BY StatusAssumption
<1> HIDE DEF all
<1>2. CASE Len(all) > MaxItem
  <2>1. KeepNewest(s, x) = Tail(all)
    BY <1>2 DEF KeepNewest, all
  <2>2. Tail(all) \in Seq(NetworkInfo) /\ Len(Tail(all)) = Len(s) /\ Len(s) = MaxItem
    BY <1>1, <1>2
  <2>3. Tail(all)[Len(s)] = all[Len(s) + 1]
    BY <1>1, <2>2
  <2> QED  BY <1>1, <2>1, <2>2, <2>3 DEF Last
<1>3. CASE ~(Len(all) > MaxItem)
  <2>1. KeepNewest(s, x) = all
    BY <1>3 DEF KeepNewest, all
  <2> QED  BY <1>1, <1>3, <2>1 DEF Last
<1> QED  BY <1>2, <1>3

(* An event of a network keeps the table, whether or not it is news.           *)
LEMMA RecordKeepsTables ==
  ASSUME TablesInv, NEW c \in BOOLEAN, NEW h \in Networks, RecordNetwork(Raw(c, h))
  PROVE  TablesInv' /\ Collated(Raw(c, h)) \in NetworkInfo
<1> DEFINE new == Raw(c, h)
<1>1. new \in NetworkInfo /\ new.connected = c /\ new.handle = h /\ new.table = <<h>>
  BY RawIsInfo
<1>2. online' = Now(online, c, h) /\ online' \subseteq Networks
  BY <1>1 DEF RecordNetwork, Now, TablesInv
<1>3. netReports' = IF NetworkNews(new) THEN KeepNewest(netReports, Collated(new)) ELSE netReports
  BY DEF RecordNetwork
<1>4. Collated(new) \in NetworkInfo /\ Holds(Collated(new).table, online')
  <2>1. CASE netReports = <<>>
    <3>1. Collated(new) = new /\ online = {}
      BY <2>1 DEF Collated, TablesInv
    <3>2. /\ <<h>> \in Seq(Networks) /\ Len(<<h>>) = 1 /\ DOMAIN <<h>> = {1} /\ <<h>>[1] = h
      OBVIOUS
    <3>3. Injective(<<h>>) /\ Range(<<h>>) = {h} /\ Len(<<h>>) <= MaxHandles
      BY <3>2, StatusAssumption DEF Injective, Range
    <3>4. Cardinality(Networks) <= MaxHandles => online' \subseteq {h}
      BY <3>1, <1>2 DEF Now
    <3>5. {h} \ online' \subseteq {h}
      OBVIOUS
    <3> QED  BY <3>1, <3>2, <3>3, <3>4, <3>5, <1>1 DEF Holds
  <2>2. CASE netReports # <<>>
    <3>1. Last(netReports) \in NetworkInfo /\ Holds(Last(netReports).table, online)
      BY <2>2 DEF TablesInv, Last
    <3>2. Collated(new) = Collate(Last(netReports), new)
      BY <2>2 DEF Collated
    <3>3. online \in SUBSET Networks
      BY DEF TablesInv
    <3> QED  BY <3>1, <3>2, <3>3, <1>2, CollateHolds
  <2> QED  BY <2>1, <2>2
<1>5. CASE NetworkNews(new)
  <2>1. netReports' = KeepNewest(netReports, Collated(new))
    BY <1>3, <1>5
  <2>2. /\ netReports' \in Seq(NetworkInfo) /\ Len(netReports') <= MaxItem
        /\ netReports' # <<>> /\ Last(netReports') = Collated(new)
    BY <2>1, <1>4, NewestIsLast DEF TablesInv
  <2> QED  BY <2>2, <1>2, <1>4 DEF TablesInv
<1>6. CASE ~NetworkNews(new)
  <2>1. netReports' = netReports /\ netReports # <<>> /\ Last(netReports).table = Collated(new).table
    BY <1>3, <1>6 DEF NetworkNews, SameInfo
  <2>2. Holds(Last(netReports').table, online')
    BY <2>1, <1>4
  <2> QED  BY <2>1, <2>2, <1>2, <1>4 DEF TablesInv
<1> QED  BY <1>5, <1>6

LEMMA AtMostOne ==
  ASSUME NEW S, NEW g, S \subseteq {g}
  PROVE  Cardinality(S) <= 1
<1>1. S = {} \/ S = {g}
  OBVIOUS
<1>2. Cardinality({}) = 0 /\ Cardinality({g}) = 1
  BY FS_EmptySet, FS_Singleton
<1> QED  BY <1>1, <1>2

LEMMA TablesHold ==
  ASSUME TablesInv
  PROVE  TableHoldsOnline
<1> SUFFICES ASSUME netReports # <<>>
             PROVE  /\ Len(Last(netReports).table) = Cardinality(Range(Last(netReports).table))
                    /\ Cardinality(Networks) <= MaxHandles => online \subseteq Range(Last(netReports).table)
                    /\ Cardinality(Range(Last(netReports).table) \ online) <= 1
  BY Zenon DEF TableHoldsOnline
<1> DEFINE t == Last(netReports).table
<1>1. Holds(t, online)
  BY DEF TablesInv
<1> HIDE DEF t
<1>2. Cardinality(Range(t)) = Len(t)
  BY <1>1, InjectiveCounts DEF Holds
<1>3. PICK g \in Networks : Range(t) \ online \subseteq {g}
  BY <1>1 DEF Holds
<1>4. Cardinality(Range(t) \ online) <= 1
  BY <1>3, AtMostOne
<1>5. Len(t) = Cardinality(Range(t)) /\ (Cardinality(Networks) <= MaxHandles => online \subseteq Range(t))
  BY <1>1, <1>2 DEF Holds
<1> QED  BY <1>4, <1>5, Zenon DEF t

----------------------------------------------------------------------------
(* The types, and what a step may be.                                          *)

Known   == Values \cup NetworkInfo \cup {None}
RawInfo == {Raw(c, h) : c \in BOOLEAN, h \in Networks}
Message ==
  [type : {"subscribe"}, items : SUBSET Items, client : Clients, request : BOOLEAN]
    \cup [type : {"update", "unsubscribe"}, items : SUBSET Items, client : Clients]
    \cup [type : {"unsubscribeAll"}, client : Clients]
    \cup [type : {"setSubs"}]
    \cup [type : {"notify"}, item : Plain, value : Values]
    \cup [type : {"notify"}, item : {"network"}, value : RawInfo]
    \cup [type : {"turn"}, item : Plain, on : BOOLEAN]
    \cup [type : {"status"}, updated : {0, 1}]
    \cup [type : {"xtra"}, values : UNION {[D -> Known] : D \in SUBSET Items}]

IndexTypes ==
  /\ mClientToDataItems \in [Clients -> SUBSET Items]
  /\ mDataItemToClients \in [Items -> SUBSET Clients]
  /\ framework \subseteq Items
  /\ requested \subseteq Items
  /\ mSubscriptionObj \in BOOLEAN
TurnTypes ==
  /\ mActiveRequestCount \in [Items -> Nat]
  /\ turnedOn \subseteq Items
CacheTypes ==
  /\ reported \in [Plain -> Values \cup {None}]
  /\ mDataItemCache \in [Items -> Known]
  /\ seen \in [Clients -> [Items -> Known]]
  /\ DOMAIN know = Told
QueueTypes ==
  /\ msgs \in Seq(Message)
  /\ resetAt \in Nat
  /\ \A k \in DOMAIN msgs : msgs[k].type = "update" => world = "updates"

Typed == TablesInv /\ IndexTypes /\ TurnTypes /\ CacheTypes /\ QueueTypes

Kept == UNCHANGED <<world, statusVars, indexVars, frameVars, mDataItemCache, seen, know>>

Posts == \E m \in Message :
  /\ m.type \notin {"turn", "xtra"}
  /\ m.type = "update" => world = "updates"
  /\ msgs' = Append(msgs, m)
  /\ resetAt' \in Nat
  /\ Kept
Idles == msgs' = msgs /\ resetAt' \in Nat /\ Kept
Relocks == \E lock :
  /\ know' = Learnt([i \in {"lock"} |-> lock], know)
  /\ UNCHANGED <<world, statusVars, indexVars, frameVars, mDataItemCache, seen, msgs, resetAt>>
Turns == UNCHANGED know /\ \E item \in Plain : TurnOn(item) \/ TurnOff(item)
Handles == ObsHandlers /\ UNCHANGED know

LEMMA MessagesAreRecords ==
  /\ \A items \in SUBSET Items, c \in Clients, r \in BOOLEAN :
       [type |-> "subscribe", items |-> items, client |-> c, request |-> r] \in Message
  /\ \A items \in SUBSET Items, c \in Clients, t \in {"update", "unsubscribe"} :
       [type |-> t, items |-> items, client |-> c] \in Message
  /\ \A c \in Clients : [type |-> "unsubscribeAll", client |-> c] \in Message
  /\ [type |-> "setSubs"] \in Message
  /\ \A i \in Plain, v \in Values : [type |-> "notify", item |-> i, value |-> v] \in Message
  /\ \A c \in BOOLEAN, h \in Networks :
       [type |-> "notify", item |-> "network", value |-> Raw(c, h)] \in Message
  /\ \A i \in Plain, b \in BOOLEAN : [type |-> "turn", item |-> i, on |-> b] \in Message
  /\ \A u \in {0, 1} : [type |-> "status", updated |-> u] \in Message
<1>1. \A items \in SUBSET Items, c \in Clients, r \in BOOLEAN :
       [type |-> "subscribe", items |-> items, client |-> c, request |-> r] \in Message
  BY DEF Message
<1>2. \A items \in SUBSET Items, c \in Clients, t \in {"update", "unsubscribe"} :
       [type |-> t, items |-> items, client |-> c] \in Message
  BY DEF Message
<1>3. \A c \in Clients : [type |-> "unsubscribeAll", client |-> c] \in Message
  BY DEF Message
<1>4. [type |-> "setSubs"] \in Message
  BY DEF Message
<1>5. \A i \in Plain, v \in Values : [type |-> "notify", item |-> i, value |-> v] \in Message
  BY DEF Message
<1>6. \A c \in BOOLEAN, h \in Networks :
       [type |-> "notify", item |-> "network", value |-> Raw(c, h)] \in Message
  <2>1. \A c \in BOOLEAN, h \in Networks : Raw(c, h) \in RawInfo
    BY DEF RawInfo
  <2>2. \A v \in RawInfo : [type |-> "notify", item |-> "network", value |-> v] \in Message
    BY DEF Message
  <2>3. ASSUME NEW c \in BOOLEAN, NEW h \in Networks
        PROVE  [type |-> "notify", item |-> "network", value |-> Raw(c, h)] \in Message
    <3>1. Raw(c, h) \in RawInfo
      BY <2>1
    <3> QED  BY <2>2, <3>1
  <2> QED  BY <2>3
<1>7. \A i \in Plain, b \in BOOLEAN : [type |-> "turn", item |-> i, on |-> b] \in Message
  BY DEF Message
<1>8. \A u \in {0, 1} : [type |-> "status", updated |-> u] \in Message
  BY DEF Message
<1> QED  BY <1>1, <1>2, <1>3, <1>4, <1>5, <1>6, <1>7, <1>8 

LEMMA MessageFields ==
  ASSUME NEW m \in Message
  PROVE  /\ m.type \in {"subscribe", "update", "unsubscribe"} =>
              m.items \in SUBSET Items /\ m.client \in Clients
         /\ m.type = "subscribe" => m.request \in BOOLEAN
         /\ m.type = "unsubscribeAll" => m.client \in Clients
         /\ m.type = "notify" =>
              \/ m.item \in Plain /\ m.value \in Values
              \/ m.item = "network" /\ m.value \in RawInfo
         /\ m.type = "turn" => m.item \in Plain /\ m.on \in BOOLEAN
         /\ m.type = "xtra" => /\ DOMAIN m.values \in SUBSET Items
                               /\ m.values \in [DOMAIN m.values -> Known]
<1>1. CASE m \in [type : {"subscribe"}, items : SUBSET Items, client : Clients, request : BOOLEAN]
  BY <1>1
<1>2. CASE m \in [type : {"update", "unsubscribe"}, items : SUBSET Items, client : Clients]
  BY <1>2
<1>3. CASE m \in [type : {"unsubscribeAll"}, client : Clients]
  BY <1>3
<1>4. CASE m \in [type : {"setSubs"}]
  BY <1>4
<1>5. CASE m \in [type : {"notify"}, item : Plain, value : Values]
  BY <1>5
<1>6. CASE m \in [type : {"notify"}, item : {"network"}, value : RawInfo]
  BY <1>6
<1>7. CASE m \in [type : {"turn"}, item : Plain, on : BOOLEAN]
  BY <1>7
<1>8. CASE m \in [type : {"status"}, updated : {0, 1}]
  BY <1>8
<1>9. CASE m \in [type : {"xtra"}, values : UNION {[D -> Known] : D \in SUBSET Items}]
  <2>1. m.type = "xtra" /\ m.values \in UNION {[D -> Known] : D \in SUBSET Items}
    BY <1>9
  <2>2. PICK D \in SUBSET Items : m.values \in [D -> Known]
    BY <2>1
  <2>3. DOMAIN m.values = D
    BY <2>2
  <2> QED  BY <2>1, <2>2, <2>3
<1> QED  BY <1>1, <1>2, <1>3, <1>4, <1>5, <1>6, <1>7, <1>8, <1>9 DEF Message

LEMMA CallsPost ==
  ASSUME Typed, ObsCalls, UNCHANGED know
  PROVE  Posts \/ Idles \/ Turns
<1>1. resetAt \in Nat
  BY DEF Typed, QueueTypes
<1>2. ASSUME NEW c \in Others, NEW items \in ItemLists, NEW request \in BOOLEAN, Subscribe(c, items, request)
      PROVE  Posts
  <2>1. items \in SUBSET Items /\ c \in Clients
    BY ListsAssumption DEF Clients
  <2>2. [type |-> "subscribe", items |-> items, client |-> c, request |-> request] \in Message
    BY <2>1, MessagesAreRecords
  <2> QED  BY <1>1, <1>2, <2>2 DEF Subscribe, Post, Sub, CallUnchanged, Posts, Kept
<1>3. ASSUME NEW c \in Others, NEW items \in ItemLists, UpdateSubscription(c, items)
      PROVE  Posts
  <2>1. items \in SUBSET Items /\ c \in Clients
    BY ListsAssumption DEF Clients
  <2>2. [type |-> "update", items |-> items, client |-> c] \in Message
    BY <2>1, MessagesAreRecords
  <2> QED  BY <1>1, <1>3, <2>2 DEF UpdateSubscription, Event, Post, CallUnchanged, Posts, Kept
<1>4. ASSUME NEW c \in Others, NEW items \in ItemLists, Unsubscribe(c, items)
      PROVE  Posts
  <2>1. items \in SUBSET Items /\ c \in Clients
    BY ListsAssumption DEF Clients
  <2>2. [type |-> "unsubscribe", items |-> items, client |-> c] \in Message
    BY <2>1, MessagesAreRecords
  <2> QED  BY <1>1, <1>4, <2>2 DEF Unsubscribe, Post, CallUnchanged, Posts, Kept
<1>5. ASSUME NEW c \in Others, UnsubscribeAll(c)
      PROVE  Posts
  <2>1. [type |-> "unsubscribeAll", client |-> c] \in Message
    BY MessagesAreRecords DEF Clients
  <2> QED  BY <1>1, <1>5, <2>1 DEF UnsubscribeAll, Post, CallUnchanged, Posts, Kept
<1>6. ASSUME NEW item \in Plain, NEW value \in Values, NotifyPlain(item, value)
      PROVE  Posts
  <2>1. [type |-> "notify", item |-> item, value |-> value] \in Message
    BY MessagesAreRecords
  <2> QED  BY <1>1, <1>6, <2>1 DEF NotifyPlain, Post, CallUnchanged, Posts, Kept
<1>7. ASSUME NEW connected \in BOOLEAN, NEW handle \in Networks, EventConnectionStatus(connected, handle)
      PROVE  Posts
  <2>1. [type |-> "notify", item |-> "network", value |-> Raw(connected, handle)] \in Message
    BY MessagesAreRecords
  <2> QED  BY <1>1, <1>7, <2>1 DEF EventConnectionStatus, Post, CallUnchanged, Posts, Kept
<1>8. CASE SetSubscriptionObj
  <2>1. [type |-> "setSubs"] \in Message
    BY MessagesAreRecords
  <2> QED  BY <1>1, <1>8, <2>1 DEF SetSubscriptionObj, Post, CallUnchanged, Posts, Kept
<1>9. CASE ResetBegins
  BY <1>9 DEF ResetBegins, Idles, Kept
<1>10. CASE ResetNetworkInfo
  <2>1. CASE resetAt <= Len(netReports)
    <3> DEFINE handle == netReports[resetAt].handle
    <3>1. netReports[resetAt] \in NetworkInfo
      BY <1>1, <1>10, <2>1 DEF ResetNetworkInfo, Typed, TablesInv
    <3>2. handle \in Networks
      BY <3>1 DEF NetworkInfo
    <3> HIDE DEF handle
    <3> DEFINE m == [type |-> "notify", item |-> "network", value |-> Raw(FALSE, handle)]
    <3>3. m \in Message /\ m.type = "notify"
      BY <3>2, MessagesAreRecords
    <3>4. /\ msgs' = Append(msgs, m)
          /\ resetAt' = resetAt + 1
          /\ Kept
      BY <1>10, <2>1 DEF ResetNetworkInfo, Post, Kept, handle
    <3> HIDE DEF m
    <3> QED  BY <1>1, <3>3, <3>4 DEF Posts
  <2>2. CASE ~(resetAt <= Len(netReports))
    BY <1>10, <2>2 DEF ResetNetworkInfo, Idles, Kept
  <2> QED  BY <2>1, <2>2
<1>11. ASSUME NEW item \in Plain, TurnOn(item) \/ TurnOff(item)
       PROVE  Turns
  BY <1>11 DEF Turns
<1> QED  BY <1>2, <1>3, <1>4, <1>5, <1>6, <1>7, <1>8, <1>9, <1>10, <1>11, Zenon DEF ObsCalls

(* What a step may do that the rest of this module's first part is about.      *)
LEMMA StepCases ==
  ASSUME Typed, [Next]_vars
  PROVE  Posts \/ Idles \/ Turns \/ Relocks \/ Handles \/ XtraHandlers
<1>1. resetAt \in Nat
  BY DEF Typed, QueueTypes
<1>2. CASE ObsStep
  <2>1. UNCHANGED know /\ (ObsCalls \/ ObsHandlers)
    BY <1>2 DEF ObsStep, xtraVars
  <2> QED  BY <2>1, CallsPost DEF Handles
<1>3. ASSUME NEW lock \in Locks, UpdateLockStatus(lock)
      PROVE  Relocks
  BY <1>3 DEF UpdateLockStatus, Update, Relocks, statusVars, indexVars, frameVars
<1> USE DEF Idles, Kept, xtraVars, dgnssVars
<1>4. CASE DelayExpires
  BY <1>1, <1>4 DEF DelayExpires, obsVars
<1>5. CASE DaemonStarts \/ DaemonDies \/ DaemonReads
  BY <1>1, <1>5 DEF DaemonStarts, DaemonDies, DaemonReads, DaemonUnchanged
<1>6. CASE DaemonAsks \/ DaemonIsUpToDate
  <2>1. PICK u \in {0, 1} : Ask(u) /\ DaemonUnchanged
    BY <1>6 DEF DaemonAsks, DaemonIsUpToDate
  <2>2. [type |-> "status", updated |-> u] \in Message
    BY MessagesAreRecords
  <2> QED  BY <1>1, <2>1, <2>2 DEF Ask, Post, DaemonUnchanged, Posts
<1>7. ASSUME NEW kinds, Sourcing(kinds)
      PROVE  Idles
  BY <1>1, <1>7 DEF Sourcing
<1>8. ASSUME NEW p \in Params, HandleEnablePPENtrip(p)
      PROVE  Idles
  BY <1>7, <1>8, Zenon DEF HandleEnablePPENtrip
<1>9. CASE HandleDisablePPENtrip
  BY <1>7, <1>9, Zenon DEF HandleDisablePPENtrip
<1>10. ASSUME NEW accepted \in BOOLEAN, UpdateConsent(accepted)
       PROVE  Idles
  BY <1>7, <1>10, Zenon DEF UpdateConsent
<1>11. CASE StartSession \/ StopSession
  BY <1>7, <1>11, Zenon DEF StartSession, StopSession
<1>12. ASSUME NEW ok \in BOOLEAN, SessionAnswered(ok)
       PROVE  Idles
  BY <1>1, <1>12 DEF SessionAnswered, obsVars
<1>13. ASSUME NEW valid \in BOOLEAN, ReportGGAToNtrip(valid)
       PROVE  Idles
  BY <1>7, <1>13, Zenon DEF ReportGGAToNtrip
<1>14. CASE UNCHANGED vars
  BY <1>1, <1>14 DEF vars, obsVars
<1> QED  BY <1>2, <1>3, <1>4, <1>5, <1>6, <1>8, <1>9, <1>10, <1>11, <1>12, <1>13, <1>14, Zenon DEF Next

LEMMA AppendFacts ==
  ASSUME NEW S, NEW s \in Seq(S), NEW m \in S
  PROVE  /\ Append(s, m) \in Seq(S)
         /\ Len(s) \in Nat /\ Len(Append(s, m)) = Len(s) + 1
         /\ DOMAIN s = 1 .. Len(s) /\ DOMAIN Append(s, m) = 1 .. Len(s) + 1
         /\ \A k \in 1 .. Len(s) : Append(s, m)[k] = s[k]
         /\ Append(s, m)[Len(s) + 1] = m
  OBVIOUS

LEMMA TailFacts ==
  ASSUME NEW S, NEW s \in Seq(S), s # <<>>
  PROVE  /\ s[1] \in S
         /\ Tail(s) \in Seq(S)
         /\ Len(s) \in Nat /\ Len(s) >= 1 /\ Len(Tail(s)) = Len(s) - 1
         /\ DOMAIN s = 1 .. Len(s) /\ DOMAIN Tail(s) = 1 .. Len(s) - 1
         /\ \A k \in 1 .. Len(s) - 1 : Tail(s)[k] = s[k + 1]
  OBVIOUS

(* What is left of the queue when its head is taken.                           *)
LEMMA TailIsTyped ==
  ASSUME QueueTypes, msgs # <<>>
  PROVE  /\ msgs[1] \in Message
         /\ Tail(msgs) \in Seq(Message)
         /\ \A k \in DOMAIN Tail(msgs) : Tail(msgs)[k].type = "update" => world = "updates"
         /\ msgs[1].type = "update" => world = "updates"
<1>1. msgs \in Seq(Message) /\ \A k \in DOMAIN msgs : msgs[k].type = "update" => world = "updates"
  BY DEF QueueTypes
<1>2. /\ msgs[1] \in Message /\ Tail(msgs) \in Seq(Message)
      /\ Len(msgs) \in Nat /\ Len(msgs) >= 1
      /\ DOMAIN msgs = 1 .. Len(msgs) /\ DOMAIN Tail(msgs) = 1 .. Len(msgs) - 1
      /\ \A k \in 1 .. Len(msgs) - 1 : Tail(msgs)[k] = msgs[k + 1]
  BY <1>1, TailFacts
<1>3. ASSUME NEW k \in DOMAIN Tail(msgs)
      PROVE  k + 1 \in DOMAIN msgs /\ Tail(msgs)[k] = msgs[k + 1]
  BY <1>2
<1>4. 1 \in DOMAIN msgs
  BY <1>2
<1> QED  BY <1>1, <1>2, <1>3, <1>4

(* What is told to the XTRA observer: what the cache now holds of its items.   *)
Copies(x, items) ==
  /\ x \in Message
  /\ x.type = "xtra"
  /\ DOMAIN x.values = {i \in items : mDataItemCache'[i] # None}
  /\ \A i \in DOMAIN x.values : x.values[i] = mDataItemCache'[i]

LEMMA ForwardedIs ==
  ASSUME NEW items \in SUBSET Items, mDataItemCache' \in [Items -> Known]
  PROVE  \/ /\ \A i \in items : mDataItemCache'[i] = None
            /\ Forwarded(items) = Tail(msgs)
         \/ \E x : Copies(x, items) /\ Forwarded(items) = Append(Tail(msgs), x)
<1> DEFINE news == {i \in items : mDataItemCache'[i] # None}
           v    == [i \in news |-> mDataItemCache'[i]]
           x    == [type |-> "xtra", values |-> v]
<1>1. Forwarded(items) = IF news = {} THEN Tail(msgs) ELSE Append(Tail(msgs), x)
  BY DEF Forwarded
<1>2. news \in SUBSET Items
  OBVIOUS
<1>3. v \in [news -> Known] /\ DOMAIN v = news /\ \A i \in news : v[i] = mDataItemCache'[i]
  OBVIOUS
<1> HIDE DEF v
<1>4. v \in UNION {[D -> Known] : D \in SUBSET Items}
  BY <1>2, <1>3
<1>5. x \in Message /\ x.type = "xtra" /\ x.values = v
  BY <1>4 DEF Message
<1>6. Copies(x, items)
  BY <1>3, <1>5 DEF Copies
<1>7. news = {} => \A i \in items : mDataItemCache'[i] = None
  OBVIOUS
<1> HIDE DEF news, x
<1> QED  BY <1>1, <1>6, <1>7

LEMMA ServeIsTyped ==
  ASSUME CacheTypes, QueueTypes, msgs # <<>>, mDataItemCache' \in [Items -> Known],
         NEW items \in [Clients -> SUBSET Items], Serve(items)
  PROVE  /\ seen' \in [Clients -> [Items -> Known]]
         /\ msgs' \in Seq(Message)
         /\ \A k \in DOMAIN msgs' : msgs'[k].type = "update" => world = "updates"
<1>1. seen' = Served(items) /\ msgs' = Forwarded(items[Xtra])
  BY DEF Serve
<1>2. seen' \in [Clients -> [Items -> Known]]
  BY <1>1 DEF Served, CacheTypes
<1>3. items[Xtra] \in SUBSET Items
  BY DEF Clients
<1>4. /\ Tail(msgs) \in Seq(Message)
      /\ \A k \in DOMAIN Tail(msgs) : Tail(msgs)[k].type = "update" => world = "updates"
  BY TailIsTyped
<1>5. CASE msgs' = Tail(msgs)
  BY <1>2, <1>4, <1>5
<1>6. ASSUME NEW x, Copies(x, items[Xtra]), msgs' = Append(Tail(msgs), x)
      PROVE  /\ msgs' \in Seq(Message)
             /\ \A k \in DOMAIN msgs' : msgs'[k].type = "update" => world = "updates"
  <2> DEFINE s == Tail(msgs)
  <2>1. x \in Message /\ x.type = "xtra"
    BY <1>6 DEF Copies
  <2>2. /\ msgs' \in Seq(Message)
        /\ Len(s) \in Nat /\ DOMAIN s = 1 .. Len(s) /\ DOMAIN msgs' = 1 .. Len(s) + 1
        /\ \A k \in 1 .. Len(s) : msgs'[k] = s[k]
        /\ msgs'[Len(s) + 1] = x
    BY <1>4, <1>6, <2>1, AppendFacts
  <2> HIDE DEF s
  <2>3. \A k \in DOMAIN msgs' : k \in DOMAIN s \/ k = Len(s) + 1
    BY <2>2
  <2> QED  BY <1>4, <2>1, <2>2, <2>3 DEF s
<1> QED  BY <1>1, <1>2, <1>3, <1>5, <1>6, ForwardedIs

(* A handler that serves nobody.                                               *)
LEMMA TailKeepsQueue ==
  ASSUME QueueTypes, msgs # <<>>, msgs' = Tail(msgs), UNCHANGED <<world, resetAt>>
  PROVE  QueueTypes'
BY TailIsTyped DEF QueueTypes

LEMMA SubscribeIsTyped ==
  ASSUME Typed, HandleSubscribeReq, UNCHANGED know
  PROVE  Typed'
<1>1. msgs # <<>> /\ Msg \in Message /\ Msg.type = "subscribe"
  BY TailIsTyped DEF HandleSubscribeReq, Receives, Msg, Typed
<1>2. Msg.items \in SUBSET Items /\ Msg.client \in Clients
  BY <1>1, MessageFields
<1>3. OnlyTo(Msg.client, Msg.items) \in [Clients -> SUBSET Items]
  BY <1>2 DEF OnlyTo
<1>4. mDataItemCache' = mDataItemCache /\ mDataItemCache' \in [Items -> Known]
  BY DEF HandleSubscribeReq, Typed, CacheTypes
<1>5. /\ seen' \in [Clients -> [Items -> Known]]
      /\ msgs' \in Seq(Message)
      /\ \A k \in DOMAIN msgs' : msgs'[k].type = "update" => world = "updates"
  BY <1>1, <1>3, <1>4, ServeIsTyped DEF HandleSubscribeReq, Typed
<1>6. QueueTypes' /\ CacheTypes'
  BY <1>4, <1>5 DEF HandleSubscribeReq, Typed, QueueTypes, CacheTypes, statusVars
<1>7. IndexTypes'
  BY <1>2 DEF HandleSubscribeReq, Typed, IndexTypes, Add, New, frameVars
<1>8. TablesInv' /\ TurnTypes'
  BY DEF HandleSubscribeReq, Typed, TablesInv, TurnTypes, statusVars, frameVars
<1> QED  BY <1>6, <1>7, <1>8 DEF Typed

LEMMA UpdateIsTyped ==
  ASSUME Typed, HandleUpdateSubscriptionReq, UNCHANGED know
  PROVE  Typed'
<1>1. msgs # <<>> /\ Msg \in Message /\ Msg.type = "update"
  BY TailIsTyped DEF HandleUpdateSubscriptionReq, Receives, Msg, Typed
<1>2. Msg.items \in SUBSET Items /\ Msg.client \in Clients
  BY <1>1, MessageFields
<1>3. PICK common \in SUBSET (mClientToDataItems[Msg.client] \cap Msg.items) :
        /\ mClientToDataItems' = [mClientToDataItems EXCEPT ![Msg.client] = Msg.items]
        /\ mDataItemToClients' = [i \in Items |->
             IF i \in common THEN mDataItemToClients[i] \ {Msg.client}
             ELSE IF i \in Msg.items THEN mDataItemToClients[i] \cup {Msg.client}
             ELSE mDataItemToClients[i]]
        /\ framework' = IF mSubscriptionObj
                        THEN (framework \cup New(Msg.items \ common)) \ Unused(common)
                        ELSE framework
        /\ UNCHANGED <<mDataItemCache, requested>>
        /\ Serve(OnlyTo(Msg.client, Msg.items \ common))
  BY DEF HandleUpdateSubscriptionReq
<1>4. OnlyTo(Msg.client, Msg.items \ common) \in [Clients -> SUBSET Items]
  BY <1>2 DEF OnlyTo
<1>5. mDataItemCache' = mDataItemCache /\ mDataItemCache' \in [Items -> Known]
  BY <1>3 DEF Typed, CacheTypes
<1>6. UNCHANGED <<world, statusVars, frameVars, resetAt>>
  BY DEF HandleUpdateSubscriptionReq
<1>7. /\ seen' \in [Clients -> [Items -> Known]]
      /\ msgs' \in Seq(Message)
      /\ \A k \in DOMAIN msgs' : msgs'[k].type = "update" => world = "updates"
  BY <1>1, <1>3, <1>4, <1>5, ServeIsTyped DEF Typed
<1>8. QueueTypes' /\ CacheTypes'
  BY <1>5, <1>6, <1>7 DEF Typed, QueueTypes, CacheTypes, statusVars
<1>9. /\ mClientToDataItems' \in [Clients -> SUBSET Items]
      /\ mDataItemToClients' \in [Items -> SUBSET Clients]
  BY <1>2, <1>3 DEF Typed, IndexTypes
<1>10. framework' \subseteq Items
  BY <1>2, <1>3 DEF Typed, IndexTypes, New
<1>11. IndexTypes'
  BY <1>3, <1>6, <1>9, <1>10 DEF Typed, IndexTypes, frameVars
<1>12. TablesInv' /\ TurnTypes'
  BY <1>6 DEF Typed, TablesInv, TurnTypes, statusVars, frameVars
<1> QED  BY <1>8, <1>11, <1>12 DEF Typed

(* unsubscribe and unsubscribeAll.                                             *)
LEMMA WithdrawIs ==
  ASSUME Typed, HandleUnsubscribeReq \/ HandleUnsubscribeAllReq
  PROVE  /\ msgs # <<>>
         /\ \E c \in Clients, items \in SUBSET Items : Withdraw(c, items)
         /\ msgs[1].type \in {"unsubscribe", "unsubscribeAll"}
<1>1. msgs # <<>> /\ Msg \in Message /\ Msg.type \in {"unsubscribe", "unsubscribeAll"}
  BY TailIsTyped DEF HandleUnsubscribeReq, HandleUnsubscribeAllReq, Receives, Msg, Typed
<1>2. CASE HandleUnsubscribeReq
  <2>1. Msg.items \in SUBSET Items /\ Msg.client \in Clients
    BY <1>1, <1>2, MessageFields DEF HandleUnsubscribeReq, Receives, Msg
  <2> QED  BY <1>1, <1>2, <2>1 DEF HandleUnsubscribeReq, Msg
<1>3. CASE HandleUnsubscribeAllReq
  <2>1. Msg.client \in Clients
    BY <1>1, <1>3, MessageFields DEF HandleUnsubscribeAllReq, Receives, Msg
  <2>2. mClientToDataItems[Msg.client] \in SUBSET Items
    BY <2>1 DEF Typed, IndexTypes
  <2> QED  BY <1>1, <1>3, <2>1, <2>2 DEF HandleUnsubscribeAllReq, Msg
<1> QED  BY <1>2, <1>3

LEMMA WithdrawIsTyped ==
  ASSUME Typed, msgs # <<>>, NEW c \in Clients, NEW items \in SUBSET Items, Withdraw(c, items),
         UNCHANGED know
  PROVE  Typed'
<1>1. QueueTypes'
  BY TailKeepsQueue DEF Withdraw, Typed
<1>2. CacheTypes' /\ TablesInv' /\ TurnTypes'
  BY DEF Withdraw, Typed, CacheTypes, TablesInv, TurnTypes, statusVars, frameVars
<1>3. IndexTypes'
  BY DEF Withdraw, Trim, Typed, IndexTypes, frameVars
<1> QED  BY <1>1, <1>2, <1>3 DEF Typed

LEMMA SetSubsIsTyped ==
  ASSUME Typed, HandleSetSubsObj, UNCHANGED know
  PROVE  Typed'
<1>1. QueueTypes'
  BY TailKeepsQueue DEF HandleSetSubsObj, Receives, Typed
<1>2. CacheTypes' /\ TablesInv' /\ TurnTypes'
  BY DEF HandleSetSubsObj, Typed, CacheTypes, TablesInv, TurnTypes, statusVars
<1>3. IndexTypes'
  BY DEF HandleSetSubsObj, Typed, IndexTypes
<1> QED  BY <1>1, <1>2, <1>3 DEF Typed

LEMMA HandleTurnIsTyped ==
  ASSUME Typed, HandleTurn, UNCHANGED know
  PROVE  Typed'
<1>1. msgs # <<>> /\ Msg \in Message /\ Msg.type = "turn"
  BY TailIsTyped DEF HandleTurn, Receives, Msg, Typed
<1>2. Msg.item \in Items
  BY <1>1, MessageFields DEF Items
<1>3. QueueTypes'
  BY <1>1, TailKeepsQueue DEF HandleTurn, Typed
<1>4. CacheTypes' /\ TablesInv' /\ IndexTypes'
  BY DEF HandleTurn, Typed, CacheTypes, TablesInv, IndexTypes, statusVars, indexVars
<1>5. TurnTypes'
  BY <1>2 DEF HandleTurn, Typed, TurnTypes
<1> QED  BY <1>3, <1>4, <1>5 DEF Typed

(* What a notification does: the tables are kept, and either it is news, which *)
(* the cache takes and the subscribers are served, or it is dropped.           *)
Newly(item, value) ==
  /\ mDataItemCache' = [mDataItemCache EXCEPT ![item] = value]
  /\ ServeSubscribers(item)
Dropped == UNCHANGED <<mDataItemCache, seen>> /\ msgs' = Tail(msgs)

LEMMA NotifyIs ==
  ASSUME Typed, HandleNotify
  PROVE  /\ msgs # <<>> /\ msgs[1].type = "notify"
         /\ TablesInv'
         /\ reported' \in [Plain -> Values \cup {None}]
         /\ Dropped \/ \E item \in Items, value \in Values \cup NetworkInfo : Newly(item, value)
         /\ UNCHANGED <<world, indexVars, frameVars, resetAt>>
<1>1. msgs # <<>> /\ Msg \in Message /\ Msg.type = "notify" /\ Msg = msgs[1]
  BY TailIsTyped DEF HandleNotify, Receives, Msg, Typed
<1>2. UNCHANGED <<world, indexVars, frameVars, resetAt>>
  BY DEF HandleNotify
<1>3. CASE Msg.item \in Plain /\ Msg.value \in Values
  <2>1. Msg.item # "network" /\ Msg.item \in Items
    BY <1>3 DEF Plain, Items
  <2>2. RecordPlain(Msg.item, Msg.value)
    BY <2>1 DEF HandleNotify
  <2>3. TablesInv'
    BY <2>2 DEF RecordPlain, TablesInv, Typed
  <2>4. reported' \in [Plain -> Values \cup {None}]
    BY <1>3, <2>2 DEF RecordPlain, Typed, CacheTypes
  <2>5. Newly(Msg.item, Msg.value) \/ Dropped
    BY <2>1 DEF HandleNotify, Newly, Dropped
  <2> QED  BY <1>1, <1>2, <1>3, <2>1, <2>3, <2>4, <2>5
<1>4. CASE Msg.item = "network" /\ Msg.value \in RawInfo
  <2>1. PICK c \in BOOLEAN, h \in Networks : Msg.value = Raw(c, h)
    BY <1>4 DEF RawInfo
  <2>2. RecordNetwork(Raw(c, h))
    BY <1>4, <2>1 DEF HandleNotify
  <2>3. TablesInv' /\ Collated(Raw(c, h)) \in NetworkInfo
    BY <2>2, RecordKeepsTables DEF Typed
  <2>4. reported' \in [Plain -> Values \cup {None}]
    BY <2>2 DEF RecordNetwork, Typed, CacheTypes
  <2>5. Newly("network", Collated(Raw(c, h))) \/ Dropped
    BY <1>4, <2>1 DEF HandleNotify, Newly, Dropped
  <2>6. "network" \in Items
    BY DEF Items
  <2> QED  BY <1>1, <1>2, <2>3, <2>4, <2>5, <2>6
<1> QED  BY <1>1, <1>3, <1>4, MessageFields

Subscribed(item) ==
  [c \in Clients |-> IF c \in mDataItemToClients[item] THEN mClientToDataItems[c] \cap {item} ELSE {}]

LEMMA NotifyIsTyped ==
  ASSUME Typed, HandleNotify, UNCHANGED know
  PROVE  Typed'
<1>1. /\ msgs # <<>>
      /\ TablesInv'
      /\ reported' \in [Plain -> Values \cup {None}]
      /\ Dropped \/ \E item \in Items, value \in Values \cup NetworkInfo : Newly(item, value)
      /\ UNCHANGED <<world, indexVars, frameVars, resetAt>>
  BY NotifyIs
<1>2. IndexTypes' /\ TurnTypes'
  BY <1>1 DEF Typed, IndexTypes, TurnTypes, indexVars, frameVars
<1>3. CASE Dropped
  <2>1. QueueTypes'
    BY <1>1, <1>3, TailKeepsQueue DEF Dropped, Typed
  <2>2. CacheTypes'
    BY <1>1, <1>3 DEF Dropped, Typed, CacheTypes
  <2> QED  BY <1>1, <1>2, <2>1, <2>2 DEF Typed
<1>4. ASSUME NEW item \in Items, NEW value \in Values \cup NetworkInfo, Newly(item, value)
      PROVE  Typed'
  <2>1. mDataItemCache' \in [Items -> Known]
    BY <1>4 DEF Newly, Typed, CacheTypes, Known
  <2>2. Subscribed(item) \in [Clients -> SUBSET Items]
    BY <1>4 DEF Subscribed, Typed, IndexTypes
  <2>3. Serve(Subscribed(item))
    BY <1>4 DEF Newly, ServeSubscribers, Subscribed
  <2>4. /\ seen' \in [Clients -> [Items -> Known]]
        /\ msgs' \in Seq(Message)
        /\ \A k \in DOMAIN msgs' : msgs'[k].type = "update" => world = "updates"
    BY <1>1, <2>1, <2>2, <2>3, ServeIsTyped DEF Typed
  <2>5. QueueTypes' /\ CacheTypes'
    BY <1>1, <2>1, <2>4 DEF Typed, QueueTypes, CacheTypes
  <2> QED  BY <1>1, <1>2, <2>5 DEF Typed
<1> QED  BY <1>1, <1>3, <1>4

LEMMA PostIsTyped ==
  ASSUME QueueTypes, NEW m \in Message, m.type = "update" => world = "updates",
         msgs' = Append(msgs, m), resetAt' \in Nat, UNCHANGED world
  PROVE  QueueTypes'
<1>1. /\ msgs' \in Seq(Message)
      /\ Len(msgs) \in Nat /\ DOMAIN msgs = 1 .. Len(msgs) /\ DOMAIN msgs' = 1 .. Len(msgs) + 1
      /\ \A k \in 1 .. Len(msgs) : msgs'[k] = msgs[k]
      /\ msgs'[Len(msgs) + 1] = m
  BY AppendFacts DEF QueueTypes
<1>2. \A k \in DOMAIN msgs' : k \in DOMAIN msgs \/ k = Len(msgs) + 1
  BY <1>1
<1> QED  BY <1>1, <1>2 DEF QueueTypes

LEMMA TypedStep ==
  ASSUME Typed, [Next]_vars
  PROVE  Typed'
<1>1. CASE Posts
  <2>1. PICK m \in Message : /\ m.type = "update" => world = "updates"
                             /\ msgs' = Append(msgs, m) /\ resetAt' \in Nat
    BY <1>1 DEF Posts
  <2>2. Kept
    BY <1>1 DEF Posts
  <2>3. QueueTypes'
    BY <2>1, <2>2, PostIsTyped DEF Kept, Typed
  <2> QED  BY <2>2, <2>3 DEF Kept, Typed, TablesInv, IndexTypes, TurnTypes, CacheTypes,
              statusVars, indexVars, frameVars
<1>2. CASE Idles
  BY <1>2 DEF Idles, Kept, Typed, TablesInv, IndexTypes, TurnTypes, CacheTypes, QueueTypes,
              statusVars, indexVars, frameVars
<1>3. CASE Turns
  <2>1. PICK item \in Plain : TurnOn(item) \/ TurnOff(item)
    BY <1>3 DEF Turns
  <2>2. item \in Items /\ UNCHANGED know
    BY <1>3 DEF Items, Turns
  <2>3. \A b \in BOOLEAN : [type |-> "turn", item |-> item, on |-> b] \in Message
    BY MessagesAreRecords
  <2>4. QueueTypes'
    <3>1. CASE msgs' = msgs
      BY <2>1, <3>1 DEF TurnOn, TurnOff, Typed, QueueTypes
    <3>2. ASSUME NEW b \in BOOLEAN, Post([type |-> "turn", item |-> item, on |-> b])
          PROVE  QueueTypes'
      <4> DEFINE m == [type |-> "turn", item |-> item, on |-> b]
      <4>1. m \in Message /\ m.type = "turn"
        BY <2>3
      <4>2. msgs' = Append(msgs, m) /\ resetAt' \in Nat /\ UNCHANGED world
        BY <2>1, <3>2 DEF Post, TurnOn, TurnOff, Typed, QueueTypes
      <4> HIDE DEF m
      <4> QED  BY <4>1, <4>2, PostIsTyped DEF Typed
    <3> QED  BY <2>1, <3>1, <3>2 DEF TurnOn, TurnOff
  <2>5. TurnTypes'
    <3>1. mActiveRequestCount \in [Items -> Nat] /\ turnedOn' = turnedOn
      BY <2>1 DEF TurnOn, TurnOff, Typed, TurnTypes
    <3>2. mActiveRequestCount' \in [Items -> Nat]
      BY <2>1, <2>2, <3>1 DEF TurnOn, TurnOff
    <3> QED  BY <3>1, <3>2 DEF Typed, TurnTypes
  <2> QED  BY <2>1, <2>2, <2>4, <2>5 DEF TurnOn, TurnOff, Typed, TablesInv, IndexTypes, CacheTypes,
              statusVars, indexVars
<1>4. CASE Relocks
  <2>1. DOMAIN know' = Told
    BY <1>4 DEF Relocks, Learnt
  <2>2. UNCHANGED <<world, statusVars, indexVars, frameVars, mDataItemCache, seen, msgs, resetAt>>
    BY <1>4 DEF Relocks
  <2> QED  BY <2>1, <2>2 DEF Typed, TablesInv, IndexTypes, TurnTypes, CacheTypes, QueueTypes,
              statusVars, indexVars, frameVars
<1>5. CASE Handles
  <2>1. ASSUME HandleUnsubscribeReq \/ HandleUnsubscribeAllReq
        PROVE  Typed'
    BY <1>5, <2>1, WithdrawIs, WithdrawIsTyped DEF Handles
  <2> QED  BY <1>5, <2>1, SubscribeIsTyped, UpdateIsTyped, SetSubsIsTyped, NotifyIsTyped, HandleTurnIsTyped
           DEF Handles, ObsHandlers
<1>6. CASE XtraHandlers
  <2>1. msgs # <<>> /\ msgs' = Tail(msgs)
    BY <1>6 DEF XtraHandlers, HandleOsObserverUpdate, HandleStatusRequest, Receives
  <2>2. UNCHANGED <<world, statusVars, indexVars, frameVars, mDataItemCache, seen, resetAt>>
    BY <1>6 DEF XtraHandlers, HandleOsObserverUpdate, HandleStatusRequest
  <2>3. QueueTypes'
    BY <2>1, <2>2, TailKeepsQueue DEF Typed
  <2>4. DOMAIN know' = Told
    BY <1>6 DEF XtraHandlers, HandleOsObserverUpdate, HandleStatusRequest, Update, Learnt, Typed, CacheTypes
  <2> QED  BY <2>2, <2>3, <2>4 DEF Typed, TablesInv, IndexTypes, TurnTypes, CacheTypes,
              statusVars, indexVars, frameVars
<1> QED  BY <1>1, <1>2, <1>3, <1>4, <1>5, <1>6, StepCases

LEMMA TypedInit ==
  ASSUME Init
  PROVE  Typed
<1> USE DEF Init, ObsInit
<1>1. TablesInv
  BY StatusAssumption DEF StatusInit, TablesInv
<1>2. IndexTypes /\ TurnTypes
  BY DEF IndexTypes, TurnTypes
<1>3. CacheTypes
  BY DEF StatusInit, XtraInit, Nothing, CacheTypes, Known
<1>4. QueueTypes
  <2>1. /\ Sub({"network", "mccmnc"}, Xtra, FALSE) \in Message
        /\ Sub({"tac"}, Xtra, TRUE) \in Message
        /\ Sub({"network"}, Agps, FALSE) \in Message
    <3>1. {"network", "mccmnc"} \in SUBSET Items /\ {"tac"} \in SUBSET Items /\ {"network"} \in SUBSET Items
      BY DEF Items, Plain
    <3> QED  BY <3>1, MessagesAreRecords DEF Sub, Clients
  <2>2. \A i, c, r : Sub(i, c, r).type = "subscribe"
    BY DEF Sub
  <2> QED  BY <2>1 DEF QueueTypes, Sub
<1> QED  BY <1>1, <1>2, <1>3, <1>4 DEF Typed

----------------------------------------------------------------------------
(* The indices, what has been served, and the framework.                       *)

Fresh == \A c \in Clients : \A i \in mClientToDataItems[c] : seen[c][i] = mDataItemCache[i]
(* What the cache has not got nobody has been given.                           *)
Unseen == \A c \in Clients, i \in Items : mDataItemCache[i] = None => seen[c][i] = None
FrameworkFollows ==
  mSubscriptionObj =>
    \A i \in Items \ requested : i \in framework <=> mDataItemToClients[i] # {}

IndexInv == world # "updates" => IndicesAgree /\ Fresh /\ Unseen /\ FrameworkFollows

LEMMA IndexStays ==
  ASSUME IndexInv, UNCHANGED <<world, indexVars, mSubscriptionObj, mDataItemCache, seen>>
  PROVE  IndexInv'
BY DEF IndexInv, IndicesAgree, Fresh, Unseen, FrameworkFollows, indexVars

LEMMA SubscribeKeepsIndex ==
  ASSUME Typed, IndexInv, HandleSubscribeReq
  PROVE  IndexInv'
<1> SUFFICES ASSUME world' # "updates"
             PROVE  IndicesAgree' /\ Fresh' /\ Unseen' /\ FrameworkFollows'
  BY DEF IndexInv
<1>1. world # "updates" /\ IndicesAgree /\ Fresh /\ Unseen /\ FrameworkFollows
  BY DEF IndexInv, HandleSubscribeReq
<1>2. msgs # <<>> /\ Msg \in Message /\ Msg.type = "subscribe"
  BY TailIsTyped DEF HandleSubscribeReq, Receives, Msg, Typed
<1> DEFINE items == Msg.items
           c     == Msg.client
<1>3. items \in SUBSET Items /\ c \in Clients /\ Msg.request \in BOOLEAN
  BY <1>2, MessageFields
<1>4. /\ mClientToDataItems \in [Clients -> SUBSET Items]
      /\ mDataItemToClients \in [Items -> SUBSET Clients]
      /\ mSubscriptionObj \in BOOLEAN /\ requested \subseteq Items
      /\ mDataItemCache \in [Items -> Known] /\ seen \in [Clients -> [Items -> Known]]
  BY DEF Typed, IndexTypes, CacheTypes
<1>5. /\ mDataItemToClients' = [i \in Items |-> IF i \in items THEN mDataItemToClients[i] \cup {c}
                                                ELSE mDataItemToClients[i]]
      /\ mClientToDataItems' = [mClientToDataItems EXCEPT ![c] = @ \cup items]
      /\ framework' = IF mSubscriptionObj /\ ~Msg.request THEN framework \cup New(items) ELSE framework
      /\ requested' = IF Msg.request THEN requested \cup items ELSE requested
      /\ mDataItemCache' = mDataItemCache /\ mSubscriptionObj' = mSubscriptionObj
      /\ seen' = Served(OnlyTo(c, items))
  BY DEF HandleSubscribeReq, Add, Serve, frameVars
<1> HIDE DEF items, c
<1>6. IndicesAgree'
  BY <1>1, <1>3, <1>4, <1>5 DEF IndicesAgree
<1>7. \A d \in Clients, i \in Items :
        seen'[d][i] = IF d = c /\ i \in items /\ mDataItemCache[i] # None THEN mDataItemCache[i] ELSE seen[d][i]
  BY <1>3, <1>5 DEF Served, OnlyTo
<1>8. Unseen'
  BY <1>1, <1>5, <1>7 DEF Unseen
<1>9. ASSUME NEW d \in Clients, NEW i \in mClientToDataItems'[d]
      PROVE  seen'[d][i] = mDataItemCache'[i]
  <2>1. i \in Items /\ (i \in mClientToDataItems[d] \/ (d = c /\ i \in items))
    BY <1>3, <1>4, <1>5
  <2> QED  BY <1>1, <1>5, <1>7, <2>1 DEF Fresh, Unseen
<1>10. FrameworkFollows'
  <2> SUFFICES ASSUME mSubscriptionObj, NEW i \in Items, i \notin requested'
               PROVE  i \in framework' <=> mDataItemToClients'[i] # {}
    BY <1>5 DEF FrameworkFollows
  <2>1. i \notin requested /\ (i \in framework <=> mDataItemToClients[i] # {})
    BY <1>1, <1>5 DEF FrameworkFollows
  <2>2. mDataItemToClients'[i] # {} <=> mDataItemToClients[i] # {} \/ i \in items
    BY <1>5
  <2>3. CASE Msg.request
    BY <1>5, <2>1, <2>2, <2>3
  <2>4. CASE ~Msg.request
    <3>1. framework' = framework \cup New(items)
      BY <1>5, <2>4
    <3>2. i \in New(items) <=> i \in items /\ mDataItemToClients[i] = {}
      BY DEF New
    <3> QED  BY <2>1, <2>2, <3>1, <3>2
  <2> QED  BY <2>3, <2>4
<1> QED  BY <1>6, <1>8, <1>9, <1>10 DEF Fresh

LEMMA WithdrawKeepsIndex ==
  ASSUME Typed, IndexInv, NEW c \in Clients, NEW items \in SUBSET Items, Withdraw(c, items)
  PROVE  IndexInv'
<1> SUFFICES ASSUME world' # "updates"
             PROVE  IndicesAgree' /\ Fresh' /\ Unseen' /\ FrameworkFollows'
  BY DEF IndexInv
<1>1. world # "updates" /\ IndicesAgree /\ Fresh /\ Unseen /\ FrameworkFollows
  BY DEF IndexInv, Withdraw
<1>2. /\ mClientToDataItems \in [Clients -> SUBSET Items]
      /\ mDataItemToClients \in [Items -> SUBSET Clients]
      /\ mSubscriptionObj \in BOOLEAN
  BY DEF Typed, IndexTypes
<1>3. /\ mClientToDataItems' = [mClientToDataItems EXCEPT ![c] = @ \ items]
      /\ mDataItemToClients' = [i \in Items |-> IF i \in items \cap mClientToDataItems[c]
                                                THEN mDataItemToClients[i] \ {c} ELSE mDataItemToClients[i]]
      /\ framework' = IF mSubscriptionObj THEN framework \ Unused(items) ELSE framework
      /\ UNCHANGED <<mDataItemCache, mSubscriptionObj, requested, seen>>
  BY DEF Withdraw, Trim, frameVars
<1>4. IndicesAgree'
  BY <1>1, <1>2, <1>3 DEF IndicesAgree
<1>5. Unseen' /\ Fresh'
  BY <1>1, <1>2, <1>3 DEF Unseen, Fresh
<1>6. FrameworkFollows'
  <2> SUFFICES ASSUME mSubscriptionObj, NEW i \in Items, i \notin requested
               PROVE  i \in framework' <=> mDataItemToClients'[i] # {}
    BY <1>3 DEF FrameworkFollows
  <2>1. i \in framework <=> mDataItemToClients[i] # {}
    BY <1>1 DEF FrameworkFollows
  <2>2. i \in framework' <=> i \in framework /\ i \notin Unused(items)
    BY <1>3
  <2>3. i \in Unused(items) <=> i \in items /\ mDataItemToClients[i] # {} /\ mDataItemToClients'[i] = {}
    BY DEF Unused
  <2>4. mDataItemToClients'[i] # mDataItemToClients[i] => i \in items
    BY <1>3
  <2>5. mDataItemToClients'[i] \subseteq mDataItemToClients[i]
    BY <1>3
  <2> QED  BY <2>1, <2>2, <2>3, <2>4, <2>5
<1> QED  BY <1>4, <1>5, <1>6

LEMMA SetSubsKeepsIndex ==
  ASSUME IndexInv, HandleSetSubsObj
  PROVE  IndexInv'
<1>1. /\ framework' = {i \in Items : mDataItemToClients[i] # {}}
      /\ UNCHANGED <<world, mClientToDataItems, mDataItemToClients, requested, mDataItemCache, seen>>
  BY DEF HandleSetSubsObj
<1>2. FrameworkFollows'
  BY <1>1 DEF FrameworkFollows
<1> QED  BY <1>1, <1>2 DEF IndexInv, IndicesAgree, Fresh, Unseen

LEMMA NotifyKeepsIndex ==
  ASSUME Typed, IndexInv, HandleNotify
  PROVE  IndexInv'
<1>1. /\ Dropped \/ \E item \in Items, value \in Values \cup NetworkInfo : Newly(item, value)
      /\ UNCHANGED <<world, indexVars, frameVars, resetAt>>
  BY NotifyIs
<1>2. CASE Dropped
  BY <1>1, <1>2, IndexStays DEF Dropped, frameVars
<1>3. ASSUME NEW item \in Items, NEW value \in Values \cup NetworkInfo, Newly(item, value), world # "updates"
      PROVE  Fresh' /\ Unseen'
  <2>1. IndicesAgree /\ Fresh /\ Unseen
    BY <1>3 DEF IndexInv
  <2>2. /\ mClientToDataItems' = mClientToDataItems
        /\ mClientToDataItems \in [Clients -> SUBSET Items]
        /\ mDataItemCache \in [Items -> Known]
    BY <1>1 DEF indexVars, Typed, IndexTypes, CacheTypes
  <2>3. value # None
    BY NoneAssumption
  <2>4. \A i \in Items : mDataItemCache'[i] = IF i = item THEN value ELSE mDataItemCache[i]
    BY <1>3, <2>2 DEF Newly
  <2>5. seen' = Served(Subscribed(item))
    BY <1>3 DEF Newly, ServeSubscribers, Serve, Subscribed
  <2>6. \A c \in Clients, i \in Items :
          seen'[c][i] = IF i \in Subscribed(item)[c] /\ mDataItemCache'[i] # None
                        THEN mDataItemCache'[i] ELSE seen[c][i]
    BY <2>5 DEF Served
  <2>7. \A c \in Clients, i \in Items : i \in Subscribed(item)[c] <=> i = item /\ i \in mClientToDataItems[c]
    BY <2>1, <2>2 DEF Subscribed, IndicesAgree
  <2>8. Unseen'
    BY <2>1, <2>3, <2>4, <2>6, <2>7 DEF Unseen
  <2>9. Fresh'
    BY <2>1, <2>2, <2>3, <2>4, <2>6, <2>7 DEF Fresh
  <2> QED  BY <2>8, <2>9
<1>4. IndicesAgree => IndicesAgree'
  BY <1>1 DEF IndicesAgree, indexVars
<1>5. FrameworkFollows => FrameworkFollows'
  BY <1>1 DEF FrameworkFollows, indexVars, frameVars
<1> QED  BY <1>1, <1>2, <1>3, <1>4, <1>5 DEF IndexInv

LEMMA IndexStep ==
  ASSUME Typed, IndexInv, [Next]_vars
  PROVE  IndexInv'
<1>1. CASE Posts \/ Idles \/ Relocks
  BY <1>1, IndexStays DEF Posts, Idles, Relocks, Kept, frameVars
<1>2. CASE Turns
  BY <1>2, IndexStays DEF Turns, TurnOn, TurnOff
<1>3. CASE XtraHandlers
  BY <1>3, IndexStays DEF XtraHandlers, HandleOsObserverUpdate, HandleStatusRequest, frameVars
<1>4. CASE Handles
  <2>1. CASE HandleUpdateSubscriptionReq
    <3>1. world = "updates" /\ world' = world
      BY <2>1, TailIsTyped DEF HandleUpdateSubscriptionReq, Receives, Typed
    <3> QED  BY <3>1 DEF IndexInv
  <2>2. CASE HandleUnsubscribeReq \/ HandleUnsubscribeAllReq
    BY <2>2, WithdrawIs, WithdrawKeepsIndex
  <2>3. CASE HandleTurn
    BY <2>3, IndexStays DEF HandleTurn
  <2> QED  BY <1>4, <2>1, <2>2, <2>3, SubscribeKeepsIndex, SetSubsKeepsIndex, NotifyKeepsIndex
           DEF Handles, ObsHandlers
<1> QED  BY <1>1, <1>2, <1>3, <1>4, StepCases

LEMMA IndexInit ==
  ASSUME Init
  PROVE  IndexInv
BY DEF Init, ObsInit, IndexInv, IndicesAgree, Fresh, Unseen, FrameworkFollows

----------------------------------------------------------------------------
(* Modules on and off: the last word in the queue on an item, or else what the *)
(* framework has been told, agrees with the count of requests.                 *)

TurnAt(s, k, i)   == k \in DOMAIN s /\ s[k].type = "turn" /\ s[k].item = i
LastTurn(s, k, i) == TurnAt(s, k, i) /\ \A l \in DOMAIN s : l > k => ~TurnAt(s, l, i)

TurnsTell(s, on, count) ==
  \A i \in Items :
    /\ (\A k \in DOMAIN s : ~TurnAt(s, k, i)) => (i \in on <=> count[i] > 0)
    /\ \A k \in DOMAIN s : LastTurn(s, k, i) => (s[k].on <=> count[i] > 0)

TurnsInv == TurnsTell(msgs, turnedOn, mActiveRequestCount)

LEMMA TurnsAppend ==
  ASSUME NEW s \in Seq(Message), NEW m \in Message, m.type # "turn", NEW on, NEW count,
         TurnsTell(s, on, count)
  PROVE  TurnsTell(Append(s, m), on, count)
<1> DEFINE t == Append(s, m)
<1>1. /\ Len(s) \in Nat /\ DOMAIN s = 1 .. Len(s) /\ DOMAIN t = 1 .. Len(s) + 1
      /\ \A k \in 1 .. Len(s) : t[k] = s[k]
      /\ t[Len(s) + 1] = m
  BY AppendFacts
<1> HIDE DEF t
<1>2. \A i, k : TurnAt(t, k, i) <=> TurnAt(s, k, i)
  BY <1>1 DEF TurnAt
<1>3. \A i, k : LastTurn(t, k, i) => LastTurn(s, k, i) /\ k \in 1 .. Len(s)
  BY <1>1, <1>2 DEF LastTurn, TurnAt
<1>4. ASSUME NEW i \in Items, \A k \in DOMAIN t : ~TurnAt(t, k, i)
      PROVE  i \in on <=> count[i] > 0
  BY <1>1, <1>2, <1>4 DEF TurnsTell
<1>5. ASSUME NEW i \in Items, NEW k \in DOMAIN t, LastTurn(t, k, i)
      PROVE  t[k].on <=> count[i] > 0
  BY <1>1, <1>3, <1>5 DEF TurnsTell
<1>6. TurnsTell(t, on, count)
  BY <1>4, <1>5 DEF TurnsTell
<1> QED  BY <1>6 DEF t

LEMMA TurnsOfTail ==
  ASSUME NEW s \in Seq(Message), s # <<>>
  PROVE  /\ \A i : \A k \in DOMAIN s :
              TurnAt(s, k, i) => k = 1 \/ (k - 1 \in DOMAIN Tail(s) /\ TurnAt(Tail(s), k - 1, i))
         /\ \A i : \A k \in DOMAIN Tail(s) : LastTurn(Tail(s), k, i) =>
              LastTurn(s, k + 1, i) /\ k + 1 \in DOMAIN s /\ Tail(s)[k] = s[k + 1]
<1> DEFINE t == Tail(s)
<1>1. /\ Len(s) \in Nat /\ Len(s) >= 1 /\ DOMAIN s = 1 .. Len(s) /\ DOMAIN t = 1 .. Len(s) - 1
      /\ \A k \in 1 .. Len(s) - 1 : t[k] = s[k + 1]
  BY TailFacts
<1> HIDE DEF t
<1>2. \A i, k : TurnAt(t, k, i) => TurnAt(s, k + 1, i)
  BY <1>1 DEF TurnAt
<1>3. \A i : \A k \in DOMAIN s : TurnAt(s, k, i) => k = 1 \/ (k - 1 \in DOMAIN t /\ TurnAt(t, k - 1, i))
  BY <1>1 DEF TurnAt
<1>4. ASSUME NEW i, NEW k \in DOMAIN t, LastTurn(t, k, i)
      PROVE  LastTurn(s, k + 1, i) /\ k + 1 \in DOMAIN s /\ t[k] = s[k + 1]
  <2>1. TurnAt(s, k + 1, i) /\ k + 1 \in DOMAIN s /\ t[k] = s[k + 1]
    BY <1>1, <1>2, <1>4 DEF LastTurn
  <2>2. ASSUME NEW l \in DOMAIN s, l > k + 1, TurnAt(s, l, i)
        PROVE  FALSE
    <3>1. l # 1 /\ l - 1 > k
      BY <1>1, <2>2
    <3>2. l - 1 \in DOMAIN t /\ TurnAt(t, l - 1, i)
      BY <1>3, <2>2, <3>1
    <3> QED  BY <1>4, <3>1, <3>2 DEF LastTurn
  <2> QED  BY <2>1, <2>2 DEF LastTurn
<1>5. \A i : \A k \in DOMAIN t : LastTurn(t, k, i) => LastTurn(s, k + 1, i) /\ k + 1 \in DOMAIN s /\ t[k] = s[k + 1]
  BY <1>4
<1> QED  BY <1>3, <1>5 DEF t

(* The head leaves; if it is a turn, it is carried out.                        *)
LEMMA TurnsTail ==
  ASSUME NEW s \in Seq(Message), s # <<>>, NEW on, NEW on2, NEW count,
         TurnsTell(s, on, count),
         \A i \in Items : ~TurnAt(s, 1, i) => (i \in on2 <=> i \in on),
         \A i \in Items : TurnAt(s, 1, i) => (i \in on2 <=> s[1].on)
  PROVE  TurnsTell(Tail(s), on2, count)
<1> DEFINE t == Tail(s)
<1>1. Len(s) \in Nat /\ Len(s) >= 1 /\ DOMAIN s = 1 .. Len(s)
  BY TailFacts
<1>2. /\ \A i : \A k \in DOMAIN s : TurnAt(s, k, i) => k = 1 \/ (k - 1 \in DOMAIN t /\ TurnAt(t, k - 1, i))
      /\ \A i : \A k \in DOMAIN t : LastTurn(t, k, i) =>
           LastTurn(s, k + 1, i) /\ k + 1 \in DOMAIN s /\ t[k] = s[k + 1]
  BY TurnsOfTail
<1> HIDE DEF t
<1>3. ASSUME NEW i \in Items, \A k \in DOMAIN t : ~TurnAt(t, k, i)
      PROVE  i \in on2 <=> count[i] > 0
  <2>1. \A k \in DOMAIN s : TurnAt(s, k, i) => k = 1
    BY <1>2, <1>3
  <2>2. CASE TurnAt(s, 1, i)
    <3>1. LastTurn(s, 1, i) /\ 1 \in DOMAIN s
      BY <1>1, <2>1, <2>2 DEF LastTurn
    <3> QED  BY <2>2, <3>1 DEF TurnsTell
  <2>3. CASE ~TurnAt(s, 1, i)
    BY <2>1, <2>3 DEF TurnsTell
  <2> QED  BY <2>2, <2>3
<1>4. ASSUME NEW i \in Items, NEW k \in DOMAIN t, LastTurn(t, k, i)
      PROVE  t[k].on <=> count[i] > 0
  BY <1>2, <1>4 DEF TurnsTell
<1>5. TurnsTell(t, on2, count)
  BY <1>3, <1>4 DEF TurnsTell
<1> QED  BY <1>5 DEF t

(* The first request and the end of the last one are posted.                   *)
LEMMA TurnsPost ==
  ASSUME NEW s \in Seq(Message), NEW on, NEW count, NEW count2, NEW item \in Plain, NEW b \in BOOLEAN,
         TurnsTell(s, on, count), b <=> count2[item] > 0,
         \A i \in Items : i # item => count2[i] = count[i]
  PROVE  TurnsTell(Append(s, [type |-> "turn", item |-> item, on |-> b]), on, count2)
<1> DEFINE m == [type |-> "turn", item |-> item, on |-> b]
           t == Append(s, m)
<1>1. m \in Message /\ m.type = "turn" /\ m.item = item /\ m.on = b
  BY MessagesAreRecords
<1> HIDE DEF m
<1>2. /\ Len(s) \in Nat /\ DOMAIN s = 1 .. Len(s) /\ DOMAIN t = 1 .. Len(s) + 1
      /\ \A k \in 1 .. Len(s) : t[k] = s[k]
      /\ t[Len(s) + 1] = m
  BY <1>1, AppendFacts
<1> HIDE DEF t
<1>3. TurnAt(t, Len(s) + 1, item)
  BY <1>1, <1>2 DEF TurnAt
<1>4. \A i, k : i # item => (TurnAt(t, k, i) <=> TurnAt(s, k, i))
  BY <1>1, <1>2 DEF TurnAt
<1>5. \A i, k : i # item => (LastTurn(t, k, i) => LastTurn(s, k, i) /\ k \in 1 .. Len(s))
  BY <1>2, <1>4 DEF LastTurn, TurnAt
<1>6. \A k \in DOMAIN t : LastTurn(t, k, item) => k = Len(s) + 1
  BY <1>2, <1>3 DEF LastTurn
<1>7. ASSUME NEW i \in Items, \A k \in DOMAIN t : ~TurnAt(t, k, i)
      PROVE  i \in on <=> count2[i] > 0
  <2>1. i # item
    BY <1>2, <1>3, <1>7
  <2> QED  BY <1>2, <1>4, <1>7, <2>1 DEF TurnsTell
<1>8. ASSUME NEW i \in Items, NEW k \in DOMAIN t, LastTurn(t, k, i)
      PROVE  t[k].on <=> count2[i] > 0
  <2>1. CASE i = item
    BY <1>1, <1>2, <1>6, <1>8, <2>1
  <2>2. CASE i # item
    BY <1>2, <1>5, <1>8, <2>2 DEF TurnsTell
  <2> QED  BY <2>1, <2>2
<1>9. TurnsTell(t, on, count2)
  BY <1>7, <1>8 DEF TurnsTell
<1> QED  BY <1>9 DEF t, m

(* Any other handler takes its message and may post one to the XTRA observer.  *)
LEMMA OthersTake ==
  ASSUME Typed, [Next]_vars, (Handles /\ ~HandleTurn) \/ XtraHandlers
  PROVE  /\ msgs # <<>> /\ msgs[1].type # "turn"
         /\ UNCHANGED <<turnedOn, mActiveRequestCount>>
         /\ \/ msgs' = Tail(msgs)
            \/ \E x \in Message : x.type = "xtra" /\ msgs' = Append(Tail(msgs), x)
<1> DEFINE Goal == /\ msgs # <<>> /\ msgs[1].type # "turn"
                   /\ UNCHANGED <<turnedOn, mActiveRequestCount>>
                   /\ \/ msgs' = Tail(msgs)
                      \/ \E x \in Message : x.type = "xtra" /\ msgs' = Append(Tail(msgs), x)
<1>1. mDataItemCache' \in [Items -> Known]
  BY TypedStep DEF Typed, CacheTypes
<1>2. ASSUME NEW items \in [Clients -> SUBSET Items], Serve(items)
      PROVE  \/ msgs' = Tail(msgs)
             \/ \E x \in Message : x.type = "xtra" /\ msgs' = Append(Tail(msgs), x)
  <2>1. items[Xtra] \in SUBSET Items
    BY DEF Clients
  <2>2. msgs' = Forwarded(items[Xtra])
    BY <1>2 DEF Serve
  <2> QED  BY <1>1, <2>1, <2>2, ForwardedIs DEF Copies
<1>3. CASE XtraHandlers
  BY <1>3 DEF XtraHandlers, HandleOsObserverUpdate, HandleStatusRequest, Receives, frameVars
<1>4. CASE HandleSubscribeReq
  <2>1. msgs # <<>> /\ msgs[1].type = "subscribe" /\ Msg \in Message /\ Msg = msgs[1]
    BY <1>4, TailIsTyped DEF HandleSubscribeReq, Receives, Typed, Msg
  <2>2. OnlyTo(Msg.client, Msg.items) \in [Clients -> SUBSET Items]
    BY <2>1, MessageFields DEF OnlyTo
  <2>3. Serve(OnlyTo(Msg.client, Msg.items)) /\ UNCHANGED <<turnedOn, mActiveRequestCount>>
    BY <1>4 DEF HandleSubscribeReq, frameVars
  <2> QED  BY <1>2, <2>1, <2>2, <2>3
<1>5. CASE HandleUpdateSubscriptionReq
  <2>1. msgs # <<>> /\ msgs[1].type = "update" /\ Msg \in Message /\ Msg = msgs[1]
    BY <1>5, TailIsTyped DEF HandleUpdateSubscriptionReq, Receives, Typed, Msg
  <2>2. PICK common : Serve(OnlyTo(Msg.client, Msg.items \ common))
    BY <1>5 DEF HandleUpdateSubscriptionReq
  <2>3. OnlyTo(Msg.client, Msg.items \ common) \in [Clients -> SUBSET Items]
    BY <2>1, MessageFields DEF OnlyTo
  <2>4. UNCHANGED <<turnedOn, mActiveRequestCount>>
    BY <1>5 DEF HandleUpdateSubscriptionReq, frameVars
  <2> QED  BY <1>2, <2>1, <2>2, <2>3, <2>4
<1>6. CASE HandleUnsubscribeReq \/ HandleUnsubscribeAllReq
  <2>1. /\ msgs # <<>> /\ msgs[1].type \in {"unsubscribe", "unsubscribeAll"}
        /\ \E c, items : Withdraw(c, items)
    BY <1>6, WithdrawIs
  <2> QED  BY <2>1 DEF Withdraw, frameVars
<1>7. CASE HandleSetSubsObj
  BY <1>7 DEF HandleSetSubsObj, Receives
<1>8. CASE HandleNotify
  <2>1. /\ msgs # <<>> /\ msgs[1].type = "notify"
        /\ Dropped \/ \E item \in Items, value \in Values \cup NetworkInfo : Newly(item, value)
        /\ UNCHANGED <<turnedOn, mActiveRequestCount>>
    BY <1>8, NotifyIs DEF frameVars
  <2>2. CASE Dropped
    BY <2>1, <2>2 DEF Dropped
  <2>3. ASSUME NEW item \in Items, NEW value, Newly(item, value)
        PROVE  Goal
    <3>1. Subscribed(item) \in [Clients -> SUBSET Items]
      BY DEF Subscribed, Typed, IndexTypes
    <3>2. Serve(Subscribed(item))
      BY <2>3 DEF Newly, ServeSubscribers, Subscribed
    <3> QED  BY <1>2, <2>1, <3>1, <3>2
  <2> QED  BY <2>1, <2>2, <2>3
<1> QED  BY <1>3, <1>4, <1>5, <1>6, <1>7, <1>8 DEF Handles, ObsHandlers

LEMMA TurnsStep ==
  ASSUME Typed, TurnsInv, [Next]_vars
  PROVE  TurnsInv'
<1>1. msgs \in Seq(Message) /\ mActiveRequestCount \in [Items -> Nat]
  BY DEF Typed, QueueTypes, TurnTypes
<1>2. CASE Posts
  <2>1. PICK m \in Message : m.type # "turn" /\ msgs' = Append(msgs, m) /\ Kept
    BY <1>2 DEF Posts
  <2> QED  BY <1>1, <2>1, TurnsAppend DEF TurnsInv, Kept, frameVars
<1>3. CASE Idles \/ Relocks
  BY <1>3 DEF Idles, Relocks, Kept, frameVars, TurnsInv
<1>4. CASE Turns
  <2>1. PICK item \in Plain : TurnOn(item) \/ TurnOff(item)
    BY <1>4 DEF Turns
  <2>2. item \in Items /\ turnedOn' = turnedOn
    BY <2>1 DEF Items, TurnOn, TurnOff
  <2>3. \A i \in Items : i # item => mActiveRequestCount'[i] = mActiveRequestCount[i]
    BY <1>1, <2>1 DEF TurnOn, TurnOff
  <2>4. CASE TurnOn(item)
    <3>1. mActiveRequestCount'[item] = mActiveRequestCount[item] + 1
      BY <1>1, <2>2, <2>4 DEF TurnOn
    <3>2. CASE mActiveRequestCount[item] = 0
      <4>1. msgs' = Append(msgs, [type |-> "turn", item |-> item, on |-> TRUE])
        BY <2>4, <3>2 DEF TurnOn, Post
      <4>2. TRUE <=> mActiveRequestCount'[item] > 0
        BY <3>1, <3>2
      <4> QED  BY <1>1, <2>2, <2>3, <4>1, <4>2, TurnsPost DEF TurnsInv
    <3>3. CASE mActiveRequestCount[item] # 0
      <4>1. msgs' = msgs
        BY <2>4, <3>3 DEF TurnOn
      <4>2. \A i \in Items : mActiveRequestCount'[i] > 0 <=> mActiveRequestCount[i] > 0
        BY <1>1, <2>2, <2>3, <3>1, <3>3
      <4> QED  BY <2>2, <4>1, <4>2 DEF TurnsInv, TurnsTell
    <3> QED  BY <3>2, <3>3
  <2>5. CASE TurnOff(item)
    <3>1. mActiveRequestCount'[item] = mActiveRequestCount[item] - 1 /\ mActiveRequestCount[item] > 0
      BY <1>1, <2>2, <2>5 DEF TurnOff
    <3>2. CASE mActiveRequestCount[item] = 1
      <4>1. msgs' = Append(msgs, [type |-> "turn", item |-> item, on |-> FALSE])
        BY <2>5, <3>2 DEF TurnOff, Post
      <4>2. FALSE <=> mActiveRequestCount'[item] > 0
        BY <3>1, <3>2
      <4> QED  BY <1>1, <2>2, <2>3, <4>1, <4>2, TurnsPost DEF TurnsInv
    <3>3. CASE mActiveRequestCount[item] # 1
      <4>1. msgs' = msgs
        BY <2>5, <3>3 DEF TurnOff
      <4>2. \A i \in Items : mActiveRequestCount'[i] > 0 <=> mActiveRequestCount[i] > 0
        BY <1>1, <2>2, <2>3, <3>1, <3>3
      <4> QED  BY <2>2, <4>1, <4>2 DEF TurnsInv, TurnsTell
    <3> QED  BY <3>2, <3>3
  <2> QED  BY <2>1, <2>4, <2>5
<1>5. CASE HandleTurn
  <2>1. msgs # <<>> /\ msgs[1].type = "turn" /\ Msg = msgs[1] /\ msgs' = Tail(msgs) /\ UNCHANGED mActiveRequestCount
    BY <1>5 DEF HandleTurn, Receives, Msg
  <2>2. turnedOn' = IF Msg.on THEN turnedOn \cup {Msg.item} ELSE turnedOn \ {Msg.item}
    BY <1>5 DEF HandleTurn
  <2>3. 1 \in DOMAIN msgs
    BY <1>1, <2>1
  <2>4. \A i \in Items : TurnAt(msgs, 1, i) <=> Msg.item = i
    BY <2>1, <2>3 DEF TurnAt
  <2>5. TurnsTell(Tail(msgs), turnedOn', mActiveRequestCount)
    BY <1>1, <2>1, <2>2, <2>4, TurnsTail DEF TurnsInv
  <2> QED  BY <2>1, <2>5 DEF TurnsInv
<1>6. CASE (Handles /\ ~HandleTurn) \/ XtraHandlers
  <2>1. /\ msgs # <<>> /\ msgs[1].type # "turn"
        /\ UNCHANGED <<turnedOn, mActiveRequestCount>>
        /\ \/ msgs' = Tail(msgs)
           \/ \E x \in Message : x.type = "xtra" /\ msgs' = Append(Tail(msgs), x)
    BY <1>6, OthersTake
  <2>2. \A i \in Items : ~TurnAt(msgs, 1, i)
    BY <2>1 DEF TurnAt
  <2>3. Tail(msgs) \in Seq(Message)
    BY <1>1, <2>1, TailFacts
  <2>4. TurnsTell(Tail(msgs), turnedOn, mActiveRequestCount)
    BY <1>1, <2>1, <2>2, TurnsTail DEF TurnsInv
  <2>5. ASSUME NEW x \in Message, x.type = "xtra", msgs' = Append(Tail(msgs), x)
        PROVE  TurnsInv'
    BY <2>1, <2>3, <2>4, <2>5, TurnsAppend DEF TurnsInv
  <2> QED  BY <2>1, <2>4, <2>5 DEF TurnsInv
<1> QED  BY <1>2, <1>3, <1>4, <1>5, <1>6, StepCases

LEMMA TurnsInit ==
  ASSUME Init
  PROVE  TurnsInv
<1>1. turnedOn = {} /\ mActiveRequestCount = [i \in Items |-> 0]
  BY DEF Init, ObsInit
<1>2. DOMAIN msgs = 1 .. 3 /\ \A k \in 1 .. 3 : msgs[k].type = "subscribe"
  BY DEF Init, ObsInit, Sub
<1> QED  BY <1>1, <1>2 DEF TurnsInv, TurnsTell, LastTurn, TurnAt

(* Each client has last been given what the cache holds of its items, the two  *)
(* indices agree, the framework is subscribed to what is wanted, and runs the  *)
(* modules that are requested: whatever the order of calls and news.           *)
LEMMA ServedFollows ==
  ASSUME Typed, IndexInv, TurnsInv
  PROVE  SubscribersServed
<1>1. ObsTypeOK
  <2>1. StatusTypeOK
    BY DEF Typed, TablesInv, CacheTypes, StatusTypeOK
  <2> QED  BY <2>1 DEF Typed, IndexTypes, TurnTypes, ObsTypeOK
<1>2. ASSUME NEW i \in Items, \A k \in DOMAIN msgs : msgs[k].type = "turn" => msgs[k].item # i
      PROVE  i \in turnedOn <=> mActiveRequestCount[i] > 0
  BY <1>2 DEF TurnsInv, TurnsTell, TurnAt
<1> QED  BY <1>1, <1>2 DEF SubscribersServed, IndexInv, Fresh, FrameworkFollows

----------------------------------------------------------------------------
(* Values on their way: of each item in I the last copy in a queue s, in a     *)
(* message of type ty, or else what is known where the queue leads, is what    *)
(* has been served.                                                            *)

CopyAt(s, ty, k, i)   == k \in DOMAIN s /\ s[k].type = ty /\ i \in DOMAIN s[k].values
LastCopy(s, ty, k, i) == CopyAt(s, ty, k, i) /\ \A l \in DOMAIN s : l > k => ~CopyAt(s, ty, l, i)

CopiesTell(s, ty, I, known, served) ==
  \A i \in I :
    /\ (\A k \in DOMAIN s : ~CopyAt(s, ty, k, i)) => known[i] = served[i]
    /\ \A k \in DOMAIN s : LastCopy(s, ty, k, i) => s[k].values[i] = served[i]

(* So the XTRA observer comes to know what it has been served.                 *)
KnowInv == CopiesTell(msgs, "xtra", Items, know, seen[Xtra])

LEMMA CopiesAppend ==
  ASSUME NEW S, NEW s \in Seq(S), NEW m \in S, NEW ty, NEW I, m.type # ty, NEW known, NEW served,
         CopiesTell(s, ty, I, known, served)
  PROVE  CopiesTell(Append(s, m), ty, I, known, served)
<1> DEFINE t == Append(s, m)
<1>1. /\ Len(s) \in Nat /\ DOMAIN s = 1 .. Len(s) /\ DOMAIN t = 1 .. Len(s) + 1
      /\ \A k \in 1 .. Len(s) : t[k] = s[k]
      /\ t[Len(s) + 1] = m
  BY AppendFacts
<1> HIDE DEF t
<1>2. \A i, k : CopyAt(t, ty, k, i) <=> CopyAt(s, ty, k, i)
  BY <1>1 DEF CopyAt
<1>3. \A i, k : LastCopy(t, ty, k, i) => LastCopy(s, ty, k, i) /\ k \in 1 .. Len(s)
  BY <1>1, <1>2 DEF LastCopy, CopyAt
<1>4. ASSUME NEW i \in I, \A k \in DOMAIN t : ~CopyAt(t, ty, k, i)
      PROVE  known[i] = served[i]
  BY <1>1, <1>2, <1>4 DEF CopiesTell
<1>5. ASSUME NEW i \in I, NEW k \in DOMAIN t, LastCopy(t, ty, k, i)
      PROVE  t[k].values[i] = served[i]
  BY <1>1, <1>3, <1>5 DEF CopiesTell
<1>6. CopiesTell(t, ty, I, known, served)
  BY <1>4, <1>5 DEF CopiesTell
<1> QED  BY <1>6 DEF t

(* A copy of what is newly served.                                             *)
LEMMA CopiesForward ==
  ASSUME NEW S, NEW s \in Seq(S), NEW x \in S, NEW ty, NEW I, x.type = ty,
         NEW known, NEW served, NEW served2,
         CopiesTell(s, ty, I, known, served),
         \A i \in I : served2[i] = IF i \in DOMAIN x.values THEN x.values[i] ELSE served[i]
  PROVE  CopiesTell(Append(s, x), ty, I, known, served2)
<1> DEFINE t == Append(s, x)
<1>1. /\ Len(s) \in Nat /\ DOMAIN s = 1 .. Len(s) /\ DOMAIN t = 1 .. Len(s) + 1
      /\ \A k \in 1 .. Len(s) : t[k] = s[k]
      /\ t[Len(s) + 1] = x
  BY AppendFacts
<1> HIDE DEF t
<1>2. \A i : CopyAt(t, ty, Len(s) + 1, i) <=> i \in DOMAIN x.values
  BY <1>1 DEF CopyAt
<1>3. \A i, k : i \notin DOMAIN x.values => (CopyAt(t, ty, k, i) <=> CopyAt(s, ty, k, i))
  BY <1>1 DEF CopyAt
<1>4. \A i, k : i \notin DOMAIN x.values => (LastCopy(t, ty, k, i) => LastCopy(s, ty, k, i) /\ k \in 1 .. Len(s))
  BY <1>1, <1>3 DEF LastCopy, CopyAt
<1>5. \A i : \A k \in DOMAIN t : i \in DOMAIN x.values /\ LastCopy(t, ty, k, i) => k = Len(s) + 1
  BY <1>1, <1>2 DEF LastCopy
<1>6. ASSUME NEW i \in I, \A k \in DOMAIN t : ~CopyAt(t, ty, k, i)
      PROVE  known[i] = served2[i]
  <2>1. i \notin DOMAIN x.values
    BY <1>1, <1>2, <1>6
  <2> QED  BY <1>1, <1>3, <1>6, <2>1 DEF CopiesTell
<1>7. ASSUME NEW i \in I, NEW k \in DOMAIN t, LastCopy(t, ty, k, i)
      PROVE  t[k].values[i] = served2[i]
  <2>1. CASE i \in DOMAIN x.values
    BY <1>1, <1>5, <1>7, <2>1
  <2>2. CASE i \notin DOMAIN x.values
    BY <1>1, <1>4, <1>7, <2>2 DEF CopiesTell
  <2> QED  BY <2>1, <2>2
<1>8. CopiesTell(t, ty, I, known, served2)
  BY <1>6, <1>7 DEF CopiesTell
<1> QED  BY <1>8 DEF t

LEMMA CopiesOfTail ==
  ASSUME NEW S, NEW s \in Seq(S), NEW ty, s # <<>>
  PROVE  /\ \A i : \A k \in DOMAIN s :
              CopyAt(s, ty, k, i) => k = 1 \/ (k - 1 \in DOMAIN Tail(s) /\ CopyAt(Tail(s), ty, k - 1, i))
         /\ \A i : \A k \in DOMAIN Tail(s) : LastCopy(Tail(s), ty, k, i) =>
              LastCopy(s, ty, k + 1, i) /\ k + 1 \in DOMAIN s /\ Tail(s)[k] = s[k + 1]
<1> DEFINE t == Tail(s)
<1>1. /\ Len(s) \in Nat /\ Len(s) >= 1 /\ DOMAIN s = 1 .. Len(s) /\ DOMAIN t = 1 .. Len(s) - 1
      /\ \A k \in 1 .. Len(s) - 1 : t[k] = s[k + 1]
  BY TailFacts
<1> HIDE DEF t
<1>2. \A i, k : CopyAt(t, ty, k, i) => CopyAt(s, ty, k + 1, i)
  BY <1>1 DEF CopyAt
<1>3. \A i : \A k \in DOMAIN s : CopyAt(s, ty, k, i) => k = 1 \/ (k - 1 \in DOMAIN t /\ CopyAt(t, ty, k - 1, i))
  BY <1>1 DEF CopyAt
<1>4. ASSUME NEW i, NEW k \in DOMAIN t, LastCopy(t, ty, k, i)
      PROVE  LastCopy(s, ty, k + 1, i) /\ k + 1 \in DOMAIN s /\ t[k] = s[k + 1]
  <2>1. CopyAt(s, ty, k + 1, i) /\ k + 1 \in DOMAIN s /\ t[k] = s[k + 1]
    BY <1>1, <1>2, <1>4 DEF LastCopy
  <2>2. ASSUME NEW l \in DOMAIN s, l > k + 1, CopyAt(s, ty, l, i)
        PROVE  FALSE
    <3>1. l # 1 /\ l - 1 > k
      BY <1>1, <2>2
    <3>2. l - 1 \in DOMAIN t /\ CopyAt(t, ty, l - 1, i)
      BY <1>3, <2>2, <3>1
    <3> QED  BY <1>4, <3>1, <3>2 DEF LastCopy
  <2> QED  BY <2>1, <2>2 DEF LastCopy
<1>5. \A i : \A k \in DOMAIN t :
        LastCopy(t, ty, k, i) => LastCopy(s, ty, k + 1, i) /\ k + 1 \in DOMAIN s /\ t[k] = s[k + 1]
  BY <1>4
<1> QED  BY <1>3, <1>5 DEF t

(* The head leaves; if it is a copy, it is learnt.                             *)
LEMMA CopiesTail ==
  ASSUME NEW S, NEW s \in Seq(S), NEW ty, NEW I, s # <<>>, NEW known, NEW known2, NEW served,
         CopiesTell(s, ty, I, known, served),
         \A i \in I : known2[i] = IF CopyAt(s, ty, 1, i) THEN s[1].values[i] ELSE known[i]
  PROVE  CopiesTell(Tail(s), ty, I, known2, served)
<1> DEFINE t == Tail(s)
<1>1. Len(s) \in Nat /\ Len(s) >= 1 /\ DOMAIN s = 1 .. Len(s)
  BY TailFacts
<1>2. /\ \A i : \A k \in DOMAIN s : CopyAt(s, ty, k, i) => k = 1 \/ (k - 1 \in DOMAIN t /\ CopyAt(t, ty, k - 1, i))
      /\ \A i : \A k \in DOMAIN t : LastCopy(t, ty, k, i) =>
           LastCopy(s, ty, k + 1, i) /\ k + 1 \in DOMAIN s /\ t[k] = s[k + 1]
  BY CopiesOfTail
<1> HIDE DEF t
<1>3. ASSUME NEW i \in I, \A k \in DOMAIN t : ~CopyAt(t, ty, k, i)
      PROVE  known2[i] = served[i]
  <2>1. \A k \in DOMAIN s : CopyAt(s, ty, k, i) => k = 1
    BY <1>2, <1>3
  <2>2. CASE CopyAt(s, ty, 1, i)
    <3>1. LastCopy(s, ty, 1, i) /\ 1 \in DOMAIN s
      BY <1>1, <2>1, <2>2 DEF LastCopy
    <3> QED  BY <2>2, <3>1 DEF CopiesTell
  <2>3. CASE ~CopyAt(s, ty, 1, i)
    BY <2>1, <2>3 DEF CopiesTell
  <2> QED  BY <2>2, <2>3
<1>4. ASSUME NEW i \in I, NEW k \in DOMAIN t, LastCopy(t, ty, k, i)
      PROVE  t[k].values[i] = served[i]
  BY <1>2, <1>4 DEF CopiesTell
<1>5. CopiesTell(t, ty, I, known2, served)
  BY <1>3, <1>4 DEF CopiesTell
<1> QED  BY <1>5 DEF t

(* Serving the XTRA observer some of its items, after any other message.       *)
LEMMA ServingCopies ==
  ASSUME Typed, KnowInv, msgs # <<>>, msgs[1].type # "xtra", UNCHANGED know,
         mDataItemCache' \in [Items -> Known], NEW items \in [Clients -> SUBSET Items], Serve(items)
  PROVE  KnowInv'
<1>1. msgs' = Forwarded(items[Xtra]) /\ seen' = Served(items)
  BY DEF Serve
<1>2. Xtra \in Clients /\ items[Xtra] \in SUBSET Items /\ msgs \in Seq(Message)
  BY DEF Clients, Typed, QueueTypes
<1>3. \A i \in Items : seen'[Xtra][i] = IF i \in items[Xtra] /\ mDataItemCache'[i] # None
                                        THEN mDataItemCache'[i] ELSE seen[Xtra][i]
  BY <1>1, <1>2 DEF Served
<1>4. \A i \in Items : ~CopyAt(msgs, "xtra", 1, i)
  BY DEF CopyAt
<1>5. CopiesTell(Tail(msgs), "xtra", Items, know, seen[Xtra])
  BY <1>2, <1>4, CopiesTail DEF KnowInv
<1>6. Tail(msgs) \in Seq(Message)
  BY <1>2, TailFacts
<1>7. ASSUME \A i \in items[Xtra] : mDataItemCache'[i] = None, msgs' = Tail(msgs)
      PROVE  KnowInv'
  <2>1. \A i \in Items : seen'[Xtra][i] = seen[Xtra][i]
    BY <1>3, <1>7
  <2> QED  BY <1>5, <1>7, <2>1 DEF KnowInv, CopiesTell
<1>8. ASSUME NEW x, Copies(x, items[Xtra]), msgs' = Append(Tail(msgs), x)
      PROVE  KnowInv'
  <2>1. x \in Message /\ x.type = "xtra"
    BY <1>8 DEF Copies
  <2>2. \A i \in Items : seen'[Xtra][i] = IF i \in DOMAIN x.values THEN x.values[i] ELSE seen[Xtra][i]
    BY <1>3, <1>8 DEF Copies
  <2>3. CopiesTell(Append(Tail(msgs), x), "xtra", Items, know, seen'[Xtra])
    BY <1>5, <1>6, <2>1, <2>2, CopiesForward
  <2> QED  BY <1>8, <2>3 DEF KnowInv
<1> QED  BY <1>1, <1>2, <1>7, <1>8, ForwardedIs

LEMMA TakingKeepsKnow ==
  ASSUME Typed, KnowInv, msgs # <<>>, msgs[1].type # "xtra", msgs' = Tail(msgs), UNCHANGED <<know, seen>>
  PROVE  KnowInv'
<1>1. \A i \in Items : ~CopyAt(msgs, "xtra", 1, i)
  BY DEF CopyAt
<1>2. CopiesTell(Tail(msgs), "xtra", Items, know, seen[Xtra])
  BY <1>1, CopiesTail DEF KnowInv, Typed, QueueTypes
<1> QED  BY <1>2 DEF KnowInv

LEMMA KnowStep ==
  ASSUME Typed, KnowInv, [Next]_vars
  PROVE  KnowInv'
<1>1. msgs \in Seq(Message) /\ mDataItemCache' \in [Items -> Known] /\ DOMAIN know = Told
  BY TypedStep DEF Typed, QueueTypes, CacheTypes
<1>2. CASE Posts
  <2>1. PICK m \in Message : m.type # "xtra" /\ msgs' = Append(msgs, m) /\ Kept
    BY <1>2 DEF Posts
  <2> QED  BY <1>1, <2>1, CopiesAppend DEF KnowInv, Kept
<1>3. CASE Idles
  BY <1>3 DEF Idles, Kept, KnowInv
<1>4. CASE Turns
  <2>1. PICK item \in Plain : TurnOn(item) \/ TurnOff(item)
    BY <1>4 DEF Turns
  <2>2. UNCHANGED <<know, seen>>
    BY <1>4, <2>1 DEF Turns, TurnOn, TurnOff
  <2>3. ASSUME NEW b \in BOOLEAN, Post([type |-> "turn", item |-> item, on |-> b])
        PROVE  KnowInv'
    <3> DEFINE m == [type |-> "turn", item |-> item, on |-> b]
    <3>1. m \in Message /\ m.type = "turn" /\ msgs' = Append(msgs, m)
      BY <2>3, MessagesAreRecords DEF Post
    <3> HIDE DEF m
    <3> QED  BY <1>1, <2>2, <3>1, CopiesAppend DEF KnowInv
  <2>4. CASE msgs' = msgs
    BY <2>2, <2>4 DEF KnowInv
  <2> QED  BY <2>1, <2>3, <2>4 DEF TurnOn, TurnOff
<1>5. CASE Relocks
  <2>1. PICK lock : know' = Learnt([i \in {"lock"} |-> lock], know)
    BY <1>5 DEF Relocks
  <2>2. \A i \in Items : i \in Told /\ i # "lock"
    BY DEF Items, Plain, Told
  <2>3. \A i \in Items : know'[i] = know[i]
    BY <2>1, <2>2 DEF Learnt
  <2> QED  BY <1>5, <2>3 DEF Relocks, KnowInv, CopiesTell
<1>6. CASE HandleStatusRequest
  BY <1>6, TakingKeepsKnow DEF HandleStatusRequest, Receives
<1>7. CASE HandleOsObserverUpdate
  <2>1. msgs # <<>> /\ msgs[1].type = "xtra" /\ msgs' = Tail(msgs) /\ UNCHANGED seen
    BY <1>7 DEF HandleOsObserverUpdate, Receives
  <2>2. know' = Learnt([i \in DOMAIN msgs[1].values |-> msgs[1].values[i]], know)
    BY <1>7 DEF HandleOsObserverUpdate, Update, Msg
  <2>3. \A i \in Items : i \in Told
    BY DEF Items, Plain, Told
  <2>4. \A i \in Items : know'[i] = IF i \in DOMAIN msgs[1].values THEN msgs[1].values[i] ELSE know[i]
    BY <2>2, <2>3 DEF Learnt
  <2>5. \A i : CopyAt(msgs, "xtra", 1, i) <=> i \in DOMAIN msgs[1].values
    BY <1>1, <2>1 DEF CopyAt
  <2>6. CopiesTell(Tail(msgs), "xtra", Items, know', seen[Xtra])
    BY <1>1, <2>1, <2>4, <2>5, CopiesTail DEF KnowInv
  <2> QED  BY <2>1, <2>6 DEF KnowInv
<1>8. CASE Handles
  <2>1. UNCHANGED know
    BY <1>8 DEF Handles
  <2>2. CASE HandleSubscribeReq
    <3>1. msgs # <<>> /\ msgs[1].type = "subscribe" /\ Msg \in Message /\ Msg = msgs[1]
      BY <2>2, TailIsTyped DEF HandleSubscribeReq, Receives, Typed, Msg
    <3>2. OnlyTo(Msg.client, Msg.items) \in [Clients -> SUBSET Items]
      BY <3>1, MessageFields DEF OnlyTo
    <3>3. Serve(OnlyTo(Msg.client, Msg.items))
      BY <2>2 DEF HandleSubscribeReq
    <3> QED  BY <1>1, <2>1, <3>1, <3>2, <3>3, ServingCopies
  <2>3. CASE HandleUpdateSubscriptionReq
    <3>1. msgs # <<>> /\ msgs[1].type = "update" /\ Msg \in Message /\ Msg = msgs[1]
      BY <2>3, TailIsTyped DEF HandleUpdateSubscriptionReq, Receives, Typed, Msg
    <3>2. PICK common : Serve(OnlyTo(Msg.client, Msg.items \ common))
      BY <2>3 DEF HandleUpdateSubscriptionReq
    <3>3. OnlyTo(Msg.client, Msg.items \ common) \in [Clients -> SUBSET Items]
      BY <3>1, MessageFields DEF OnlyTo
    <3> QED  BY <1>1, <2>1, <3>1, <3>2, <3>3, ServingCopies
  <2>4. CASE HandleUnsubscribeReq \/ HandleUnsubscribeAllReq
    <3>1. /\ msgs # <<>> /\ msgs[1].type \in {"unsubscribe", "unsubscribeAll"}
          /\ \E c, items : Withdraw(c, items)
      BY <2>4, WithdrawIs
    <3> QED  BY <2>1, <3>1, TakingKeepsKnow DEF Withdraw
  <2>5. CASE HandleSetSubsObj \/ HandleTurn
    BY <2>1, <2>5, TakingKeepsKnow DEF HandleSetSubsObj, HandleTurn, Receives
  <2>6. CASE HandleNotify
    <3>1. /\ msgs # <<>> /\ msgs[1].type = "notify"
          /\ Dropped \/ \E item \in Items, value \in Values \cup NetworkInfo : Newly(item, value)
      BY <2>6, NotifyIs
    <3>2. CASE Dropped
      BY <2>1, <3>1, <3>2, TakingKeepsKnow DEF Dropped
    <3>3. ASSUME NEW item \in Items, NEW value, Newly(item, value)
          PROVE  KnowInv'
      <4>1. Subscribed(item) \in [Clients -> SUBSET Items]
        BY DEF Subscribed, Typed, IndexTypes
      <4>2. Serve(Subscribed(item))
        BY <3>3 DEF Newly, ServeSubscribers, Subscribed
      <4> QED  BY <1>1, <2>1, <3>1, <4>1, <4>2, ServingCopies
    <3> QED  BY <3>1, <3>2, <3>3
  <2> QED  BY <1>8, <2>2, <2>3, <2>4, <2>5, <2>6 DEF Handles, ObsHandlers
<1> QED  BY <1>2, <1>3, <1>4, <1>5, <1>6, <1>7, <1>8, StepCases DEF XtraHandlers

LEMMA KnowInit ==
  ASSUME Init
  PROVE  KnowInv
<1>1. Xtra \in Clients /\ \A i \in Items : i \in Told
  BY DEF Clients, Items, Plain, Told
<1>2. \A i \in Items : know[i] = None /\ seen[Xtra][i] = None
  BY <1>1 DEF Init, ObsInit, XtraInit, Nothing
<1>3. DOMAIN msgs = 1 .. 3 /\ \A k \in 1 .. 3 : msgs[k].type = "subscribe"
  BY DEF Init, ObsInit, Sub
<1> QED  BY <1>2, <1>3 DEF KnowInv, CopiesTell, LastCopy, CopyAt

----------------------------------------------------------------------------
(* The DGNSS source, where parameters and consent stay: one that runs is       *)
(* marked as started, which holds only while it is enabled in a session; and   *)
(* where a location is required, it has been had before it may start.          *)

Bits == {"ENABLE", "STARTED", "NO_NMEA_PENDING"}

SourceTypes ==
  /\ mDgnssState \subseteq Bits
  /\ ntrip \in [params : Params \cup {None}, nmea : BOOLEAN]
  /\ inSession \in BOOLEAN

Sources(state, string, nt, session) ==
  /\ "ENABLE" \in state => nt.params # None
  /\ "STARTED" \in state => "ENABLE" \in state /\ session
  /\ string # None =>
       /\ "STARTED" \in state
       /\ string.params = nt.params
       /\ mSendNmeaConsent /\ nt.params.nmea => string.nmea
  /\ "ENABLE" \in state /\ "NO_NMEA_PENDING" \in state /\ NmeaRequired(nt.params) => nt.nmea

SourceInv ==
  world = "source" => SourceTypes /\ Sources(mDgnssState, mNtripParamsString, ntrip, inSession)

(* Whether a source starts.                                                    *)
LEMMA CheckKeepsSources ==
  ASSUME NEW state \in SUBSET Bits, NEW session \in BOOLEAN, NEW valid \in BOOLEAN,
         ntrip' \in [params : Params \cup {None}, nmea : BOOLEAN],
         Sources(state, mNtripParamsString, ntrip', session),
         CheckUpdateDgnssNtrip(state, session, valid)
  PROVE  /\ mDgnssState' \subseteq Bits
         /\ Sources(mDgnssState', mNtripParamsString', ntrip', session)
<1> DEFINE start == [type |-> "start", params |-> ntrip'.params, nmea |-> ntrip'.params.nmea /\ ntrip'.nmea]
<1>1. CASE session /\ state = {"ENABLE", "NO_NMEA_PENDING"}
  <2>1. mDgnssState' = state \cup {"STARTED"} /\ mNtripParamsString' = start
    BY <1>1 DEF CheckUpdateDgnssNtrip
  <2>2. ntrip'.params # None /\ (NmeaRequired(ntrip'.params) => ntrip'.nmea)
    BY <1>1 DEF Sources
  <2>3. start.params = ntrip'.params /\ (mSendNmeaConsent /\ ntrip'.params.nmea => start.nmea)
    BY <2>2 DEF NmeaRequired
  <2> HIDE DEF start
  <2> QED  BY <1>1, <2>1, <2>2, <2>3 DEF Sources, Bits
<1>2. CASE ~(session /\ state = {"ENABLE", "NO_NMEA_PENDING"})
  <2>1. mDgnssState' = state /\ mNtripParamsString' = mNtripParamsString
    BY <1>2 DEF CheckUpdateDgnssNtrip
  <2> QED  BY <2>1 DEF Sources
<1> QED  BY <1>1, <1>2

(* What stops a source.                                                        *)
LEMMA StopKeepsSources ==
  ASSUME SourceTypes, Sources(mDgnssState, mNtripParamsString, ntrip, inSession),
         NEW state \in SUBSET Bits, NEW session,
         "STARTED" \in mDgnssState => "STARTED" \in state,
         "ENABLE" \in state => "ENABLE" \in mDgnssState,
         "ENABLE" \in state /\ NmeaRequired(ntrip.params) => "NO_NMEA_PENDING" \notin state,
         StopDgnssNtrip(state)
  PROVE  /\ mDgnssState' \subseteq Bits
         /\ ntrip' \in [params : Params \cup {None}, nmea : BOOLEAN]
         /\ Sources(mDgnssState', mNtripParamsString', ntrip', session)
<1>1. ntrip' = [ntrip EXCEPT !.nmea = FALSE] /\ mDgnssState' = state \ {"STARTED"}
  BY DEF StopDgnssNtrip
<1>2. ntrip' \in [params : Params \cup {None}, nmea : BOOLEAN] /\ ntrip'.params = ntrip.params
  BY <1>1 DEF SourceTypes
<1>3. mNtripParamsString' = None
  BY DEF StopDgnssNtrip, Sources
<1>4. "STARTED" \notin mDgnssState' /\ mDgnssState' \subseteq state
  BY <1>1
<1>5. "ENABLE" \in mDgnssState' => ntrip'.params # None
  BY <1>2, <1>4 DEF Sources
<1>6. ~("ENABLE" \in mDgnssState' /\ "NO_NMEA_PENDING" \in mDgnssState' /\ NmeaRequired(ntrip'.params))
  BY <1>2, <1>4
<1> QED  BY <1>2, <1>3, <1>4, <1>5, <1>6 DEF Sources

LEMMA SourceStep ==
  ASSUME SourceInv, [Next]_vars
  PROVE  SourceInv'
<1> SUFFICES ASSUME world' = "source"
             PROVE  SourceTypes' /\ Sources(mDgnssState, mNtripParamsString, ntrip, inSession)'
  BY DEF SourceInv
<1> DEFINE Same == UNCHANGED <<mNtripParamsString, dgnssVars>>
           Goal == SourceTypes' /\ Sources(mDgnssState, mNtripParamsString, ntrip, inSession)'
<1>1. world' = world
  <2>1. ObsStep => world' = world
    BY DEF ObsStep, ObsCalls, ObsHandlers, Subscribe, UpdateSubscription, Unsubscribe, UnsubscribeAll,
           NotifyPlain, EventConnectionStatus, TurnOn, TurnOff, SetSubscriptionObj, ResetBegins,
           ResetNetworkInfo, CallUnchanged, HandleSubscribeReq, HandleUpdateSubscriptionReq,
           HandleUnsubscribeReq, HandleUnsubscribeAllReq, Withdraw, HandleSetSubsObj, HandleNotify, HandleTurn
  <2>2. XtraHandlers \/ (\E lock \in Locks : UpdateLockStatus(lock)) \/ DelayExpires => world' = world
    BY DEF XtraHandlers, HandleOsObserverUpdate, HandleStatusRequest, UpdateLockStatus, DelayExpires, obsVars
  <2>3. DaemonStarts \/ DaemonDies \/ DaemonAsks \/ DaemonIsUpToDate \/ DaemonReads => world' = world
    BY DEF DaemonStarts, DaemonDies, DaemonAsks, DaemonIsUpToDate, DaemonReads, DaemonUnchanged
  <2>4. (\E p \in Params : HandleEnablePPENtrip(p)) \/ HandleDisablePPENtrip
          \/ (\E accepted \in BOOLEAN : UpdateConsent(accepted)) => world' = world
    BY DEF HandleEnablePPENtrip, HandleDisablePPENtrip, UpdateConsent, Sourcing
  <2>5. StartSession \/ StopSession \/ (\E ok \in BOOLEAN : SessionAnswered(ok))
          \/ (\E valid \in BOOLEAN : ReportGGAToNtrip(valid)) => world' = world
    BY DEF StartSession, StopSession, SessionAnswered, ReportGGAToNtrip, Sourcing, obsVars
  <2>6. UNCHANGED vars => world' = world
    BY DEF vars, obsVars
  <2> QED  BY <2>1, <2>2, <2>3, <2>4, <2>5, <2>6, Zenon DEF Next
<1>2. SourceTypes /\ Sources(mDgnssState, mNtripParamsString, ntrip, inSession) /\ world = "source"
  BY <1>1 DEF SourceInv
<1>3. CASE Same
  BY <1>2, <1>3 DEF dgnssVars, SourceTypes, Sources, NmeaRequired
<1>4. CASE ObsStep \/ XtraHandlers \/ (\E lock \in Locks : UpdateLockStatus(lock)) \/ DelayExpires
  <2>1. Same
    BY <1>4 DEF ObsStep, xtraVars, XtraHandlers, HandleOsObserverUpdate, HandleStatusRequest,
                UpdateLockStatus, DelayExpires
  <2> QED  BY <1>3, <2>1
<1>5. CASE DaemonStarts \/ DaemonDies \/ DaemonAsks \/ DaemonIsUpToDate \/ DaemonReads
  <2>1. Same
    BY <1>5 DEF DaemonStarts, DaemonDies, DaemonAsks, DaemonIsUpToDate, DaemonReads, DaemonUnchanged, xtraVars
  <2> QED  BY <1>3, <2>1
<1>6. ASSUME mSendNmeaConsent' = mSendNmeaConsent,
             mDgnssState' \subseteq Bits, ntrip' \in [params : Params \cup {None}, nmea : BOOLEAN],
             inSession' \in BOOLEAN, Sources(mDgnssState', mNtripParamsString', ntrip', inSession')
      PROVE  Goal
  BY <1>6 DEF SourceTypes, Sources, NmeaRequired
<1>7. ASSUME NEW p \in Params, HandleEnablePPENtrip(p)
      PROVE  Goal
  <2>1. /\ ntrip.params \in {None, p} /\ ~(ntrip.params = p /\ "ENABLE" \in mDgnssState)
        /\ ntrip' = [params |-> p, nmea |-> FALSE]
        /\ UNCHANGED <<mSendNmeaConsent, inSession, starting>>
    BY <1>2, <1>7 DEF HandleEnablePPENtrip
  <2>2. mNtripParamsString = None
    BY <1>2, <2>1 DEF Sources
  <2>3. p # None /\ ntrip' \in [params : Params \cup {None}, nmea : BOOLEAN] /\ ntrip'.params = p
    BY <2>1, ParamsAssumption
  <2>4. CASE NmeaRequired(p)
    <3>1. mDgnssState' = {"ENABLE"} /\ mNtripParamsString' = None
      BY <1>7, <2>2, <2>4 DEF HandleEnablePPENtrip
    <3>2. Sources(mDgnssState', mNtripParamsString', ntrip', inSession')
      BY <2>3, <3>1 DEF Sources
    <3> QED  BY <1>2, <1>6, <2>1, <2>3, <3>1, <3>2 DEF Bits, SourceTypes
  <2>5. CASE ~NmeaRequired(p)
    <3> DEFINE state == {"ENABLE", "NO_NMEA_PENDING"}
    <3>1. CheckUpdateDgnssNtrip(state, inSession, FALSE)
      BY <1>7, <2>5 DEF HandleEnablePPENtrip
    <3>2. state \in SUBSET Bits /\ inSession \in BOOLEAN
      BY <1>2 DEF Bits, SourceTypes
    <3>3. Sources(state, mNtripParamsString, ntrip', inSession)
      BY <2>2, <2>3, <2>5 DEF Sources
    <3> HIDE DEF state
    <3>4. mDgnssState' \subseteq Bits /\ Sources(mDgnssState', mNtripParamsString', ntrip', inSession)
      BY <2>3, <3>1, <3>2, <3>3, CheckKeepsSources
    <3> QED  BY <1>6, <2>1, <2>3, <3>2, <3>4
  <2> QED  BY <2>4, <2>5
<1>8. CASE HandleDisablePPENtrip
  <2> DEFINE state == (mDgnssState \ {"ENABLE"}) \cup {"NO_NMEA_PENDING"}
  <2>1. StopDgnssNtrip(state) /\ UNCHANGED <<mSendNmeaConsent, inSession, starting>>
    BY <1>8 DEF HandleDisablePPENtrip
  <2>2. /\ state \in SUBSET Bits /\ "ENABLE" \notin state
        /\ "STARTED" \in mDgnssState => "STARTED" \in state
    BY <1>2 DEF Bits, SourceTypes
  <2> HIDE DEF state
  <2>3. /\ mDgnssState' \subseteq Bits
        /\ ntrip' \in [params : Params \cup {None}, nmea : BOOLEAN]
        /\ Sources(mDgnssState', mNtripParamsString', ntrip', inSession)
    BY <1>2, <2>1, <2>2, StopKeepsSources
  <2> QED  BY <1>2, <1>6, <2>1, <2>3 DEF SourceTypes
<1>9. ASSUME NEW accepted \in BOOLEAN, UpdateConsent(accepted)
      PROVE  FALSE
  BY <1>2, <1>9 DEF UpdateConsent, Sourcing, Event
<1>10. CASE StartSession
  <2>1. inSession' = TRUE /\ UNCHANGED <<mNtripParamsString, mDgnssState, ntrip, mSendNmeaConsent>>
    BY <1>10 DEF StartSession
  <2>2. Sources(mDgnssState', mNtripParamsString', ntrip', inSession')
    BY <1>2, <2>1 DEF Sources
  <2> QED  BY <1>2, <1>6, <2>1, <2>2 DEF SourceTypes
<1>11. CASE StopSession
  <2> DEFINE state == mDgnssState \ (IF NmeaRequired(ntrip.params) THEN {"NO_NMEA_PENDING"} ELSE {})
  <2>1. StopDgnssNtrip(state) /\ inSession' = FALSE /\ UNCHANGED mSendNmeaConsent
    BY <1>11 DEF StopSession
  <2>2. /\ state \in SUBSET Bits
        /\ "ENABLE" \in state => "ENABLE" \in mDgnssState
        /\ "STARTED" \in mDgnssState => "STARTED" \in state
        /\ NmeaRequired(ntrip.params) => "NO_NMEA_PENDING" \notin state
    BY <1>2 DEF Bits, SourceTypes
  <2> HIDE DEF state
  <2>3. /\ mDgnssState' \subseteq Bits
        /\ ntrip' \in [params : Params \cup {None}, nmea : BOOLEAN]
        /\ Sources(mDgnssState', mNtripParamsString', ntrip', inSession')
    BY <1>2, <2>1, <2>2, StopKeepsSources
  <2> QED  BY <1>6, <2>1, <2>3
<1>12. ASSUME NEW ok \in BOOLEAN, SessionAnswered(ok)
       PROVE  Goal
  <2>1. /\ UNCHANGED <<ntrip, mSendNmeaConsent, inSession>>
        /\ CheckUpdateDgnssNtrip(mDgnssState, inSession, FALSE)
    BY <1>2, <1>12 DEF SessionAnswered
  <2>2. /\ mDgnssState \in SUBSET Bits /\ inSession \in BOOLEAN
        /\ ntrip' \in [params : Params \cup {None}, nmea : BOOLEAN]
    BY <1>2, <2>1 DEF SourceTypes
  <2>3. mDgnssState' \subseteq Bits /\ Sources(mDgnssState', mNtripParamsString', ntrip', inSession)
    BY <1>2, <2>1, <2>2, CheckKeepsSources
  <2> QED  BY <1>6, <2>1, <2>2, <2>3
<1>13. ASSUME NEW valid \in BOOLEAN, ReportGGAToNtrip(valid)
       PROVE  Goal
  <2> DEFINE state == mDgnssState \cup {"NO_NMEA_PENDING"}
  <2>1. /\ ntrip' = [ntrip EXCEPT !.nmea = TRUE]
        /\ CheckUpdateDgnssNtrip(state, inSession, valid)
        /\ UNCHANGED <<mSendNmeaConsent, inSession>>
    BY <1>13 DEF ReportGGAToNtrip
  <2>2. /\ state \in SUBSET Bits /\ inSession \in BOOLEAN
        /\ ntrip' \in [params : Params \cup {None}, nmea : BOOLEAN]
        /\ ntrip'.params = ntrip.params /\ ntrip'.nmea = TRUE
    BY <1>2, <2>1 DEF SourceTypes, Bits
  <2>3. Sources(state, mNtripParamsString, ntrip', inSession)
    BY <1>2, <2>2 DEF Sources
  <2> HIDE DEF state
  <2>4. mDgnssState' \subseteq Bits /\ Sources(mDgnssState', mNtripParamsString', ntrip', inSession)
    BY <2>1, <2>2, <2>3, CheckKeepsSources
  <2> QED  BY <1>6, <2>1, <2>2, <2>4
<1>14. CASE UNCHANGED vars
  BY <1>3, <1>14 DEF vars, xtraVars
<1> QED  BY <1>4, <1>5, <1>7, <1>8, <1>9, <1>10, <1>11, <1>12, <1>13, <1>14, Zenon DEF Next

LEMMA SourceInit ==
  ASSUME Init
  PROVE  SourceInv
<1>1. mDgnssState = {} /\ ntrip = [params |-> None, nmea |-> FALSE] /\ inSession = FALSE /\ mNtripParamsString = None
  BY DEF Init, XtraInit
<1> QED  BY <1>1 DEF SourceInv, SourceTypes, Sources

LEMMA SourceFollows ==
  ASSUME KnowInv, SourceInv
  PROVE  SourceStops
<1>1. ASSUME \A k \in DOMAIN msgs : msgs[k].type # "xtra", NEW i \in {"network", "tac", "mccmnc"}
      PROVE  know[i] = seen[Xtra][i]
  <2>1. i \in Items
    BY DEF Items, Plain
  <2> QED  BY <1>1, <2>1 DEF KnowInv, CopiesTell, CopyAt
<1>2. ASSUME world = "source", mNtripParamsString # None
      PROVE  /\ "ENABLE" \in mDgnssState
             /\ inSession
             /\ mSendNmeaConsent /\ mNtripParamsString.params.nmea => mNtripParamsString.nmea
  BY <1>2 DEF SourceInv, Sources
<1> QED  BY <1>1, <1>2 DEF SourceStops

----------------------------------------------------------------------------
(* The daemon.  What it has been sent and has not read, applied to what it     *)
(* knows and runs, makes it know and run what the HAL does, from the answer to *)
(* its request on.                                                             *)

Facts  == Known \cup {lock \ {"NI"} : lock \in Locks}
Starts == [type : {"start"}, params : Params \cup {None}, nmea : BOOLEAN]
Datagram ==
  [type : {"told"}, values : UNION {[D -> Facts] : D \in SUBSET Told}]
    \cup [type : {"halinit", "stop", "nmea"}] \cup Starts

DaemonTypes ==
  /\ know \in [Told -> Facts]
  /\ mReqStatusReceived \in BOOLEAN
  /\ mNtripParamsString \in Starts \cup {None}
  /\ ntrip \in [params : Params \cup {None}, nmea : BOOLEAN]
  /\ toDaemon \in Seq(Datagram)
  /\ daemon \in [up : BOOLEAN, asked : BOOLEAN, knows : [Told -> Facts], source : Starts \cup {None}]
  /\ ~daemon.up => toDaemon = <<>>

IsSource(d)      == d.type \in {"start", "stop"}
LastSource(s, k) == IsSource(s[k]) /\ \A l \in DOMAIN s : l > k => ~IsSource(s[l])
Left(d)          == IF d.type = "start" THEN d ELSE None

SourceTells(s, source, string) ==
  /\ (\A k \in DOMAIN s : ~IsSource(s[k])) => source = string
  /\ \A k \in DOMAIN s : LastSource(s, k) => Left(s[k]) = string

Awaited == \E k \in DOMAIN msgs : msgs[k].type = "status" /\ msgs[k].updated = 0

Answered ==
  daemon.up /\ daemon.asked /\ ~Awaited =>
    /\ mReqStatusReceived
    /\ CopiesTell(toDaemon, "told", Told, daemon.knows, know)
    /\ SourceTells(toDaemon, daemon.source, mNtripParamsString)
(* A restart tells of no source when there is none: then none was left on.     *)
NoneLeft ==
  daemon.up /\ mNtripParamsString = None => SourceTells(toDaemon, daemon.source, None)

DaemonInv == DaemonTypes /\ Answered /\ NoneLeft

LEMMA DatagramFields ==
  ASSUME NEW d \in Datagram
  PROVE  /\ d.type \in {"told", "halinit", "stop", "nmea", "start"}
         /\ d.type = "told" => DOMAIN d.values \in SUBSET Told /\ d.values \in [DOMAIN d.values -> Facts]
         /\ d.type = "start" => d \in Starts
<1>1. CASE d \in [type : {"told"}, values : UNION {[D -> Facts] : D \in SUBSET Told}]
  <2>1. d.type = "told" /\ d.values \in UNION {[D -> Facts] : D \in SUBSET Told}
    BY <1>1
  <2>2. PICK D \in SUBSET Told : d.values \in [D -> Facts]
    BY <2>1
  <2>3. DOMAIN d.values = D
    BY <2>2
  <2> QED  BY <2>1, <2>2, <2>3
<1>2. CASE d \in [type : {"halinit", "stop", "nmea"}]
  BY <1>2
<1>3. CASE d \in Starts
  BY <1>3 DEF Starts
<1> QED  BY <1>1, <1>2, <1>3 DEF Datagram

LEMMA TellsAreDatagrams ==
  ASSUME NEW D \in SUBSET Told, NEW v \in [D -> Facts]
  PROVE  [type |-> "told", values |-> v] \in Datagram
<1>1. v \in UNION {[E -> Facts] : E \in SUBSET Told}
  OBVIOUS
<1> QED  BY <1>1 DEF Datagram

LEMMA OthersAreDatagrams ==
  /\ \A t \in {"halinit", "stop", "nmea"} : [type |-> t] \in Datagram
  /\ \A d \in Starts : d \in Datagram /\ d.type = "start"
BY DEF Datagram, Starts

(* Sending one datagram, none, or two.                                         *)
LEMMA SentIs ==
  ASSUME NEW s \in Seq(Datagram)
  PROVE  /\ s \o <<>> = s
         /\ \A d \in Datagram : s \o <<d>> = Append(s, d)
         /\ s \o (<<>> \o <<>>) = s
         /\ \A d \in Datagram : s \o (<<>> \o <<d>>) = Append(s, d)
         /\ \A d \in Datagram : s \o (<<d>> \o <<>>) = Append(s, d)
         /\ \A d, e \in Datagram : s \o (<<d>> \o <<e>>) = Append(Append(s, d), e)
<1>1. s \o <<>> = s
  OBVIOUS
<1>2. \A d \in Datagram : s \o <<d>> = Append(s, d)
  OBVIOUS
<1>3. <<>> \o <<>> = <<>>
  OBVIOUS
<1>4. \A d \in Datagram : <<>> \o <<d>> = <<d>> /\ <<d>> \o <<>> = <<d>>
  OBVIOUS
<1>5. \A d, e \in Datagram : s \o (<<d>> \o <<e>>) = Append(Append(s, d), e)
  OBVIOUS
<1> QED  BY <1>1, <1>2, <1>3, <1>4, <1>5

LEMMA SourceAppend ==
  ASSUME NEW s \in Seq(Datagram), NEW d \in Datagram, NEW source, NEW string
  PROVE  /\ ~IsSource(d) /\ SourceTells(s, source, string) => SourceTells(Append(s, d), source, string)
         /\ IsSource(d) => SourceTells(Append(s, d), source, Left(d))
<1> DEFINE t == Append(s, d)
<1>1. /\ Len(s) \in Nat /\ DOMAIN s = 1 .. Len(s) /\ DOMAIN t = 1 .. Len(s) + 1
      /\ \A k \in 1 .. Len(s) : t[k] = s[k]
      /\ t[Len(s) + 1] = d
  BY AppendFacts
<1> HIDE DEF t
<1>2. ASSUME ~IsSource(d), SourceTells(s, source, string)
      PROVE  SourceTells(t, source, string)
  <2>1. \A k \in DOMAIN t : IsSource(t[k]) => k \in DOMAIN s /\ t[k] = s[k]
    BY <1>1, <1>2
  <2>2. \A k \in DOMAIN s : k \in DOMAIN t /\ t[k] = s[k]
    BY <1>1
  <2>3. \A k \in DOMAIN t : LastSource(t, k) => LastSource(s, k) /\ k \in DOMAIN s /\ t[k] = s[k]
    BY <2>1, <2>2 DEF LastSource
  <2> QED  BY <1>2, <2>1, <2>2, <2>3 DEF SourceTells
<1>3. ASSUME IsSource(d)
      PROVE  SourceTells(t, source, Left(d))
  <2>1. Len(s) + 1 \in DOMAIN t /\ IsSource(t[Len(s) + 1])
    BY <1>1, <1>3
  <2>2. \A k \in DOMAIN t : LastSource(t, k) => k = Len(s) + 1
    BY <1>1, <2>1 DEF LastSource
  <2> QED  BY <1>1, <2>1, <2>2 DEF SourceTells
<1> QED  BY <1>2, <1>3 DEF t

LEMMA SourceTail ==
  ASSUME NEW s \in Seq(Datagram), s # <<>>, NEW source, NEW source2, NEW string,
         SourceTells(s, source, string),
         source2 = IF IsSource(s[1]) THEN Left(s[1]) ELSE source
  PROVE  SourceTells(Tail(s), source2, string)
<1> DEFINE t == Tail(s)
<1>1. /\ Len(s) \in Nat /\ Len(s) >= 1 /\ DOMAIN s = 1 .. Len(s) /\ DOMAIN t = 1 .. Len(s) - 1
      /\ \A k \in 1 .. Len(s) - 1 : t[k] = s[k + 1]
  BY TailFacts
<1> HIDE DEF t
<1>2. \A k \in DOMAIN s : k = 1 \/ (k - 1 \in DOMAIN t /\ t[k - 1] = s[k])
  BY <1>1
<1>3. ASSUME \A k \in DOMAIN t : ~IsSource(t[k])
      PROVE  source2 = string
  <2>1. \A k \in DOMAIN s : IsSource(s[k]) => k = 1
    BY <1>2, <1>3
  <2>2. 1 \in DOMAIN s
    BY <1>1
  <2>3. CASE IsSource(s[1])
    <3>1. LastSource(s, 1)
      BY <1>1, <2>1, <2>3 DEF LastSource
    <3> QED  BY <2>2, <2>3, <3>1 DEF SourceTells
  <2>4. CASE ~IsSource(s[1])
    BY <2>1, <2>4 DEF SourceTells
  <2> QED  BY <2>3, <2>4
<1>4. ASSUME NEW k \in DOMAIN t, LastSource(t, k)
      PROVE  Left(t[k]) = string
  <2>1. k + 1 \in DOMAIN s /\ t[k] = s[k + 1] /\ IsSource(s[k + 1])
    BY <1>1, <1>4 DEF LastSource
  <2>2. ASSUME NEW l \in DOMAIN s, l > k + 1, IsSource(s[l])
        PROVE  FALSE
    <3>1. l - 1 \in DOMAIN t /\ t[l - 1] = s[l] /\ l - 1 > k
      BY <1>1, <1>2, <2>2
    <3> QED  BY <1>4, <2>2, <3>1 DEF LastSource
  <2>3. LastSource(s, k + 1)
    BY <2>1, <2>2 DEF LastSource
  <2> QED  BY <2>1, <2>3 DEF SourceTells
<1>5. SourceTells(t, source2, string)
  BY <1>3, <1>4 DEF SourceTells
<1> QED  BY <1>5 DEF t

(* A copy of everything.                                                       *)
LEMMA CopiesAll ==
  ASSUME NEW S, NEW s \in Seq(S), NEW x \in S, NEW ty, x.type = ty, NEW known
  PROVE  CopiesTell(Append(s, x), ty, DOMAIN x.values, known, x.values)
<1> DEFINE t == Append(s, x)
           I == DOMAIN x.values
<1>1. /\ Len(s) \in Nat /\ DOMAIN t = 1 .. Len(s) + 1
      /\ t[Len(s) + 1] = x
  BY AppendFacts
<1> HIDE DEF t, I
<1>2. \A i \in I : CopyAt(t, ty, Len(s) + 1, i)
  BY <1>1 DEF CopyAt, I
<1>3. \A i \in I : \A k \in DOMAIN t : LastCopy(t, ty, k, i) => k = Len(s) + 1
  BY <1>1, <1>2 DEF LastCopy
<1>4. Len(s) + 1 \in DOMAIN t
  BY <1>1
<1>5. CopiesTell(t, ty, I, known, x.values)
  BY <1>1, <1>2, <1>3, <1>4 DEF CopiesTell
<1> QED  BY <1>5 DEF t, I

LEMMA SetToSeqIs ==
  ASSUME NEW S, IsFiniteSet(S)
  PROVE  /\ Cardinality(S) \in Nat
         /\ SetToSeq(S) \in [1 .. Cardinality(S) -> S]
         /\ \A k, l \in 1 .. Cardinality(S) : SetToSeq(S)[k] = SetToSeq(S)[l] => k = l
         /\ \A x \in S : \E k \in 1 .. Cardinality(S) : SetToSeq(S)[k] = x
<1> DEFINE n == Cardinality(S)
<1>1. n \in Nat
  BY FS_CardinalityType
<1>2. ExistsBijection(1 .. n, S)
  <2>1. PICK m \in Nat : ExistsBijection(1 .. m, S)
    BY FS_NatBijection
  <2>2. n = m
    BY <2>1, FS_CountingElements
  <2> QED  BY <2>1, <2>2
<1>3. \E f \in [1 .. n -> S] : IsInjective(f)
  BY <1>2 DEF ExistsBijection, Bijection, Injection
<1>4. SetToSeq(S) \in [1 .. n -> S] /\ IsInjective(SetToSeq(S))
  BY <1>3 DEF SetToSeq
<1>5. SetToSeq(S) \in Injection(1 .. n, S)
  BY <1>4 DEF Injection
<1>6. IsFiniteSet(1 .. n) /\ Cardinality(1 .. n) = n
  <2>1. IsFiniteSet(1 .. n) /\ Cardinality(1 .. n) = IF 1 > n THEN 0 ELSE n - 1 + 1
    BY <1>1, FS_Interval
  <2> QED  BY <1>1, <2>1
<1>7. SetToSeq(S) \in Surjection(1 .. n, S)
  BY <1>5, <1>6, FS_Injection
<1>8. \A k, l \in 1 .. n : SetToSeq(S)[k] = SetToSeq(S)[l] => k = l
  BY <1>4 DEF IsInjective
<1>9. \A x \in S : \E k \in 1 .. n : SetToSeq(S)[k] = x
  BY <1>7 DEF Surjection
<1> QED  BY <1>1, <1>4, <1>8, <1>9

(* Each value in a datagram of its own.                                        *)
Singly(v) == [k \in DOMAIN SetToSeq(DOMAIN v) |-> Told1(SetToSeq(DOMAIN v)[k], v[SetToSeq(DOMAIN v)[k]])]

Batch(L, n, f, D, v) ==
  /\ \A k, l \in 1 .. n : f[k] = f[l] => k = l
  /\ \A i \in D : \E k \in 1 .. n : f[k] = i
  /\ L \in Seq(Datagram) /\ Len(L) = n
  /\ \A k \in 1 .. n : /\ L[k].type = "told"
                       /\ DOMAIN L[k].values = {f[k]}
                       /\ L[k].values[f[k]] = v[f[k]]

LEMMA SinglyIs ==
  ASSUME NEW D \in SUBSET Told, NEW v \in [D -> Facts]
  PROVE  \E n \in Nat : \E f \in [1 .. n -> D] : Batch(Singly(v), n, f, D, v)
<1> DEFINE n == Cardinality(D)
           f == SetToSeq(D)
<1>1. IsFiniteSet(D)
  <2>1. IsFiniteSet({}) /\ IsFiniteSet({} \cup {"lock"})
    BY FS_EmptySet, FS_AddElement
  <2>2. IsFiniteSet(({} \cup {"lock"}) \cup {"network"})
    BY <2>1, FS_AddElement
  <2>3. IsFiniteSet((({} \cup {"lock"}) \cup {"network"}) \cup {"tac"})
    BY <2>2, FS_AddElement
  <2>4. IsFiniteSet(((({} \cup {"lock"}) \cup {"network"}) \cup {"tac"}) \cup {"mccmnc"})
    BY <2>3, FS_AddElement
  <2>5. Told = ((({} \cup {"lock"}) \cup {"network"}) \cup {"tac"}) \cup {"mccmnc"}
    BY DEF Told
  <2> QED  BY <2>4, <2>5, FS_Subset
<1>2. /\ n \in Nat /\ f \in [1 .. n -> D]
      /\ \A k, l \in 1 .. n : f[k] = f[l] => k = l
      /\ \A i \in D : \E k \in 1 .. n : f[k] = i
  BY <1>1, SetToSeqIs
<1>3. DOMAIN v = D
  OBVIOUS
<1> HIDE DEF n, f
<1>4. Singly(v) = [k \in 1 .. n |-> Told1(f[k], v[f[k]])]
  BY <1>2, <1>3 DEF Singly, f
<1>5. ASSUME NEW k \in 1 .. n
      PROVE  /\ Told1(f[k], v[f[k]]) \in Datagram
             /\ Told1(f[k], v[f[k]]).type = "told"
             /\ DOMAIN Told1(f[k], v[f[k]]).values = {f[k]}
             /\ Told1(f[k], v[f[k]]).values[f[k]] = v[f[k]]
  <2> DEFINE w == [i \in {f[k]} |-> v[f[k]]]
  <2>1. f[k] \in D /\ v[f[k]] \in Facts
    BY <1>2
  <2>2. w \in [{f[k]} -> Facts] /\ {f[k]} \in SUBSET Told /\ DOMAIN w = {f[k]} /\ w[f[k]] = v[f[k]]
    BY <2>1
  <2>3. Told1(f[k], v[f[k]]) = [type |-> "told", values |-> w]
    BY DEF Told1
  <2> HIDE DEF w
  <2>4. [type |-> "told", values |-> w] \in Datagram
    BY <2>2, TellsAreDatagrams
  <2> QED  BY <2>2, <2>3, <2>4
<1>6. Singly(v) \in Seq(Datagram) /\ Len(Singly(v)) = n
  BY <1>2, <1>4, <1>5
<1>7. \A k \in 1 .. n : Singly(v)[k] = Told1(f[k], v[f[k]])
  BY <1>4
<1>8. Batch(Singly(v), n, f, D, v)
  <2> DEFINE L == Singly(v)
  <2>1. L \in Seq(Datagram) /\ Len(L) = n /\ \A k \in 1 .. n : L[k] = Told1(f[k], v[f[k]])
    BY <1>6, <1>7
  <2> HIDE DEF L
  <2>2. ASSUME NEW k \in 1 .. n
        PROVE  /\ L[k].type = "told"
               /\ DOMAIN L[k].values = {f[k]}
               /\ L[k].values[f[k]] = v[f[k]]
    <3> DEFINE x == Told1(f[k], v[f[k]])
    <3>1. L[k] = x
      BY <2>1
    <3>2. x.type = "told" /\ DOMAIN x.values = {f[k]} /\ x.values[f[k]] = v[f[k]]
      BY <1>5
    <3> HIDE DEF x
    <3> QED  BY <3>1, <3>2
  <2>3. Batch(L, n, f, D, v)
    BY <1>2, <2>1, <2>2 DEF Batch
  <2> QED  BY <2>3 DEF L
<1> QED  BY <1>2, <1>8

LEMMA SinglyTells ==
  ASSUME NEW s \in Seq(Datagram), NEW D \in SUBSET Told, NEW v \in [D -> Facts],
         NEW knows, NEW known, NEW source, NEW string
  PROVE  /\ s \o Singly(v) \in Seq(Datagram)
         /\ CopiesTell(s, "told", Told, knows, known) =>
              CopiesTell(s \o Singly(v), "told", Told, knows, Learnt(v, known))
         /\ SourceTells(s, source, string) => SourceTells(s \o Singly(v), source, string)
<1> DEFINE L == Singly(v)
           t == s \o L
<1>1. PICK n \in Nat : \E f \in [1 .. n -> D] : Batch(L, n, f, D, v)
  BY SinglyIs
<1>2. PICK f \in [1 .. n -> D] : Batch(L, n, f, D, v)
  BY <1>1
<1>3. /\ \A k, l \in 1 .. n : f[k] = f[l] => k = l
      /\ \A i \in D : \E k \in 1 .. n : f[k] = i
      /\ L \in Seq(Datagram) /\ Len(L) = n
      /\ \A k \in 1 .. n : /\ L[k].type = "told"
                           /\ DOMAIN L[k].values = {f[k]}
                           /\ L[k].values[f[k]] = v[f[k]]
  BY <1>2 DEF Batch
<1>4. L \in Seq(Datagram) /\ Len(L) = n
  BY <1>3
<1> HIDE DEF L
<1> DEFINE m == Len(s)
<1>5. /\ t \in Seq(Datagram) /\ m \in Nat /\ DOMAIN s = 1 .. m /\ DOMAIN t = 1 .. m + n
      /\ \A k \in 1 .. m : t[k] = s[k]
      /\ \A k \in 1 .. n : t[m + k] = L[k]
  <2>1. /\ t \in Seq(Datagram) /\ m \in Nat /\ Len(t) = m + n
        /\ \A k \in 1 .. m + n : t[k] = IF k <= m THEN s[k] ELSE L[k - m]
    BY <1>4
  <2>2. DOMAIN s = 1 .. m /\ DOMAIN t = 1 .. m + n
    BY <2>1
  <2> HIDE DEF t, m
  <2>3. ASSUME NEW k \in 1 .. m
        PROVE  t[k] = s[k]
    <3>1. k \in 1 .. m + n /\ k <= m
      BY <2>1
    <3> QED  BY <2>1, <3>1
  <2>4. ASSUME NEW k \in 1 .. n
        PROVE  t[m + k] = L[k]
    <3>1. m + k \in 1 .. m + n /\ ~ (m + k <= m) /\ (m + k) - m = k
      BY <2>1
    <3> QED  BY <2>1, <3>1
  <2> QED  BY <2>1, <2>2, <2>3, <2>4
<1> HIDE DEF t, m
<1>6. ASSUME NEW k \in DOMAIN t
      PROVE  \/ k \in DOMAIN s /\ t[k] = s[k]
             \/ k > m /\ k - m \in 1 .. n /\ t[k] = L[k - m]
  <2>1. k \in 1 .. m \/ (k > m /\ k - m \in 1 .. n /\ k = m + (k - m))
    BY <1>5
  <2> QED  BY <1>5, <2>1
<1>7. \A k \in DOMAIN s : k \in DOMAIN t /\ t[k] = s[k]
  BY <1>3, <1>5
<1>8. \A k \in 1 .. n : m + k \in DOMAIN t /\ m + k > m /\ t[m + k] = L[k]
  BY <1>3, <1>5
<1>9. ASSUME CopiesTell(s, "told", Told, knows, known)
      PROVE  CopiesTell(t, "told", Told, knows, Learnt(v, known))
  <2>1. \A i \in Told : Learnt(v, known)[i] = IF i \in D THEN v[i] ELSE known[i]
    BY DEF Learnt
  <2>2. ASSUME NEW i \in D
        PROVE  /\ \E k \in DOMAIN t : CopyAt(t, "told", k, i)
               /\ \A k \in DOMAIN t : LastCopy(t, "told", k, i) => t[k].values[i] = v[i]
    <3>1. PICK p \in 1 .. n : f[p] = i
      BY <1>3
    <3>2. m + p \in DOMAIN t /\ t[m + p] = L[p] /\ m + p > m
      BY <1>8
    <3>3. CopyAt(t, "told", m + p, i)
      BY <1>3, <3>1, <3>2 DEF CopyAt
    <3>4. ASSUME NEW k \in DOMAIN t, LastCopy(t, "told", k, i)
          PROVE  t[k].values[i] = v[i]
      <4>1. k \notin DOMAIN s
        BY <1>5, <3>2, <3>3, <3>4 DEF LastCopy
      <4>2. k - m \in 1 .. n /\ t[k] = L[k - m]
        BY <1>6, <4>1
      <4>3. i \in DOMAIN t[k].values
        BY <3>4 DEF LastCopy, CopyAt
      <4>4. f[k - m] = i
        BY <1>3, <4>2, <4>3
      <4> QED  BY <1>3, <4>2, <4>4
    <3> QED  BY <3>2, <3>3, <3>4
  <2>3. ASSUME NEW i \in Told, i \notin D
        PROVE  \A k : CopyAt(t, "told", k, i) <=> CopyAt(s, "told", k, i)
    <3>1. \A k \in 1 .. n : i \notin DOMAIN L[k].values
      BY <1>3, <2>3
    <3>2. \A k : CopyAt(t, "told", k, i) => CopyAt(s, "told", k, i)
      BY <1>6, <3>1 DEF CopyAt
    <3>3. \A k : CopyAt(s, "told", k, i) => CopyAt(t, "told", k, i)
      BY <1>7 DEF CopyAt
    <3> QED  BY <3>2, <3>3
  <2>4. ASSUME NEW i \in Told, \A k \in DOMAIN t : ~CopyAt(t, "told", k, i)
        PROVE  knows[i] = Learnt(v, known)[i]
    <3>1. i \notin D
      BY <2>2, <2>4
    <3>2. \A k \in DOMAIN s : ~CopyAt(s, "told", k, i)
      BY <1>7, <2>3, <2>4, <3>1
    <3> QED  BY <1>9, <2>1, <3>1, <3>2 DEF CopiesTell
  <2>5. ASSUME NEW i \in Told, NEW k \in DOMAIN t, LastCopy(t, "told", k, i)
        PROVE  t[k].values[i] = Learnt(v, known)[i]
    <3>1. CASE i \in D
      BY <2>1, <2>2, <2>5, <3>1
    <3>2. CASE i \notin D
      <4>1. CopyAt(s, "told", k, i) /\ k \in DOMAIN s /\ t[k] = s[k]
        BY <1>7, <2>3, <2>5, <3>2 DEF LastCopy, CopyAt
      <4>2. LastCopy(s, "told", k, i)
        BY <1>7, <2>3, <2>5, <3>2, <4>1 DEF LastCopy
      <4> QED  BY <1>9, <2>1, <3>2, <4>1, <4>2 DEF CopiesTell
    <3> QED  BY <3>1, <3>2
  <2> QED  BY <2>4, <2>5 DEF CopiesTell
<1>10. ASSUME SourceTells(s, source, string)
      PROVE  SourceTells(t, source, string)
  <2>1. \A k \in 1 .. n : ~IsSource(L[k])
    BY <1>3 DEF IsSource
  <2>2. \A k \in DOMAIN t : IsSource(t[k]) => k \in DOMAIN s /\ t[k] = s[k]
    BY <1>6, <2>1
  <2>3. \A k \in DOMAIN t : LastSource(t, k) => LastSource(s, k) /\ k \in DOMAIN s /\ t[k] = s[k]
    BY <1>7, <2>2 DEF LastSource
  <2> QED  BY <1>7, <1>10, <2>2, <2>3 DEF SourceTells
<1> QED  BY <1>5, <1>9, <1>10 DEF t, L

LEMMA SentWhenUp ==
  ASSUME NEW ds
  PROVE  /\ daemon.up => Sent(ds) = toDaemon \o ds
         /\ ~daemon.up => Sent(ds) = toDaemon
BY DEF Sent

(* Nothing of the daemon's changes, and no request of it is answered.          *)
LEMMA DaemonStays ==
  ASSUME DaemonInv, UNCHANGED <<know, mReqStatusReceived, mNtripParamsString, toDaemon, daemon>>,
         ntrip' \in [params : Params \cup {None}, nmea : BOOLEAN], Awaited => Awaited'
  PROVE  DaemonInv'
BY DEF DaemonInv, DaemonTypes, Answered, NoneLeft

(* The handlers of the OS observer leave requests of the daemon alone.         *)
LEMMA StillAwaited ==
  ASSUME Typed, [Next]_vars, Posts \/ Idles \/ Turns \/ Handles \/ HandleOsObserverUpdate
  PROVE  Awaited => Awaited'
<1> SUFFICES ASSUME Awaited
             PROVE  Awaited'
  OBVIOUS
<1>1. PICK k \in DOMAIN msgs : msgs[k].type = "status" /\ msgs[k].updated = 0
  BY DEF Awaited
<1>2. msgs \in Seq(Message)
  BY DEF Typed, QueueTypes
<1>3. ASSUME NEW m \in Message, msgs' = Append(msgs, m)
      PROVE  Awaited'
  <2>1. k \in DOMAIN msgs' /\ msgs'[k] = msgs[k]
    BY <1>2, <1>3, AppendFacts
  <2> QED  BY <1>1, <2>1 DEF Awaited
<1>4. CASE Posts
  BY <1>3, <1>4 DEF Posts
<1>5. CASE Idles
  BY <1>1, <1>5 DEF Idles, Awaited
<1>6. CASE Turns
  <2>1. ASSUME NEW item \in Plain, NEW b \in BOOLEAN, Post([type |-> "turn", item |-> item, on |-> b])
        PROVE  Awaited'
    <3>1. [type |-> "turn", item |-> item, on |-> b] \in Message
      BY MessagesAreRecords
    <3> QED  BY <1>3, <2>1, <3>1 DEF Post
  <2>2. CASE msgs' = msgs
    BY <1>1, <2>2 DEF Awaited
  <2> QED  BY <1>6, <2>1, <2>2 DEF Turns, TurnOn, TurnOff
<1>7. ASSUME msgs # <<>>, msgs[1].type # "status",
             \/ msgs' = Tail(msgs)
             \/ \E x \in Message : msgs' = Append(Tail(msgs), x)
      PROVE  Awaited'
  <2> DEFINE t == Tail(msgs)
  <2>1. /\ Len(msgs) \in Nat /\ Len(msgs) >= 1 /\ DOMAIN msgs = 1 .. Len(msgs) /\ DOMAIN t = 1 .. Len(msgs) - 1
        /\ \A l \in 1 .. Len(msgs) - 1 : t[l] = msgs[l + 1]
        /\ t \in Seq(Message)
    BY <1>2, <1>7, TailFacts
  <2> HIDE DEF t
  <2>2. k # 1
    BY <1>1, <1>7
  <2>3. k - 1 \in DOMAIN t /\ t[k - 1] = msgs[k]
    BY <2>1, <2>2
  <2>4. k - 1 \in DOMAIN msgs' /\ msgs'[k - 1] = msgs[k]
    <3>1. CASE msgs' = t
      BY <2>3, <3>1
    <3>2. ASSUME NEW x \in Message, msgs' = Append(t, x)
          PROVE  k - 1 \in DOMAIN msgs' /\ msgs'[k - 1] = msgs[k]
      BY <2>1, <2>3, <3>2, AppendFacts
    <3> QED  BY <1>7, <3>1, <3>2 DEF t
  <2> QED  BY <1>1, <2>4 DEF Awaited
<1>8. CASE HandleTurn
  BY <1>7, <1>8 DEF HandleTurn, Receives
<1>9. CASE Handles /\ ~HandleTurn
  <2>1. /\ msgs # <<>>
        /\ \/ msgs' = Tail(msgs)
           \/ \E x \in Message : x.type = "xtra" /\ msgs' = Append(Tail(msgs), x)
    BY <1>9, OthersTake
  <2>2. msgs[1].type # "status"
    BY <1>9 DEF Handles, ObsHandlers, HandleSubscribeReq, HandleUpdateSubscriptionReq, HandleUnsubscribeReq,
                HandleUnsubscribeAllReq, HandleSetSubsObj, HandleNotify, Receives
  <2> QED  BY <1>7, <2>1, <2>2
<1>10. CASE HandleOsObserverUpdate
  BY <1>7, <1>10 DEF HandleOsObserverUpdate, Receives
<1> QED  BY <1>4, <1>5, <1>6, <1>8, <1>9, <1>10

(* The XTRA observer learns, and tells the daemon.                             *)
LEMMA DaemonIsTold ==
  ASSUME DaemonInv, NEW D \in SUBSET Told, NEW v \in [D -> Facts], Update(v),
         UNCHANGED <<mReqStatusReceived, mNtripParamsString, daemon, ntrip>>, Awaited => Awaited'
  PROVE  DaemonInv'
<1>1. know' = Learnt(v, know) /\ toDaemon' = IF mReqStatusReceived THEN Sent(Singly(v)) ELSE toDaemon
  BY DEF Update, Singly
<1>2. know' \in [Told -> Facts]
  BY <1>1 DEF Learnt, DaemonInv, DaemonTypes
<1>3. toDaemon \in Seq(Datagram)
  BY DEF DaemonInv, DaemonTypes
<1>4. /\ toDaemon \o Singly(v) \in Seq(Datagram)
      /\ CopiesTell(toDaemon, "told", Told, daemon.knows, know) =>
           CopiesTell(toDaemon \o Singly(v), "told", Told, daemon.knows, know')
      /\ SourceTells(toDaemon, daemon.source, mNtripParamsString) =>
           SourceTells(toDaemon \o Singly(v), daemon.source, mNtripParamsString)
      /\ SourceTells(toDaemon, daemon.source, None) => SourceTells(toDaemon \o Singly(v), daemon.source, None)
  BY <1>1, <1>3, SinglyTells
<1>5. toDaemon' = toDaemon \o Singly(v) \/ (toDaemon' = toDaemon /\ (~daemon.up \/ ~mReqStatusReceived))
  BY <1>1, SentWhenUp DEF DaemonInv, DaemonTypes
<1>6. ~daemon.up => toDaemon' = toDaemon
  BY <1>1, SentWhenUp
<1>7. DaemonTypes'
  BY <1>2, <1>3, <1>4, <1>5, <1>6 DEF DaemonInv, DaemonTypes
<1>8. Answered'
  BY <1>1, <1>4, <1>5 DEF DaemonInv, Answered
<1>9. NoneLeft'
  BY <1>4, <1>5 DEF DaemonInv, NoneLeft
<1> QED  BY <1>7, <1>8, <1>9 DEF DaemonInv

(* What the adapter may do to the source.                                      *)
Commands ==
  \/ UNCHANGED <<mNtripParamsString, toDaemon>>
  \/ UNCHANGED mNtripParamsString /\ toDaemon' = Sent(<<[type |-> "nmea"]>>)
  \/ UNCHANGED mNtripParamsString /\ toDaemon' = Sent(<<[type |-> "halinit"]>>)
  \/ mNtripParamsString' = None /\ toDaemon' = Sent(<<[type |-> "stop"]>>)
  \/ \E start \in Starts : mNtripParamsString' = start /\ toDaemon' = Sent(<<start>>)

LEMMA CommandKeepsDaemon ==
  ASSUME DaemonInv, Commands, UNCHANGED <<know, mReqStatusReceived, daemon, msgs>>,
         ntrip' \in [params : Params \cup {None}, nmea : BOOLEAN]
  PROVE  DaemonInv'
<1>1. Awaited' = Awaited
  BY DEF Awaited
<1>2. toDaemon \in Seq(Datagram) /\ mNtripParamsString \in Starts \cup {None}
  BY DEF DaemonInv, DaemonTypes
<1>3. CASE UNCHANGED <<mNtripParamsString, toDaemon>>
  BY <1>1, <1>3, DaemonStays
<1>4. ASSUME NEW d \in Datagram, d.type # "told", toDaemon' = Sent(<<d>>),
             mNtripParamsString' \in Starts \cup {None},
             IF IsSource(d) THEN mNtripParamsString' = Left(d) ELSE mNtripParamsString' = mNtripParamsString
      PROVE  DaemonInv'
  <2>1. daemon.up => toDaemon' = Append(toDaemon, d)
    <3>1. toDaemon \o <<d>> = Append(toDaemon, d)
      BY <1>2, SentIs
    <3>2. daemon.up => Sent(<<d>>) = toDaemon \o <<d>>
      BY SentWhenUp
    <3> QED  BY <1>4, <3>1, <3>2
  <2>2. ~daemon.up => toDaemon' = toDaemon
    BY <1>4, SentWhenUp
  <2>3. toDaemon' \in Seq(Datagram)
    <3>1. Append(toDaemon, d) \in Seq(Datagram)
      BY <1>2, AppendFacts
    <3> QED  BY <1>2, <2>1, <2>2, <3>1
  <2>4. DaemonTypes'
    BY <1>4, <2>2, <2>3 DEF DaemonInv, DaemonTypes
  <2>5. CopiesTell(toDaemon, "told", Told, daemon.knows, know) =>
          CopiesTell(Append(toDaemon, d), "told", Told, daemon.knows, know)
    BY <1>2, <1>4, CopiesAppend
  <2>6. IsSource(d) => SourceTells(Append(toDaemon, d), daemon.source, mNtripParamsString')
    BY <1>2, <1>4, SourceAppend
  <2>7. ~IsSource(d) => /\ SourceTells(toDaemon, daemon.source, mNtripParamsString) =>
                             SourceTells(Append(toDaemon, d), daemon.source, mNtripParamsString)
                        /\ SourceTells(toDaemon, daemon.source, None) =>
                             SourceTells(Append(toDaemon, d), daemon.source, None)
    BY <1>2, <1>4, SourceAppend
  <2>8. Answered'
    BY <1>1, <1>4, <2>1, <2>5, <2>6, <2>7 DEF DaemonInv, Answered
  <2>9. NoneLeft'
    BY <1>4, <2>1, <2>6, <2>7 DEF DaemonInv, NoneLeft
  <2> QED  BY <2>4, <2>8, <2>9 DEF DaemonInv
<1>5. ASSUME NEW ty \in {"nmea", "halinit"}, UNCHANGED mNtripParamsString, toDaemon' = Sent(<<[type |-> ty]>>)
      PROVE  DaemonInv'
  <2> DEFINE d == [type |-> ty]
  <2>1. d \in Datagram /\ d.type = ty
    BY OthersAreDatagrams
  <2> HIDE DEF d
  <2>2. d.type # "told" /\ ~IsSource(d)
    BY <2>1 DEF IsSource
  <2>3. toDaemon' = Sent(<<d>>)
    BY <1>5 DEF d
  <2> QED  BY <1>2, <1>4, <1>5, <2>1, <2>2, <2>3
<1>6. CASE mNtripParamsString' = None /\ toDaemon' = Sent(<<[type |-> "stop"]>>)
  <2> DEFINE d == [type |-> "stop"]
  <2>1. d \in Datagram /\ d.type = "stop"
    BY OthersAreDatagrams
  <2> HIDE DEF d
  <2>2. d.type # "told" /\ IsSource(d) /\ Left(d) = None
    BY <2>1 DEF IsSource, Left
  <2>3. toDaemon' = Sent(<<d>>)
    BY <1>6 DEF d
  <2> QED  BY <1>4, <1>6, <2>1, <2>2, <2>3
<1>7. ASSUME NEW start \in Starts, mNtripParamsString' = start, toDaemon' = Sent(<<start>>)
      PROVE  DaemonInv'
  <2>1. start \in Datagram /\ start.type = "start"
    BY OthersAreDatagrams
  <2>2. start.type # "told" /\ IsSource(start) /\ Left(start) = start
    BY <2>1 DEF IsSource, Left
  <2> QED  BY <1>4, <1>7, <2>1, <2>2
<1> QED  BY <1>3, <1>5, <1>6, <1>7 DEF Commands

(* The answer to a request: everything that is known, and the running source.  *)
LEMMA AnswerKeepsDaemon ==
  ASSUME Typed, DaemonInv, HandleStatusRequest
  PROVE  DaemonInv'
<1> DEFINE tell == [type |-> "told", values |-> know]
           u    == Msg.updated
           first  == IF u = 0 THEN <<tell>> ELSE <<>>
           second == IF mNtripParamsString = None THEN <<>> ELSE <<mNtripParamsString>>
           src    == daemon.source
<1>1. /\ mReqStatusReceived' = TRUE
      /\ toDaemon' = Sent(first \o second)
      /\ msgs # <<>> /\ msgs[1].type = "status" /\ Msg = msgs[1] /\ msgs' = Tail(msgs)
      /\ UNCHANGED <<know, mNtripParamsString, daemon, ntrip>>
  BY DEF HandleStatusRequest, StatusRequested, Receives, Msg, dgnssVars
<1>2. /\ toDaemon \in Seq(Datagram) /\ know \in [Told -> Facts]
      /\ mNtripParamsString \in Starts \cup {None}
  BY DEF DaemonInv, DaemonTypes
<1>3. tell \in Datagram /\ tell.type = "told" /\ tell.values = know /\ DOMAIN tell.values = Told
  BY <1>2, TellsAreDatagrams
<1> HIDE DEF tell
<1>4. ~IsSource(tell)
  BY <1>3 DEF IsSource
<1>5. mNtripParamsString # None =>
        /\ mNtripParamsString \in Datagram /\ mNtripParamsString.type = "start"
        /\ IsSource(mNtripParamsString) /\ Left(mNtripParamsString) = mNtripParamsString
  BY <1>2, OthersAreDatagrams DEF IsSource, Left
(* What is left to read after the first part of the answer.                    *)
<1> DEFINE q == IF u = 0 THEN Append(toDaemon, tell) ELSE toDaemon
<1>6. q \in Seq(Datagram)
  BY <1>2, <1>3, AppendFacts
<1>7. u = 0 => CopiesTell(q, "told", Told, daemon.knows, know)
  BY <1>2, <1>3, CopiesAll
<1>8. \A s : SourceTells(toDaemon, src, s) => SourceTells(q, src, s)
  BY <1>2, <1>3, <1>4, SourceAppend
<1>9. daemon.up => toDaemon' = IF mNtripParamsString = None THEN q ELSE Append(q, mNtripParamsString)
  <2> SUFFICES ASSUME daemon.up
               PROVE  toDaemon' = IF mNtripParamsString = None THEN q ELSE Append(q, mNtripParamsString)
    OBVIOUS
  <2>1. toDaemon' = toDaemon \o (first \o second)
    BY <1>1, SentWhenUp
  <2>2. CASE u = 0 /\ mNtripParamsString = None
    <3>1. toDaemon \o (<<tell>> \o <<>>) = Append(toDaemon, tell)
      BY <1>2, <1>3, SentIs
    <3> QED  BY <2>1, <2>2, <3>1
  <2>3. CASE u = 0 /\ mNtripParamsString # None
    <3>1. toDaemon \o (<<tell>> \o <<mNtripParamsString>>) = Append(Append(toDaemon, tell), mNtripParamsString)
      BY <1>2, <1>3, <1>5, <2>3, SentIs
    <3> QED  BY <2>1, <2>3, <3>1
  <2>4. CASE u # 0 /\ mNtripParamsString = None
    <3>1. toDaemon \o (<<>> \o <<>>) = toDaemon
      BY <1>2, SentIs
    <3> QED  BY <2>1, <2>4, <3>1
  <2>5. CASE u # 0 /\ mNtripParamsString # None
    <3>1. toDaemon \o (<<>> \o <<mNtripParamsString>>) = Append(toDaemon, mNtripParamsString)
      BY <1>2, <1>5, <2>5, SentIs
    <3> QED  BY <2>1, <2>5, <3>1
  <2> QED  BY <2>2, <2>3, <2>4, <2>5
<1>10. ~daemon.up => toDaemon' = toDaemon
  BY <1>1, SentWhenUp
<1> HIDE DEF q, u, first, second, src
<1>11. toDaemon' \in Seq(Datagram)
  <2>1. mNtripParamsString # None => Append(q, mNtripParamsString) \in Seq(Datagram)
    BY <1>5, <1>6, AppendFacts
  <2> QED  BY <1>2, <1>6, <1>9, <1>10, <2>1
<1>12. DaemonTypes'
  BY <1>1, <1>10, <1>11 DEF DaemonInv, DaemonTypes
<1>13. daemon.up => SourceTells(toDaemon', src, mNtripParamsString)
  <2>1. CASE mNtripParamsString = None
    BY <1>8, <1>9, <2>1 DEF DaemonInv, NoneLeft, src
  <2>2. CASE mNtripParamsString # None
    <3>1. SourceTells(Append(q, mNtripParamsString), src, mNtripParamsString)
      BY <1>5, <1>6, <2>2, SourceAppend
    <3> QED  BY <1>9, <2>2, <3>1
  <2> QED  BY <2>1, <2>2
<1>14. CopiesTell(q, "told", Told, daemon.knows, know) /\ daemon.up =>
         CopiesTell(toDaemon', "told", Told, daemon.knows, know)
  <2>1. mNtripParamsString # None /\ CopiesTell(q, "told", Told, daemon.knows, know) =>
          CopiesTell(Append(q, mNtripParamsString), "told", Told, daemon.knows, know)
    <3> SUFFICES ASSUME mNtripParamsString # None, CopiesTell(q, "told", Told, daemon.knows, know)
                 PROVE  CopiesTell(Append(q, mNtripParamsString), "told", Told, daemon.knows, know)
      OBVIOUS
    <3>1. mNtripParamsString \in Datagram /\ mNtripParamsString.type # "told"
      BY <1>5
    <3> QED  BY <1>6, <3>1, CopiesAppend
  <2> QED  BY <1>9, <2>1
<1>15. u = 0 \/ (Awaited => Awaited')
  <2> SUFFICES ASSUME u # 0, Awaited
               PROVE  Awaited'
    OBVIOUS
  <2>1. PICK k \in DOMAIN msgs : msgs[k].type = "status" /\ msgs[k].updated = 0
    BY DEF Awaited
  <2>2. k # 1
    BY <1>1, <2>1 DEF u
  <2>3. k - 1 \in DOMAIN Tail(msgs) /\ Tail(msgs)[k - 1] = msgs[k]
    <3>1. /\ Len(msgs) \in Nat /\ DOMAIN msgs = 1 .. Len(msgs) /\ DOMAIN Tail(msgs) = 1 .. Len(msgs) - 1
          /\ \A l \in 1 .. Len(msgs) - 1 : Tail(msgs)[l] = msgs[l + 1]
      BY <1>1, TailFacts DEF Typed, QueueTypes
    <3>2. k - 1 \in 1 .. Len(msgs) - 1 /\ k - 1 + 1 = k
      BY <2>1, <2>2, <3>1
    <3>3. Tail(msgs)[k - 1] = msgs[k - 1 + 1]
      BY <3>1, <3>2
    <3> QED  BY <3>1, <3>2, <3>3
  <2> QED  BY <1>1, <2>1, <2>3 DEF Awaited
<1>16. Answered'
  <2> SUFFICES ASSUME daemon.up, daemon.asked, ~Awaited'
               PROVE  /\ mReqStatusReceived'
                      /\ CopiesTell(toDaemon', "told", Told, daemon.knows, know)
                      /\ SourceTells(toDaemon', src, mNtripParamsString)
    BY <1>1 DEF Answered, src
  <2>1. CopiesTell(q, "told", Told, daemon.knows, know)
    <3>1. CASE u = 0
      BY <1>7, <3>1
    <3>2. CASE u # 0
      <4>1. CopiesTell(toDaemon, "told", Told, daemon.knows, know)
        BY <1>15, <3>2 DEF DaemonInv, Answered
      <4> QED  BY <3>2, <4>1 DEF q
    <3> QED  BY <3>1, <3>2
  <2> QED  BY <1>1, <1>13, <1>14, <2>1
<1>17. NoneLeft'
  BY <1>1, <1>13 DEF NoneLeft, src
<1> QED  BY <1>12, <1>16, <1>17 DEF DaemonInv

LEMMA ReadKeepsDaemon ==
  ASSUME DaemonInv, DaemonReads
  PROVE  DaemonInv'
<1> DEFINE d == toDaemon[1]
<1>1. /\ daemon.up /\ toDaemon # <<>> /\ toDaemon' = Tail(toDaemon)
      /\ UNCHANGED <<msgs, know, mReqStatusReceived, mNtripParamsString, ntrip>>
  BY DEF DaemonReads, DaemonUnchanged, xtraVars, dgnssVars
<1>2. /\ toDaemon \in Seq(Datagram)
      /\ daemon \in [up : BOOLEAN, asked : BOOLEAN, knows : [Told -> Facts], source : Starts \cup {None}]
  BY DEF DaemonInv, DaemonTypes
<1>3. daemon' = CASE d.type = "told"    -> [daemon EXCEPT !.knows = Learnt(d.values, @)]
                  [] d.type = "halinit" -> [daemon EXCEPT !.asked = FALSE]
                  [] d.type = "start"   -> [daemon EXCEPT !.source = d]
                  [] d.type = "stop"    -> [daemon EXCEPT !.source = None]
                  [] d.type = "nmea"    -> daemon
  BY DEF DaemonReads
<1>4. d \in Datagram /\ 1 \in DOMAIN toDaemon /\ Tail(toDaemon) \in Seq(Datagram)
  BY <1>1, <1>2, TailFacts
<1> HIDE DEF d
<1>5. /\ d.type \in {"told", "halinit", "stop", "nmea", "start"}
      /\ d.type = "told" => DOMAIN d.values \in SUBSET Told /\ d.values \in [DOMAIN d.values -> Facts]
      /\ d.type = "start" => d \in Starts
  BY <1>4, DatagramFields
<1>6. /\ daemon'.up = daemon.up
      /\ daemon'.asked = IF d.type = "halinit" THEN FALSE ELSE daemon.asked
      /\ daemon'.knows = IF d.type = "told" THEN Learnt(d.values, daemon.knows) ELSE daemon.knows
      /\ daemon'.source = IF IsSource(d) THEN Left(d) ELSE daemon.source
  BY <1>2, <1>3, <1>5 DEF IsSource, Left
<1>7. d.type = "told" => Learnt(d.values, daemon.knows) \in [Told -> Facts]
  BY <1>2, <1>5 DEF Learnt
<1>8. daemon' \in [up : BOOLEAN, asked : BOOLEAN, knows : [Told -> Facts], source : Starts \cup {None}]
  <2>1. CASE d.type = "told"
    BY <1>2, <1>3, <1>7, <2>1
  <2>2. CASE d.type # "told"
    BY <1>2, <1>3, <1>5, <2>2
  <2> QED  BY <2>1, <2>2
<1>9. DaemonTypes'
  BY <1>1, <1>4, <1>6, <1>8 DEF DaemonInv, DaemonTypes
<1>10. \A s : SourceTells(toDaemon, daemon.source, s) => SourceTells(Tail(toDaemon), daemon'.source, s)
  BY <1>1, <1>2, <1>6, SourceTail DEF d
<1>11. CopiesTell(toDaemon, "told", Told, daemon.knows, know) =>
         CopiesTell(Tail(toDaemon), "told", Told, daemon'.knows, know)
  <2>1. \A i : CopyAt(toDaemon, "told", 1, i) <=> d.type = "told" /\ i \in DOMAIN d.values
    BY <1>4 DEF CopyAt, d
  <2>2. \A i \in Told : daemon'.knows[i] = IF CopyAt(toDaemon, "told", 1, i) THEN d.values[i] ELSE daemon.knows[i]
    <3>1. CASE d.type = "told"
      BY <1>6, <2>1, <3>1 DEF Learnt
    <3>2. CASE d.type # "told"
      BY <1>6, <2>1, <3>2
    <3> QED  BY <3>1, <3>2
  <2> QED  BY <1>1, <1>2, <2>2, CopiesTail DEF d
<1>12. Awaited' = Awaited
  BY <1>1 DEF Awaited
<1>13. Answered'
  BY <1>1, <1>6, <1>10, <1>11, <1>12 DEF DaemonInv, Answered
<1>14. NoneLeft'
  BY <1>1, <1>6, <1>10 DEF DaemonInv, NoneLeft
<1> QED  BY <1>9, <1>13, <1>14 DEF DaemonInv

LEMMA LivesKeepDaemon ==
  ASSUME Typed, DaemonInv, DaemonStarts \/ DaemonDies \/ DaemonAsks \/ DaemonIsUpToDate
  PROVE  DaemonInv'
<1>1. UNCHANGED <<know, mReqStatusReceived, mNtripParamsString, ntrip>>
  BY DEF DaemonStarts, DaemonDies, DaemonAsks, DaemonIsUpToDate, DaemonUnchanged, xtraVars, dgnssVars
<1>2. Nothing \in [Told -> Facts]
  BY DEF Nothing, Facts, Known
<1>3. /\ toDaemon \in Seq(Datagram) /\ (~daemon.up => toDaemon = <<>>)
      /\ daemon \in [up : BOOLEAN, asked : BOOLEAN, knows : [Told -> Facts], source : Starts \cup {None}]
  BY DEF DaemonInv, DaemonTypes
<1>4. msgs \in Seq(Message)
  BY DEF Typed, QueueTypes
<1>5. CASE DaemonStarts
  <2>1. daemon' = [up |-> TRUE, asked |-> FALSE, knows |-> Nothing, source |-> None] /\ toDaemon' = <<>>
    BY <1>3, <1>5 DEF DaemonStarts, Off
  <2>2. DaemonTypes'
    BY <1>1, <1>2, <2>1 DEF DaemonInv, DaemonTypes
  <2>3. SourceTells(<<>>, None, None)
    BY DEF SourceTells
  <2> QED  BY <2>1, <2>2, <2>3 DEF DaemonInv, Answered, NoneLeft
<1>6. CASE DaemonDies
  <2>1. daemon' = [up |-> FALSE, asked |-> FALSE, knows |-> Nothing, source |-> None] /\ toDaemon' = <<>>
    BY <1>6 DEF DaemonDies, Off
  <2>2. DaemonTypes'
    BY <1>1, <1>2, <2>1 DEF DaemonInv, DaemonTypes
  <2> QED  BY <2>1, <2>2 DEF DaemonInv, Answered, NoneLeft
<1>7. CASE DaemonAsks
  <2>1. /\ daemon' = [daemon EXCEPT !.asked = TRUE] /\ toDaemon' = toDaemon
        /\ msgs' = Append(msgs, [type |-> "status", updated |-> 0])
    BY <1>7 DEF DaemonAsks, Ask, Post
  <2>2. DaemonTypes'
    BY <1>1, <1>3, <2>1 DEF DaemonInv, DaemonTypes
  <2>3. Awaited'
    <3> DEFINE m == [type |-> "status", updated |-> 0]
    <3>1. m \in Message /\ m.type = "status" /\ m.updated = 0
      BY MessagesAreRecords
    <3> HIDE DEF m
    <3>2. Len(msgs) + 1 \in DOMAIN Append(msgs, m) /\ Append(msgs, m)[Len(msgs) + 1] = m
      BY <1>4, <3>1, AppendFacts
    <3>3. msgs' = Append(msgs, m)
      BY <2>1 DEF m
    <3> QED  BY <3>1, <3>2, <3>3 DEF Awaited
  <2>4. NoneLeft'
    BY <1>1, <1>3, <2>1 DEF DaemonInv, NoneLeft
  <2> QED  BY <2>2, <2>3, <2>4 DEF DaemonInv, Answered
<1>8. CASE DaemonIsUpToDate
  <2> DEFINE m == [type |-> "status", updated |-> 1]
  <2>1. m \in Message /\ msgs' = Append(msgs, m) /\ UNCHANGED <<toDaemon, daemon>>
    BY <1>8, MessagesAreRecords DEF DaemonIsUpToDate, Ask, Post
  <2> HIDE DEF m
  <2>2. Awaited => Awaited'
    <3> SUFFICES ASSUME NEW k \in DOMAIN msgs, msgs[k].type = "status", msgs[k].updated = 0
                 PROVE  Awaited'
      BY DEF Awaited
    <3>1. k \in DOMAIN msgs' /\ msgs'[k] = msgs[k]
      BY <1>4, <2>1, AppendFacts
    <3> QED  BY <3>1 DEF Awaited
  <2>3. ntrip' \in [params : Params \cup {None}, nmea : BOOLEAN]
    BY <1>1 DEF DaemonInv, DaemonTypes
  <2> QED  BY <1>1, <2>1, <2>2, <2>3, DaemonStays
<1> QED  BY <1>5, <1>6, <1>7, <1>8

(* What DGNSS may do.                                                          *)
LEMMA CheckCommands ==
  ASSUME ntrip' \in [params : Params \cup {None}, nmea : BOOLEAN],
         NEW state, NEW session, NEW valid, CheckUpdateDgnssNtrip(state, session, valid)
  PROVE  Commands
<1> DEFINE start == [type |-> "start", params |-> ntrip'.params, nmea |-> ntrip'.params.nmea /\ ntrip'.nmea]
<1>1. start \in Starts
  BY DEF Starts
<1> HIDE DEF start
<1>2. \/ UNCHANGED <<mNtripParamsString, toDaemon>>
      \/ UNCHANGED mNtripParamsString /\ toDaemon' = Sent(<<[type |-> "nmea"]>>)
      \/ mNtripParamsString' = start /\ toDaemon' = Sent(<<start>>)
  BY DEF CheckUpdateDgnssNtrip, start
<1> QED  BY <1>1, <1>2 DEF Commands

LEMMA StopCommands ==
  ASSUME ntrip \in [params : Params \cup {None}, nmea : BOOLEAN],
         NEW state, StopDgnssNtrip(state)
  PROVE  Commands /\ ntrip' \in [params : Params \cup {None}, nmea : BOOLEAN]
BY DEF StopDgnssNtrip, Commands

LEMMA DgnssKeepsDaemon ==
  ASSUME DaemonInv,
         \/ \E p \in Params : HandleEnablePPENtrip(p)
         \/ HandleDisablePPENtrip
         \/ \E accepted \in BOOLEAN : UpdateConsent(accepted)
         \/ StartSession \/ StopSession
         \/ \E ok \in BOOLEAN : SessionAnswered(ok)
         \/ \E valid \in BOOLEAN : ReportGGAToNtrip(valid)
  PROVE  DaemonInv'
<1> DEFINE Ntrips == [params : Params \cup {None}, nmea : BOOLEAN]
<1>1. ntrip \in Ntrips
  BY DEF DaemonInv, DaemonTypes
<1>2. UNCHANGED <<know, mReqStatusReceived, daemon, msgs>>
  BY DEF HandleEnablePPENtrip, HandleDisablePPENtrip, UpdateConsent, StartSession, StopSession,
         SessionAnswered, ReportGGAToNtrip, Sourcing, obsVars
<1>3. ASSUME Commands, ntrip' \in Ntrips
      PROVE  DaemonInv'
  BY <1>2, <1>3, CommandKeepsDaemon
<1>4. ASSUME NEW p \in Params, HandleEnablePPENtrip(p)
      PROVE  Commands /\ ntrip' \in Ntrips
  <2>1. ntrip' \in Ntrips
    BY <1>4 DEF HandleEnablePPENtrip
  <2>2. UNCHANGED <<mNtripParamsString, toDaemon>> \/
          CheckUpdateDgnssNtrip({"ENABLE", "NO_NMEA_PENDING"}, inSession, FALSE)
    BY <1>4 DEF HandleEnablePPENtrip
  <2> QED  BY <2>1, <2>2, CheckCommands DEF Commands
<1>5. CASE HandleDisablePPENtrip
  <2>1. StopDgnssNtrip((mDgnssState \ {"ENABLE"}) \cup {"NO_NMEA_PENDING"})
    BY <1>5 DEF HandleDisablePPENtrip
  <2> QED  BY <1>1, <1>3, <2>1, StopCommands
<1>6. CASE (\E accepted \in BOOLEAN : UpdateConsent(accepted)) \/ StartSession
  <2>1. UNCHANGED <<mNtripParamsString, toDaemon, ntrip>>
    BY <1>6 DEF UpdateConsent, StartSession
  <2> QED  BY <1>1, <1>3, <2>1 DEF Commands
<1>7. CASE StopSession
  <2>1. PICK state : StopDgnssNtrip(state)
    BY <1>7 DEF StopSession
  <2> QED  BY <1>1, <1>3, <2>1, StopCommands
<1>8. ASSUME NEW ok \in BOOLEAN, SessionAnswered(ok)
      PROVE  Commands /\ ntrip' \in Ntrips
  <2>1. ntrip' \in Ntrips
    BY <1>1, <1>8 DEF SessionAnswered
  <2>2. UNCHANGED <<mNtripParamsString, toDaemon>> \/ CheckUpdateDgnssNtrip(mDgnssState, inSession, FALSE)
    BY <1>8 DEF SessionAnswered
  <2> QED  BY <2>1, <2>2, CheckCommands DEF Commands
<1>9. ASSUME NEW valid \in BOOLEAN, ReportGGAToNtrip(valid)
      PROVE  Commands /\ ntrip' \in Ntrips
  <2>1. ntrip' \in Ntrips
    BY <1>1, <1>9 DEF ReportGGAToNtrip
  <2>2. CheckUpdateDgnssNtrip(mDgnssState \cup {"NO_NMEA_PENDING"}, inSession, valid)
    BY <1>9 DEF ReportGGAToNtrip
  <2> QED  BY <2>1, <2>2, CheckCommands
<1> QED  BY <1>3, <1>4, <1>5, <1>6, <1>7, <1>8, <1>9

LEMMA DaemonStep ==
  ASSUME Typed, DaemonInv, [Next]_vars
  PROVE  DaemonInv'
<1>1. ntrip \in [params : Params \cup {None}, nmea : BOOLEAN]
  BY DEF DaemonInv, DaemonTypes
<1>2. CASE UNCHANGED vars
  BY <1>1, <1>2, DaemonStays DEF vars, xtraVars, dgnssVars, obsVars, Awaited
<1>3. CASE ObsStep
  <2>1. UNCHANGED <<know, mReqStatusReceived, mNtripParamsString, toDaemon, daemon, ntrip>>
    BY <1>3 DEF ObsStep, xtraVars, dgnssVars
  <2>2. Posts \/ Idles \/ Turns \/ Handles
    BY <1>3, <2>1, CallsPost DEF ObsStep, Handles
  <2> QED  BY <1>1, <2>1, <2>2, StillAwaited, DaemonStays
<1>4. CASE HandleOsObserverUpdate
  <2> DEFINE D == DOMAIN Msg.values
             v == [i \in D |-> Msg.values[i]]
  <2>1. /\ msgs # <<>> /\ Msg = msgs[1] /\ Msg.type = "xtra" /\ Update(v)
        /\ UNCHANGED <<mReqStatusReceived, mNtripParamsString, daemon, ntrip>>
    BY <1>4 DEF HandleOsObserverUpdate, Receives, Msg, dgnssVars
  <2>2. Msg \in Message
    BY <2>1 DEF Typed, QueueTypes
  <2>3. D \in SUBSET Items /\ Msg.values \in [D -> Known]
    BY <2>1, <2>2, MessageFields
  <2>4. D \in SUBSET Told /\ v \in [D -> Facts]
    BY <2>3 DEF Items, Plain, Told, Facts
  <2>5. Awaited => Awaited'
    BY <1>4, StillAwaited
  <2> HIDE DEF D, v
  <2> QED  BY <2>1, <2>4, <2>5, DaemonIsTold
<1>5. CASE HandleStatusRequest
  BY <1>5, AnswerKeepsDaemon
<1>6. ASSUME NEW lock \in Locks, UpdateLockStatus(lock)
      PROVE  DaemonInv'
  <2> DEFINE v == [i \in {"lock"} |-> lock \ {"NI"}]
  <2>1. Update(v) /\ UNCHANGED <<mReqStatusReceived, mNtripParamsString, daemon, ntrip, msgs>>
    BY <1>6 DEF UpdateLockStatus, dgnssVars
  <2>2. {"lock"} \in SUBSET Told /\ v \in [{"lock"} -> Facts]
    BY DEF Told, Facts
  <2> HIDE DEF v
  <2> QED  BY <2>1, <2>2, DaemonIsTold DEF Awaited
<1>7. CASE DelayExpires
  <2>1. UNCHANGED <<mNtripParamsString, know, mReqStatusReceived, daemon, msgs, ntrip>> /\ Commands
    BY <1>7 DEF DelayExpires, obsVars, dgnssVars, Commands
  <2> QED  BY <1>1, <2>1, CommandKeepsDaemon
<1>8. CASE DaemonStarts \/ DaemonDies \/ DaemonAsks \/ DaemonIsUpToDate
  BY <1>8, LivesKeepDaemon
<1>9. CASE DaemonReads
  BY <1>9, ReadKeepsDaemon
<1>10. CASE \/ \E p \in Params : HandleEnablePPENtrip(p)
            \/ HandleDisablePPENtrip
            \/ \E accepted \in BOOLEAN : UpdateConsent(accepted)
            \/ StartSession \/ StopSession
            \/ \E ok \in BOOLEAN : SessionAnswered(ok)
            \/ \E valid \in BOOLEAN : ReportGGAToNtrip(valid)
  BY <1>10, DgnssKeepsDaemon
<1> QED  BY <1>2, <1>3, <1>4, <1>5, <1>6, <1>7, <1>8, <1>9, <1>10, Zenon DEF Next, XtraHandlers

LEMMA DaemonInit ==
  ASSUME Init
  PROVE  DaemonInv
<1>1. /\ know = Nothing /\ mReqStatusReceived = FALSE /\ mNtripParamsString = None /\ toDaemon = <<>>
      /\ daemon = [up |-> FALSE, asked |-> FALSE, knows |-> Nothing, source |-> None]
      /\ ntrip = [params |-> None, nmea |-> FALSE]
  BY DEF Init, XtraInit, Off
<1>2. Nothing \in [Told -> Facts]
  BY DEF Nothing, Facts, Known
<1> HIDE DEF Nothing
<1>3. daemon \in [up : BOOLEAN, asked : BOOLEAN, knows : [Told -> Facts], source : Starts \cup {None}]
  BY <1>1, <1>2
<1>4. toDaemon \in Seq(Datagram) /\ ntrip \in [params : Params \cup {None}, nmea : BOOLEAN]
  BY <1>1
<1>5. DaemonTypes
  BY <1>1, <1>2, <1>3, <1>4 DEF DaemonTypes
<1> QED  BY <1>1, <1>5 DEF DaemonInv, Answered, NoneLeft

(* The safety part of DaemonLearns.                                            *)
InformedKnows ==
  Informed => daemon.knows = know /\ daemon.source = mNtripParamsString

LEMMA DaemonKnows ==
  ASSUME DaemonInv
  PROVE  InformedKnows
<1> SUFFICES ASSUME daemon.up, daemon.asked, ~Asked, toDaemon = <<>>
             PROVE  daemon.knows = know /\ daemon.source = mNtripParamsString
  BY DEF InformedKnows, Informed
<1>1. ~Awaited
  BY DEF Asked, Awaited
<1>2. /\ CopiesTell(toDaemon, "told", Told, daemon.knows, know)
      /\ SourceTells(toDaemon, daemon.source, mNtripParamsString)
  BY <1>1 DEF DaemonInv, Answered
<1>3. DOMAIN toDaemon = {}
  OBVIOUS
<1>4. \A i \in Told : daemon.knows[i] = know[i]
  BY <1>2, <1>3 DEF CopiesTell
<1>5. daemon.knows \in [Told -> Facts] /\ know \in [Told -> Facts]
  BY DEF DaemonInv, DaemonTypes
<1>6. daemon.knows = know
  BY <1>4, <1>5
<1>7. daemon.source = mNtripParamsString
  BY <1>2, <1>3 DEF SourceTells
<1> QED  BY <1>6, <1>7

----------------------------------------------------------------------------
(* The table of networks: SystemStatus' collated table has each connected      *)
(* network once, and no other but the first, whatever comes and goes.          *)
THEOREM TheTableHolds == Spec => []TableHoldsOnline
<1>1. Init => Typed
  BY TypedInit
<1>2. Typed /\ [Next]_vars => Typed'
  BY TypedStep
<1>3. Typed => TableHoldsOnline
  BY TablesHold DEF Typed
<1> QED  BY <1>1, <1>2, <1>3, PTL DEF Spec

(* The clients of SystemStatusOsObserver have what the cache has, its two      *)
(* indices agree, and the framework is asked for what is wanted.               *)
THEOREM ClientsAreServed == Spec => []SubscribersServed
<1>1. Init => Typed /\ IndexInv /\ TurnsInv
  BY TypedInit, IndexInit, TurnsInit
<1>2. (Typed /\ IndexInv /\ TurnsInv) /\ [Next]_vars => (Typed /\ IndexInv /\ TurnsInv)'
  BY TypedStep, IndexStep, TurnsStep
<1>3. Typed /\ IndexInv /\ TurnsInv => SubscribersServed
  BY ServedFollows
<1> QED  BY <1>1, <1>2, <1>3, PTL DEF Spec

(* XtraSystemStatusObserver knows what it was served, and no DGNSS source runs *)
(* that is disabled, whose session is over or that lacks its location.         *)
THEOREM TheSourceStops == Spec => []SourceStops
<1>1. Init => Typed /\ KnowInv /\ SourceInv
  BY TypedInit, KnowInit, SourceInit
<1>2. (Typed /\ KnowInv /\ SourceInv) /\ [Next]_vars => (Typed /\ KnowInv /\ SourceInv)'
  BY TypedStep, KnowStep, SourceStep
<1>3. Typed /\ KnowInv /\ SourceInv => SourceStops
  BY SourceFollows
<1> QED  BY <1>1, <1>2, <1>3, PTL DEF Spec

(* The XTRA daemon, whenever it has read the answer to its request, knows all  *)
(* that the HAL knows and runs the source the HAL last started, however often  *)
(* it has died and whatever it missed then.                                    *)
THEOREM TheDaemonKnows == Spec => []InformedKnows
<1>1. Init => Typed /\ DaemonInv
  BY TypedInit, DaemonInit
<1>2. (Typed /\ DaemonInv) /\ [Next]_vars => (Typed /\ DaemonInv)'
  BY TypedStep, DaemonStep
<1>3. Typed /\ DaemonInv => InformedKnows
  BY DaemonKnows
<1> QED  BY <1>1, <1>2, <1>3, PTL DEF Spec

===============================================================================
