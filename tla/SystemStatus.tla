---------------------------- MODULE SystemStatus ----------------------------
(***************************************************************************)
(* What SystemStatus (gps/core/SystemStatus.cpp) keeps of the data items   *)
(* it is told of: for each kind its last few values.  A network-info item  *)
(* tells of one network; collate() folds it into the table of networks     *)
(* that the previous item carries.                                         *)
(***************************************************************************)
EXTENDS Naturals, Sequences, FiniteSets, SequencesExt

CONSTANTS
  Networks,     (* network handles                                         *)
  TypeOfNet,    (* [Networks -> NetworkType]                               *)
  MaxHandles,   (* MAX_NETWORK_HANDLES                                     *)
  MaxItem,      (* SystemStatusItemBase::maxItem                           *)
  Values,       (* of the items that are no network info                   *)
  None          (* no value                                                *)

NetworkType == {"mobile", "wifi"}

ASSUME StatusAssumption ==
  /\ IsFiniteSet(Networks)
  /\ TypeOfNet \in [Networks -> NetworkType]
  /\ MaxHandles \in Nat \ {0}
  /\ MaxItem \in Nat \ {0}

Plain == {"tac", "mccmnc"}
Items == Plain \cup {"network"}

VARIABLES
  netReports,   (* mCache.mNetworkInfo, oldest first                       *)
  reported,     (* [Plain -> the last value in its cache]                  *)
  online        (* the networks whose last event was a connection          *)

statusVars == <<netReports, reported, online>>

NetworkInfo == [connected : BOOLEAN, handle : Networks,
                allTypes : SUBSET NetworkType, table : Seq(Networks)]

(* None is no item's value.                                                *)
ASSUME NoneAssumption == None \notin Values \cup NetworkInfo

StatusInit ==
  /\ netReports = <<>>
  /\ reported = [i \in Plain |-> None]
  /\ online = {}

-----------------------------------------------------------------------------
(* SystemStatusNetworkInfo as constructed: of a connection or of its end,  *)
(* the network is in the table and its type in mAllTypes.                  *)
Raw(connected, handle) ==
  [connected |-> connected, handle |-> handle,
   allTypes |-> {TypeOfNet[handle]}, table |-> <<handle>>]

(* The last entry takes the place of the one that goes.                    *)
Without(table, handle) ==
  LET at   == {i \in DOMAIN table : table[i] = handle}
      last == Len(table)
  IN [i \in 1 .. last - Cardinality(at) |->
        IF i \in at THEN table[last] ELSE table[i]]

(* A bug to catch: a network that is in the table is entered once more.    *)
CollateTwice(cur, new) ==
  LET type   == TypeOfNet[new.handle]
      others == {i \in DOMAIN cur.table :
                   TypeOfNet[cur.table[i]] = type /\ cur.table[i] # new.handle}
  IN IF new.connected
     THEN [new EXCEPT !.allTypes = @ \cup cur.allTypes,
                      !.table = IF Len(cur.table) = MaxHandles THEN cur.table
                                ELSE Append(cur.table, new.handle)]
     ELSE [new EXCEPT !.allTypes = IF others = {} THEN cur.allTypes \ @ ELSE @,
                      !.table = Without(cur.table, new.handle)]

(* collate.  When a network goes while another of its type stays, the new  *)
(* item's mAllTypes is left with that one type.                            *)
Collate(cur, new) ==
  LET type   == TypeOfNet[new.handle]
      others == {i \in DOMAIN cur.table :
                   TypeOfNet[cur.table[i]] = type /\ cur.table[i] # new.handle}
      enter  == /\ new.handle \notin Range(cur.table)
                /\ Len(cur.table) < MaxHandles
  IN IF new.connected
     THEN [new EXCEPT !.allTypes = @ \cup cur.allTypes,
                      !.table = IF enter THEN Append(cur.table, new.handle)
                                ELSE cur.table]
     ELSE [new EXCEPT !.allTypes = IF others = {} THEN cur.allTypes \ @ ELSE @,
                      !.table = Without(cur.table, new.handle)]

(* equals; mAllTypes is not compared.                                      *)
SameInfo(a, b) == a.connected = b.connected /\ a.table = b.table

(* What setIteminReport makes of a network-info item: the first is kept as *)
(* it is.                                                                  *)
Collated(new) ==
  IF netReports = <<>> THEN new ELSE Collate(Last(netReports), new)

KeepNewest(reports, item) ==
  LET all == Append(reports, item)
  IN IF Len(all) > MaxItem THEN Tail(all) ELSE all

(* eventDataItemNotify, which returns whether the item is news.            *)
NetworkNews(new) ==
  netReports = <<>> \/ ~SameInfo(Last(netReports), Collated(new))
PlainNews(item, value) == reported[item] # value

RecordNetwork(new) ==
  /\ netReports' = IF NetworkNews(new)
                   THEN KeepNewest(netReports, Collated(new)) ELSE netReports
  /\ online' = IF new.connected THEN online \cup {new.handle}
               ELSE online \ {new.handle}
  /\ UNCHANGED reported

RecordPlain(item, value) ==
  /\ reported' = [reported EXCEPT ![item] = value]
  /\ UNCHANGED <<netReports, online>>

-----------------------------------------------------------------------------
StatusTypeOK ==
  /\ \A i \in DOMAIN netReports : netReports[i] \in NetworkInfo
  /\ Len(netReports) <= MaxItem
  /\ reported \in [Plain -> Values \cup {None}]
  /\ online \subseteq Networks

(* A network that is connected has one place in the latest table, whatever *)
(* came and went before it, and one that is not has none, but for one that *)
(* the very first event reported to be gone; where there can be more       *)
(* networks than places, one that finds none is never entered.             *)
TableHoldsOnline ==
  netReports # <<>> =>
    LET table == Last(netReports).table IN
    /\ Len(table) = Cardinality(Range(table))
    /\ Cardinality(Networks) <= MaxHandles => online \subseteq Range(table)
    /\ Cardinality(Range(table) \ online) <= 1

=============================================================================
