----------------------------- MODULE OsObserver -----------------------------
(***************************************************************************)
(* SystemStatusOsObserver: which client is subscribed to which data item,  *)
(* in two indices, what the framework is subscribed to on their behalf,    *)
(* and the cache the clients are served from.  Every call is a message to  *)
(* the adapters' MsgTask.  Two clients are always there: NativeAgpsHandler *)
(* and XtraSystemStatusObserver; others may come from loaded libraries, as *)
(* do the subscription and the action objects, which the framework's side  *)
(* hands in.                                                               *)
(***************************************************************************)
EXTENDS SystemStatus

CONSTANTS
  Others,       (* clients from elsewhere                                  *)
  ItemLists,    (* the lists of items they name in a call                  *)
  MaxMsgs,      (* bounds the queue                                        *)
  MaxEvents,    (* [Worlds -> Nat], bounds the calls and events            *)
  Worlds        (* which kinds of events are mixed in one behaviour        *)

ASSUME ListsAssumption == ItemLists \subseteq SUBSET Items

Agps    == "agps"
Xtra    == "xtra"
Clients == Others \cup {Agps, Xtra}

VARIABLES
  world,
  mClientToDataItems,   (* [Clients -> SUBSET Items], {} for no entry      *)
  mDataItemToClients,   (* [Items -> SUBSET Clients], {} for no entry      *)
  mDataItemCache,       (* [Items -> a value or None]                      *)
  mSubscriptionObj,     (* is there one                                    *)
  framework,            (* the items the framework is subscribed to        *)
  requested,            (* the items somebody has requested data of        *)
  mActiveRequestCount,  (* [Items -> Nat]                                  *)
  turnedOn,             (* the modules the framework has been told to run  *)
  msgs,                 (* the MsgTask's queue                             *)
  seen,                 (* [Clients -> [Items -> a value or None]]         *)
  resetAt,              (* where resetNetworkInfo is in the reports, or 0  *)
  events                (* calls and events so far                         *)

indexVars == <<mClientToDataItems, mDataItemToClients, framework, requested>>
frameVars == <<mSubscriptionObj, mActiveRequestCount, turnedOn>>
obsVars == <<world, statusVars, indexVars, frameVars, mDataItemCache, msgs,
             seen, resetAt, events>>

Sub(items, client, request) ==
  [type |-> "subscribe", items |-> items, client |-> client,
   request |-> request]

(* XtraSystemStatusObserver's constructor comes before NativeAgpsHandler's.*)
ObsInit ==
  /\ StatusInit
  /\ world \in Worlds
  /\ mClientToDataItems = [c \in Clients |-> {}]
  /\ mDataItemToClients = [i \in Items |-> {}]
  /\ mDataItemCache = [i \in Items |-> None]
  /\ mSubscriptionObj = FALSE
  /\ framework = {}
  /\ requested = {}
  /\ mActiveRequestCount = [i \in Items |-> 0]
  /\ turnedOn = {}
  /\ msgs = <<Sub({"network", "mccmnc"}, Xtra, FALSE),
              Sub({"tac"}, Xtra, TRUE),
              Sub({"network"}, Agps, FALSE)>>
  /\ seen = [c \in Clients |-> [i \in Items |-> None]]
  /\ resetAt = 0
  /\ events = 0

-----------------------------------------------------------------------------
(* Calls, from any thread.                                                 *)

Post(m) == msgs' = Append(msgs, m)

Event(kinds) ==
  /\ world \in kinds
  /\ world = "networks" => \A i \in DOMAIN msgs : msgs[i].type # "subscribe"
  /\ Len(msgs) < MaxMsgs
  /\ events < MaxEvents[world]
  /\ events' = events + 1

CallUnchanged == UNCHANGED <<world, statusVars, indexVars, frameVars,
                             mDataItemCache, seen, resetAt>>

Subscribe(c, items, request) ==
  /\ Event({"clients", "updates"})
  /\ Post(Sub(items, c, request))
  /\ CallUnchanged

UpdateSubscription(c, items) ==
  /\ Event({"updates"})
  /\ Post([type |-> "update", items |-> items, client |-> c])
  /\ CallUnchanged

Unsubscribe(c, items) ==
  /\ Event({"clients", "updates"})
  /\ Post([type |-> "unsubscribe", items |-> items, client |-> c])
  /\ CallUnchanged

UnsubscribeAll(c) ==
  /\ Event({"clients", "updates"})
  /\ Post([type |-> "unsubscribeAll", client |-> c])
  /\ CallUnchanged

SetSubscriptionObj ==
  /\ ~mSubscriptionObj
  /\ \A i \in DOMAIN msgs : msgs[i].type # "setSubs"
  /\ Event({"clients", "updates"})
  /\ Post([type |-> "setSubs"])
  /\ CallUnchanged

(* notify of an item by the framework's side.                              *)
NotifyPlain(item, value) ==
  /\ Event({"clients", "updates", "daemon"})
  /\ Post([type |-> "notify", item |-> item, value |-> value])
  /\ CallUnchanged

(* eventConnectionStatus, out of AGnssRil: SystemStatus makes an item of   *)
(* it and notifies its observer.                                           *)
EventConnectionStatus(connected, handle) ==
  /\ world = "daemon" => connected
  /\ Event({"networks", "daemon"})
  /\ Post([type |-> "notify", item |-> "network",
           value |-> Raw(connected, handle)])
  /\ CallUnchanged

(* resetNetworkInfo, when the framework's process has died: a disconnect   *)
(* for each report, read one by one while the MsgTask may add reports.     *)
ResetBegins ==
  /\ resetAt = 0
  /\ netReports # <<>>
  /\ Event({"networks"})
  /\ resetAt' = 1
  /\ UNCHANGED <<world, statusVars, indexVars, frameVars, mDataItemCache,
                 seen, msgs>>

ResetNetworkInfo ==
  /\ resetAt # 0
  /\ IF resetAt <= Len(netReports)
     THEN /\ Post([type |-> "notify", item |-> "network",
                   value |-> Raw(FALSE, netReports[resetAt].handle)])
          /\ resetAt' = resetAt + 1
     ELSE resetAt' = 0 /\ UNCHANGED msgs
  /\ UNCHANGED <<world, statusVars, indexVars, frameVars, mDataItemCache,
                 seen, events>>

(* The first of several turns a module on, the last turns it off; the      *)
(* counting is on the caller's thread.                                     *)
TurnOn(item) ==
  /\ Event({"clients"})
  /\ mActiveRequestCount' = [mActiveRequestCount EXCEPT ![item] = @ + 1]
  /\ IF mActiveRequestCount[item] = 0
     THEN Post([type |-> "turn", item |-> item, on |-> TRUE])
     ELSE UNCHANGED msgs
  /\ UNCHANGED <<world, statusVars, indexVars, mSubscriptionObj, turnedOn,
                 mDataItemCache, seen, resetAt>>

TurnOff(item) ==
  /\ mActiveRequestCount[item] > 0
  /\ Event({"clients"})
  /\ mActiveRequestCount' = [mActiveRequestCount EXCEPT ![item] = @ - 1]
  /\ IF mActiveRequestCount[item] = 1
     THEN Post([type |-> "turn", item |-> item, on |-> FALSE])
     ELSE UNCHANGED msgs
  /\ UNCHANGED <<world, statusVars, indexVars, mSubscriptionObj, turnedOn,
                 mDataItemCache, seen, resetAt>>

-----------------------------------------------------------------------------
(* The handlers, on the MsgTask.                                           *)

Receives(type) == msgs # <<>> /\ msgs[1].type = type
Msg == msgs[1]

(* sendCachedDataItems, for each of the clients the items of its own.      *)
Served(items) ==
  [c \in Clients |-> [i \in Items |->
     IF i \in items[c] /\ mDataItemCache'[i] # None
     THEN mDataItemCache'[i] ELSE seen[c][i]]]

(* An item Xtra is served is copied into a message to itself; agps takes   *)
(* it at once.                                                             *)
Forwarded(items) ==
  LET news == {i \in items : mDataItemCache'[i] # None}
  IN IF news = {} THEN Tail(msgs)
     ELSE Append(Tail(msgs),
                 [type |-> "xtra", values |-> [i \in news |-> mDataItemCache'[i]]])

Serve(items) ==
  /\ seen' = Served(items)
  /\ msgs' = Forwarded(items[Xtra])

OnlyTo(c, items) == [d \in Clients |-> IF d = c THEN items ELSE {}]

Add(items, c) ==
  mDataItemToClients' = [i \in Items |->
    IF i \in items THEN mDataItemToClients[i] \cup {c}
    ELSE mDataItemToClients[i]]

Trim(items, c) ==
  mDataItemToClients' = [i \in Items |->
    IF i \in items THEN mDataItemToClients[i] \ {c} ELSE mDataItemToClients[i]]

Unused(items) == {i \in items : mDataItemToClients[i] # {}
                                /\ mDataItemToClients'[i] = {}}
New(items) == {i \in items : mDataItemToClients[i] = {}}

(* With toRequestData the framework is asked for data once; an item of the *)
(* list that is new to the index is not subscribed to then.                *)
HandleSubscribeReq ==
  /\ Receives("subscribe")
  /\ Add(Msg.items, Msg.client)
  /\ mClientToDataItems' = [mClientToDataItems EXCEPT ![Msg.client] =
                                                        @ \cup Msg.items]
  /\ framework' = IF mSubscriptionObj /\ ~Msg.request
                  THEN framework \cup New(Msg.items) ELSE framework
  /\ requested' = IF Msg.request THEN requested \cup Msg.items ELSE requested
  /\ UNCHANGED mDataItemCache
  /\ Serve(OnlyTo(Msg.client, Msg.items))
  /\ UNCHANGED <<world, statusVars, frameVars, resetAt, events>>

(* update() hands back what the old and the new list have in common, not   *)
(* what has gone, and takes it out of the new list.  It goes on erasing    *)
(* from the set it walks through, so that it may miss some of it.          *)
HandleUpdateSubscriptionReq ==
  /\ Receives("update")
  /\ LET c    == Msg.client
         both == mClientToDataItems[c] \cap Msg.items
     IN \E common \in SUBSET both :
          /\ both # {} => common # {}
          /\ mClientToDataItems' = [mClientToDataItems EXCEPT ![c] = Msg.items]
          /\ mDataItemToClients' = [i \in Items |->
               IF i \in common THEN mDataItemToClients[i] \ {c}
               ELSE IF i \in Msg.items THEN mDataItemToClients[i] \cup {c}
               ELSE mDataItemToClients[i]]
          /\ framework' = IF mSubscriptionObj
                          THEN (framework \cup New(Msg.items \ common))
                                 \ Unused(common)
                          ELSE framework
          /\ UNCHANGED <<mDataItemCache, requested>>
          /\ Serve(OnlyTo(c, Msg.items \ common))
  /\ UNCHANGED <<world, statusVars, frameVars, resetAt, events>>

Withdraw(c, items) ==
  /\ mClientToDataItems' = [mClientToDataItems EXCEPT ![c] = @ \ items]
  /\ Trim(items \cap mClientToDataItems[c], c)
  /\ framework' = IF mSubscriptionObj THEN framework \ Unused(items)
                  ELSE framework
  /\ msgs' = Tail(msgs)
  /\ UNCHANGED <<world, statusVars, frameVars, requested, mDataItemCache, seen,
                 resetAt, events>>

HandleUnsubscribeReq ==
  Receives("unsubscribe") /\ Withdraw(Msg.client, Msg.items)
HandleUnsubscribeAllReq ==
  Receives("unsubscribeAll")
    /\ Withdraw(Msg.client, mClientToDataItems[Msg.client])

(* All that is in the index is subscribed to and requested.                *)
HandleSetSubsObj ==
  /\ Receives("setSubs")
  /\ mSubscriptionObj' = TRUE
  /\ framework' = {i \in Items : mDataItemToClients[i] # {}}
  /\ msgs' = Tail(msgs)
  /\ UNCHANGED <<world, statusVars, mClientToDataItems, mDataItemToClients,
                 requested, mActiveRequestCount, turnedOn, mDataItemCache,
                 seen, resetAt, events>>

(* A bug to catch: the clients are served before the cache is updated.     *)
ServeStale(item) ==
  /\ seen' = [c \in Clients |->
                IF c \in mDataItemToClients[item]
                THEN [seen[c] EXCEPT ![item] = mDataItemCache[item]]
                ELSE seen[c]]
  /\ msgs' = Forwarded(mClientToDataItems[Xtra] \cap {item})

ServeSubscribers(item) ==
  Serve([c \in Clients |->
           IF c \in mDataItemToClients[item]
           THEN mClientToDataItems[c] \cap {item} ELSE {}])

(* updateCache: SystemStatus decides what is news; a network-info item     *)
(* leaves it with the collated table.                                      *)
HandleNotify ==
  /\ Receives("notify")
  /\ LET item == Msg.item
         net  == item = "network"
         news == IF net THEN NetworkNews(Msg.value)
                 ELSE PlainNews(item, Msg.value)
     IN /\ IF net THEN RecordNetwork(Msg.value)
           ELSE RecordPlain(item, Msg.value)
        /\ IF news
           THEN /\ mDataItemCache' = [mDataItemCache EXCEPT ![item] =
                     IF net THEN Collated(Msg.value) ELSE Msg.value]
                /\ ServeSubscribers(item)
           ELSE UNCHANGED <<mDataItemCache, seen>> /\ msgs' = Tail(msgs)
  /\ UNCHANGED <<world, indexVars, frameVars, resetAt, events>>

HandleTurn ==
  /\ Receives("turn")
  /\ turnedOn' = IF Msg.on THEN turnedOn \cup {Msg.item}
                 ELSE turnedOn \ {Msg.item}
  /\ msgs' = Tail(msgs)
  /\ UNCHANGED <<world, statusVars, indexVars, mSubscriptionObj,
                 mActiveRequestCount, mDataItemCache, seen, resetAt, events>>

-----------------------------------------------------------------------------
ObsCalls ==
  \/ \E c \in Others :
       \/ \E items \in ItemLists :
            \/ \E request \in BOOLEAN : Subscribe(c, items, request)
            \/ UpdateSubscription(c, items)
            \/ Unsubscribe(c, items)
       \/ UnsubscribeAll(c)
  \/ \E item \in Plain, value \in Values : NotifyPlain(item, value)
  \/ \E connected \in BOOLEAN, handle \in Networks :
       EventConnectionStatus(connected, handle)
  \/ \E item \in Plain : TurnOn(item) \/ TurnOff(item)
  \/ SetSubscriptionObj \/ ResetBegins \/ ResetNetworkInfo
ObsHandlers ==
  \/ HandleSubscribeReq \/ HandleUpdateSubscriptionReq
  \/ HandleUnsubscribeReq \/ HandleUnsubscribeAllReq
  \/ HandleSetSubsObj \/ HandleNotify \/ HandleTurn

-----------------------------------------------------------------------------
ObsTypeOK ==
  /\ StatusTypeOK
  /\ mClientToDataItems \in [Clients -> SUBSET Items]
  /\ mDataItemToClients \in [Items -> SUBSET Clients]
  /\ framework \subseteq Items
  /\ turnedOn \subseteq Items

(* The two indices agree.  Each client has last been given what the cache  *)
(* holds of its items, however subscriptions and news cross.  And the      *)
(* framework is subscribed to what its clients want, but for the items     *)
(* somebody has requested: these it is never subscribed to later.          *)
IndicesAgree ==
  \A c \in Clients, i \in Items :
    i \in mClientToDataItems[c] <=> c \in mDataItemToClients[i]
SubscribersServed ==
  /\ ObsTypeOK
  /\ world # "updates" =>
       /\ IndicesAgree
       /\ \A c \in Clients : \A i \in mClientToDataItems[c] :
            seen[c][i] = mDataItemCache[i]
       /\ mSubscriptionObj =>
            \A i \in Items \ requested :
              i \in framework <=> mDataItemToClients[i] # {}
       /\ \A i \in Items :
            (\A k \in DOMAIN msgs : msgs[k].type = "turn" => msgs[k].item # i)
              => (i \in turnedOn <=> mActiveRequestCount[i] > 0)

=============================================================================
