------------------------------ MODULE Geofence ------------------------------
(* The geofence adapter (src/gps/geofence/GeofenceAdapter.cpp): two maps that *)
(* relate the ids clients know to the ids the engine gave, commands on several *)
(* fences at once that are answered by one collective response, the restart of *)
(* every fence after the engine's, and the clean-up after a client.            *)
(*                                                                            *)
(* Two threads work here.  The adapter's thread handles "queue"; the engine's  *)
(* thread (LocApi) serves "calls" and puts every answer on "queue".            *)
EXTENDS Naturals, Sequences, FiniteSets

CONSTANTS Clients,      \* the clients, registered at first
          MaxId,        \* bound: ids generateSessionId gives out
          MaxHwId,      \* bound: ids the engine gives out
          MaxItems,     \* bound: fences one command names
          MaxEvents,    \* bound: commands of all clients and restarts of the engine
          MaxBacklog,   \* bound: waiting messages and calls when a client or the engine adds one
          Worlds        \* how engines behave, see Init

ASSUME BoundsAssumption == {MaxId, MaxHwId, MaxItems, MaxEvents, MaxBacklog} \subseteq Nat
ASSUME WorldsAssumption == Worlds \subseteq {"restarting", "refusing"}

VARIABLES clients,      \* mClientData's keys
          geofences,    \* mGeofences: the engine's id -> key, paused and option
          geofenceIds,  \* mGeofenceIds: a client's id -> the engine's id
          lastId,       \* the last id generateSessionId gave
          batch,        \* the commands so far, each with its errs array
          told,         \* what the client of a fence was told last
          queue,        \* messages of the adapter's thread
          calls,        \* calls of the engine's thread
          engine,       \* the engine's fences
          hwLast,       \* the last id the engine gave
          restarts, world

adapterVars == <<clients, geofences, geofenceIds, batch, told>>
engineVars == <<engine, hwLast, restarts>>
vars == <<adapterVars, lastId, queue, calls, engineVars, world>>

None == 0
HwIds == 1..MaxHwId
Keys == Clients \X (1..MaxId)
Items == 1..MaxItems
Error == {"success", "id_unknown", "failure"}

GeofenceObject == [key: Keys, paused: BOOLEAN, modified: BOOLEAN]
NoObject == [key |-> <<>>, paused |-> FALSE, modified |-> FALSE]
Operation == {"add", "remove", "pause", "resume", "modify"}
Batch == [op: Operation, client: Clients, ids: Seq(1..MaxId),
          errs: [Items -> Error \cup {"uninitialised"}],
          truth: [Items -> Error \cup {"pending"}], reports: Nat, early: BOOLEAN]

Message ==
  [kind: {"command"}, b: 1..MaxEvents]
    \cup [kind: {"item"}, b: 1..MaxEvents, i: Items]
    \cup [kind: {"done"}, b: 1..MaxEvents, i: Items, err: Error, hw: HwIds \cup {None}]
    \cup [kind: {"ssr"}]
    \cup [kind: {"restored"}, object: GeofenceObject, err: Error, hw: HwIds \cup {None}]
    \cup [kind: {"cleared"}, err: Error, hw: HwIds]
    \cup [kind: {"removeClient"}, client: Clients]
    \cup [kind: {"breach"}, hw: HwIds, key: Keys]
Call ==
  [kind: {"callQueue"}, b: 1..MaxEvents, i: Items]
    \cup [kind: {"add"}, b: 1..MaxEvents, i: Items, key: Keys]
    \cup [kind: Operation \ {"add"}, b: 1..MaxEvents, i: Items, hw: HwIds]
    \cup [kind: {"readd"}, object: GeofenceObject]
    \cup [kind: {"repause", "clear"}, hw: HwIds]
    \cup [kind: {"ssr"}]

Init ==
  /\ clients = Clients
  /\ geofences = [h \in HwIds |-> NoObject]
  /\ geofenceIds = [k \in Keys |-> None]
  /\ lastId = 0
  /\ batch = <<>>
  /\ told = [k \in Keys |-> "nothing"]
  /\ queue = <<>> /\ calls = <<>>
  /\ engine = [h \in HwIds |-> NoObject]
  /\ hwLast = 0 /\ restarts = 0
  /\ world \in Worlds

----------------------------------------------------------------------------
(* The two maps. *)

Knows(h) == h \in HwIds /\ geofences[h] # NoObject

(* saveGeofenceItem: a saved fence is never paused. *)
SaveGeofenceItem(k, h, modified) ==
  /\ geofences' = [geofences EXCEPT ![h] = [key |-> k, paused |-> FALSE, modified |-> modified]]
  /\ geofenceIds' = [geofenceIds EXCEPT ![k] = h]

RemoveGeofenceItem(h) ==
  IF Knows(h) /\ geofenceIds[geofences[h].key] # None
  THEN /\ geofenceIds' = [geofenceIds EXCEPT ![geofences[h].key] = None]
       /\ geofences' = [geofences EXCEPT ![h] = NoObject]
  ELSE UNCHANGED <<geofences, geofenceIds>>

(* Mutant: a modified option is not kept. *)
ChangeGeofenceItemForgetsOption(op, h) ==
  /\ geofences' = IF Knows(h) /\ op # "modify"
                  THEN [geofences EXCEPT ![h].paused = op = "pause"] ELSE geofences
  /\ UNCHANGED geofenceIds

(* pauseGeofenceItem, resumeGeofenceItem and modifyGeofenceItem. *)
ChangeGeofenceItem(op, h) ==
  /\ geofences' = IF ~Knows(h) THEN geofences
                  ELSE CASE op = "pause" -> [geofences EXCEPT ![h].paused = TRUE]
                         [] op = "resume" -> [geofences EXCEPT ![h].paused = FALSE]
                         [] op = "modify" -> [geofences EXCEPT ![h].modified = TRUE]
  /\ UNCHANGED geofenceIds

----------------------------------------------------------------------------
(* The adapter's thread. *)

Take(kind) == queue # <<>> /\ Head(queue).kind = kind /\ queue' = Tail(queue)
Msg == Head(queue)

KeyOf(b, i) == <<batch[b].client, batch[b].ids[i]>>
IsLast(b, i) == i = Len(batch[b].ids)

(* A client's reading of the collective response. *)
Reads(b, errs) ==
  [k \in Keys |->
     LET at == {i \in DOMAIN batch[b].ids : KeyOf(b, i) = k /\ errs[i] = "success"} IN
     IF at = {} \/ batch[b].op = "modify" THEN told[k]
     ELSE CASE batch[b].op = "add" -> "active"
            [] batch[b].op = "resume" -> "active"
            [] batch[b].op = "pause" -> "paused"
            [] batch[b].op = "remove" -> "removed"]

(* errs[i] is written, the engine's own outcome is "truth"; the last item's   *)
(* answer sends the whole array and deletes it, with ids and options.          *)
Answer(b, i, err, truth, answers) ==
  LET errs == [batch[b].errs EXCEPT ![i] = err]
      report == answers /\ IsLast(b, i)
      early == \E j \in DOMAIN batch[b].ids : j # i /\ batch[b].truth[j] = "pending"
  IN /\ batch' = [batch EXCEPT ![b].errs = errs, ![b].truth[i] = truth,
                               ![b].reports = IF report THEN @ + 1 ELSE @,
                               ![b].early = @ \/ (report /\ early)]
     /\ told' = IF report /\ batch[b].client \in clients THEN Reads(b, errs) ELSE told

(* The one enumeration of S with ascending ranks: a std::map's order. *)
InOrder(S, Rank(_)) ==
  {s \in [1..Cardinality(S) -> S] : \A i, j \in DOMAIN s : i < j => Rank(s[i]) < Rank(s[j])}

(* A command's message puts every item on the engine's call queue. *)
ProcessCommand ==
  /\ Take("command")
  /\ calls' = calls \o [i \in DOMAIN batch[Msg.b].ids |-> [kind |-> "callQueue", b |-> Msg.b, i |-> i]]
  /\ UNCHANGED <<adapterVars, lastId, engineVars, world>>

(* An item's turn: an add goes to the engine, the others look their fence up. *)
AddItem ==
  /\ Take("item")
  /\ batch[Msg.b].op = "add"
  /\ calls' = Append(calls, [kind |-> "add", b |-> Msg.b, i |-> Msg.i, key |-> KeyOf(Msg.b, Msg.i)])
  /\ UNCHANGED <<adapterVars, lastId, engineVars, world>>

HwIdFromClient(b, i) == geofenceIds[KeyOf(b, i)]

KnownItem ==
  /\ Take("item")
  /\ batch[Msg.b].op # "add"
  /\ HwIdFromClient(Msg.b, Msg.i) # None
  /\ batch' = [batch EXCEPT ![Msg.b].errs[Msg.i] = "success"]
  /\ calls' = Append(calls, [kind |-> batch[Msg.b].op, b |-> Msg.b, i |-> Msg.i,
                             hw |-> HwIdFromClient(Msg.b, Msg.i)])
  /\ UNCHANGED <<clients, geofences, geofenceIds, told, lastId, engineVars, world>>

UnknownItem ==
  /\ Take("item")
  /\ batch[Msg.b].op # "add"
  /\ HwIdFromClient(Msg.b, Msg.i) = None
  /\ Answer(Msg.b, Msg.i, "id_unknown", "id_unknown", TRUE)
  /\ UNCHANGED <<clients, geofences, geofenceIds, lastId, calls, engineVars, world>>

(* An item's answer comes after the command's last id was found unknown: the   *)
(* arrays it would write errs[i] to, and read the options of, are deleted.     *)
(* Only a failed resumption or modification leaves them alone.  No action says *)
(* what the adapter's thread does here; nothing is claimed from then on.       *)
Undefined ==
  /\ queue # <<>> /\ Msg.kind = "done" /\ batch[Msg.b].reports > 0
  /\ Msg.err = "success" \/ batch[Msg.b].op \notin {"resume", "modify"}

TakeDone == Take("done") /\ ~Undefined

(* The engine's answer to an item: addGeofences, removeGeofences and so on. *)
AddDone ==
  /\ TakeDone
  /\ batch[Msg.b].op = "add"
  /\ IF Msg.err = "success"
     THEN SaveGeofenceItem(KeyOf(Msg.b, Msg.i), Msg.hw, FALSE)
     ELSE UNCHANGED <<geofences, geofenceIds>>
  /\ Answer(Msg.b, Msg.i, Msg.err, Msg.err, TRUE)
  /\ UNCHANGED <<clients, lastId, calls, engineVars, world>>

RemoveDone ==
  /\ TakeDone
  /\ batch[Msg.b].op = "remove"
  /\ IF Msg.err = "success" THEN RemoveGeofenceItem(Msg.hw) ELSE UNCHANGED <<geofences, geofenceIds>>
  /\ Answer(Msg.b, Msg.i, Msg.err, Msg.err, TRUE)
  /\ UNCHANGED <<clients, lastId, calls, engineVars, world>>

(* A failed resume is never reported, a failed modification as a success. *)
ChangeDone ==
  /\ TakeDone
  /\ batch[Msg.b].op \in {"pause", "resume", "modify"}
  /\ IF Msg.err = "success"
     THEN ChangeGeofenceItem(batch[Msg.b].op, Msg.hw)
     ELSE UNCHANGED <<geofences, geofenceIds>>
  /\ Answer(Msg.b, Msg.i,
            IF batch[Msg.b].op = "pause" THEN Msg.err ELSE batch[Msg.b].errs[Msg.i],
            Msg.err, batch[Msg.b].op = "resume" => Msg.err = "success")
  /\ UNCHANGED <<clients, lastId, calls, engineVars, world>>

(* handleEngineUpEvent: forget every fence and add it again. *)
RestartGeofences ==
  /\ Take("ssr")
  /\ \E order \in InOrder({h \in HwIds : Knows(h)}, LAMBDA h : h) :
       calls' = calls \o [i \in DOMAIN order |-> [kind |-> "readd", object |-> geofences[order[i]]]]
  /\ geofences' = [h \in HwIds |-> NoObject]
  /\ geofenceIds' = [k \in Keys |-> None]
  /\ UNCHANGED <<clients, batch, told, lastId, engineVars, world>>

(* Mutants: a restored fence is not saved, or not paused again. *)
RestoredGeofenceUnsaved ==
  /\ Take("restored")
  /\ calls' = IF Msg.err = "success" /\ Msg.object.paused
              THEN Append(calls, [kind |-> "repause", hw |-> Msg.hw]) ELSE calls
  /\ UNCHANGED <<clients, geofences, geofenceIds, batch, told, lastId, engineVars, world>>

RestoredGeofenceActive ==
  /\ Take("restored")
  /\ IF Msg.err = "success"
     THEN SaveGeofenceItem(Msg.object.key, Msg.hw, Msg.object.modified)
     ELSE UNCHANGED <<geofences, geofenceIds>>
  /\ UNCHANGED <<clients, batch, told, lastId, calls, engineVars, world>>

RestoredGeofence ==
  /\ Take("restored")
  /\ IF Msg.err = "success"
     THEN /\ SaveGeofenceItem(Msg.object.key, Msg.hw, Msg.object.modified)
          /\ calls' = IF Msg.object.paused
                      THEN Append(calls, [kind |-> "repause", hw |-> Msg.hw]) ELSE calls
     ELSE UNCHANGED <<geofences, geofenceIds, calls>>
  /\ UNCHANGED <<clients, batch, told, lastId, engineVars, world>>

(* stopClientSessions forgets the client's ids at once, in the order of its    *)
(* ids, and a fence only when the engine has removed it.                       *)
StopClientSessions ==
  /\ Take("removeClient")
  /\ LET mine == {k \in Keys : k[1] = Msg.client /\ geofenceIds[k] # None} IN
     /\ \E order \in InOrder(mine, LAMBDA k : k[2]) :
          calls' = calls \o [i \in DOMAIN order |-> [kind |-> "clear", hw |-> geofenceIds[order[i]]]]
     /\ geofenceIds' = [k \in Keys |-> IF k \in mine THEN None ELSE geofenceIds[k]]
  /\ clients' = clients \ {Msg.client}
  /\ UNCHANGED <<geofences, batch, told, lastId, engineVars, world>>

ClearedGeofence ==
  /\ Take("cleared")
  /\ geofences' = IF Msg.err = "success" THEN [geofences EXCEPT ![Msg.hw] = NoObject] ELSE geofences
  /\ UNCHANGED <<clients, geofenceIds, batch, told, lastId, calls, engineVars, world>>

(* geofenceBreach: the client of the fence the map names is called back. *)
GeofenceBreach ==
  /\ Take("breach")
  /\ UNCHANGED <<adapterVars, lastId, calls, engineVars, world>>

----------------------------------------------------------------------------
(* The engine's thread.  After a restart the calls that were waiting fail, up  *)
(* to the restart's own message; the engine's ids are never used twice.        *)

Down == \E i \in DOMAIN calls : calls[i].kind = "ssr"
Call1 == Head(calls)
Serve == calls # <<>> /\ calls' = Tail(calls)
Fails == Down \/ world = "refusing"
Holds(h) == engine[h] # NoObject

Room == Len(queue) + Len(calls) < MaxBacklog /\ Len(batch) + restarts < MaxEvents

CallQueueServed ==
  /\ Serve /\ Call1.kind = "callQueue"
  /\ queue' = Append(queue, [kind |-> "item", b |-> Call1.b, i |-> Call1.i])
  /\ UNCHANGED <<adapterVars, lastId, engineVars, world>>

Respond(err, h) ==
  queue' = Append(queue, [kind |-> "done", b |-> Call1.b, i |-> Call1.i, err |-> err, hw |-> h])

(* The next id of the engine, and the fence it holds under it. *)
Accept(object) ==
  /\ ~Down /\ hwLast < MaxHwId
  /\ hwLast' = hwLast + 1
  /\ engine' = [engine EXCEPT ![hwLast'] = object]
  /\ UNCHANGED restarts

AddServed ==
  /\ Serve /\ Call1.kind = "add"
  /\ \/ /\ Accept([key |-> Call1.key, paused |-> FALSE, modified |-> FALSE])
        /\ Respond("success", hwLast')
     \/ Fails /\ Respond("failure", None) /\ UNCHANGED engineVars
  /\ UNCHANGED <<adapterVars, lastId, world>>

ReaddServed ==
  /\ Serve /\ Call1.kind = "readd"
  /\ \/ /\ Accept([Call1.object EXCEPT !.paused = FALSE])
        /\ queue' = Append(queue, [kind |-> "restored", object |-> Call1.object,
                                   err |-> "success", hw |-> hwLast'])
     \/ /\ Fails /\ UNCHANGED engineVars
        /\ queue' = Append(queue, [kind |-> "restored", object |-> Call1.object,
                                   err |-> "failure", hw |-> None])
  /\ UNCHANGED <<adapterVars, lastId, world>>

Change(kind, object) ==
  CASE kind = "remove" -> NoObject
    [] kind = "pause" -> [object EXCEPT !.paused = TRUE]
    [] kind = "resume" -> [object EXCEPT !.paused = FALSE]
    [] kind = "modify" -> [object EXCEPT !.modified = TRUE]

ChangeServed ==
  /\ Serve /\ Call1.kind \in Operation \ {"add"}
  /\ \/ /\ ~Down /\ Holds(Call1.hw)
        /\ engine' = [engine EXCEPT ![Call1.hw] = Change(Call1.kind, @)]
        /\ Respond("success", Call1.hw)
     \/ /\ Fails \/ ~Holds(Call1.hw)
        /\ Respond("failure", Call1.hw) /\ UNCHANGED engine
  /\ UNCHANGED <<adapterVars, lastId, hwLast, restarts, world>>

(* The response to a restored pause is dropped. *)
RepauseServed ==
  /\ Serve /\ Call1.kind = "repause"
  /\ engine' = IF ~Down /\ Holds(Call1.hw) THEN [engine EXCEPT ![Call1.hw].paused = TRUE] ELSE engine
  /\ UNCHANGED <<adapterVars, lastId, queue, hwLast, restarts, world>>

ClearServed ==
  /\ Serve /\ Call1.kind = "clear"
  /\ \/ /\ ~Down /\ Holds(Call1.hw)
        /\ engine' = [engine EXCEPT ![Call1.hw] = NoObject]
        /\ queue' = Append(queue, [kind |-> "cleared", err |-> "success", hw |-> Call1.hw])
     \/ /\ Fails \/ ~Holds(Call1.hw)
        /\ queue' = Append(queue, [kind |-> "cleared", err |-> "failure", hw |-> Call1.hw])
        /\ UNCHANGED engine
  /\ UNCHANGED <<adapterVars, lastId, hwLast, restarts, world>>

EngineIsBack ==
  /\ Serve /\ Call1.kind = "ssr"
  /\ queue' = Append(queue, [kind |-> "ssr"])
  /\ UNCHANGED <<adapterVars, lastId, engineVars, world>>

(* The engine restarts: its fences are gone. *)
EngineRestarts ==
  /\ world = "restarting"
  /\ Room
  /\ restarts' = restarts + 1
  /\ engine' = [h \in HwIds |-> NoObject]
  /\ calls' = Append(calls, [kind |-> "ssr"])
  /\ UNCHANGED <<adapterVars, lastId, queue, hwLast, world>>

(* The engine sees a breach of a fence that is not paused; at most one on its  *)
(* way at a time.                                                              *)
EngineBreaches ==
  /\ Len(queue) + Len(calls) < MaxBacklog
  /\ ~\E i \in DOMAIN queue : queue[i].kind = "breach"
  /\ \E h \in HwIds :
       /\ Holds(h) /\ ~engine[h].paused
       /\ queue' = Append(queue, [kind |-> "breach", hw |-> h, key |-> engine[h].key])
  /\ UNCHANGED <<adapterVars, lastId, calls, engineVars, world>>

----------------------------------------------------------------------------
(* The clients' threads. *)

Removing(c) == c \notin clients \/ \E i \in DOMAIN queue : queue[i] = [kind |-> "removeClient", client |-> c]

Command(op, c, ids) ==
  /\ ~Removing(c) /\ Room
  /\ batch' = Append(batch, [op |-> op, client |-> c, ids |-> ids,
                             errs |-> [i \in Items |-> "uninitialised"],
                             truth |-> [i \in Items |-> "pending"], reports |-> 0, early |-> FALSE])
  /\ queue' = Append(queue, [kind |-> "command", b |-> Len(batch) + 1])
  /\ UNCHANGED <<clients, geofences, geofenceIds, told, calls, engineVars, world>>

(* addGeofencesCommand: the ids are given before the message is posted. *)
AddGeofencesCommand ==
  \E c \in Clients, n \in Items :
    /\ lastId + n <= MaxId
    /\ lastId' = lastId + n
    /\ Command("add", c, [i \in 1..n |-> lastId + i])

(* removeGeofencesCommand, pauseGeofencesCommand and so on, with any ids that  *)
(* were given, another client's among them.                                    *)
ChangeGeofencesCommand ==
  \E c \in Clients, op \in Operation \ {"add"}, n \in Items :
    \E ids \in [1..n -> 1..lastId] :
      /\ \A i, j \in 1..n : i # j => ids[i] # ids[j]
      /\ Command(op, c, ids)
      /\ UNCHANGED lastId

RemoveClientCommand ==
  \E c \in Clients :
    /\ ~Removing(c) /\ Len(queue) + Len(calls) < MaxBacklog
    /\ queue' = Append(queue, [kind |-> "removeClient", client |-> c])
    /\ UNCHANGED <<adapterVars, lastId, calls, engineVars, world>>

----------------------------------------------------------------------------
AdapterStep ==
  \/ ProcessCommand \/ AddItem \/ KnownItem \/ UnknownItem
  \/ AddDone \/ RemoveDone \/ ChangeDone
  \/ RestartGeofences \/ RestoredGeofence
  \/ StopClientSessions \/ ClearedGeofence \/ GeofenceBreach

EngineStep ==
  \/ CallQueueServed \/ AddServed \/ ReaddServed \/ ChangeServed
  \/ RepauseServed \/ ClearServed \/ EngineIsBack
  \/ EngineRestarts \/ EngineBreaches

ClientStep == AddGeofencesCommand \/ ChangeGeofencesCommand \/ RemoveClientCommand

Next == AdapterStep \/ EngineStep \/ ClientStep

Spec == Init /\ [][Next]_vars

----------------------------------------------------------------------------
(* Properties. *)

TypeOK ==
  /\ clients \subseteq Clients
  /\ geofences \in [HwIds -> GeofenceObject \cup {NoObject}]
  /\ geofenceIds \in [Keys -> HwIds \cup {None}]
  /\ lastId \in 0..MaxId
  /\ batch \in Seq(Batch) /\ Len(batch) <= MaxEvents
  /\ told \in [Keys -> {"nothing", "active", "paused", "removed"}]
  /\ queue \in Seq(Message) /\ calls \in Seq(Call)
  /\ engine \in [HwIds -> GeofenceObject \cup {NoObject}]
  /\ hwLast \in 0..MaxHwId /\ restarts \in 0..MaxEvents
  /\ world \in Worlds

Quiet == queue = <<>> /\ calls = <<>>
Held(k) == {h \in HwIds : engine[h].key = k}

(* The two maps agree: the fence an id leads to is the one with that key, and  *)
(* a fence of a registered client is led to by its id.                         *)
MapsAgree ==
  /\ \A k \in Keys : geofenceIds[k] # None => geofences[geofenceIds[k]].key = k
  /\ \A h \in HwIds : Knows(h) /\ geofences[h].key[1] \in clients => geofenceIds[geofences[h].key] = h

(* Once both threads are idle the engine holds exactly the registered clients' *)
(* fences the adapter knows, each once, under the id the adapter has for it    *)
(* and with the option it was last given, and at any time the adapter's maps   *)
(* agree: through restarts and refusals, until an answer of an item comes when *)
(* its command's arrays are gone (Undefined; the threads are not idle again).  *)
EngineHoldsTheFences ==
  TypeOK /\ MapsAgree /\ (Quiet => \A k \in Keys : k[1] \in clients =>
    /\ Held(k) = IF geofenceIds[k] = None THEN {} ELSE {geofenceIds[k]}
    /\ \A h \in Held(k) : engine[h].modified = geofences[h].modified)

(* A breach the engine reports reaches the client of the fence it is about, as *)
(* long as that client is there: whatever restarts, removals and additions     *)
(* come between the fence and its breach, as long as no deleted array is used. *)
BreachFindsItsFence ==
  queue # <<>> /\ Msg.kind = "breach" /\ Msg.key[1] \in clients =>
    Knows(Msg.hw) /\ geofences[Msg.hw].key = Msg.key

(* Every command is answered with one collective response, none of its errors  *)
(* read before it was written: once, at the latest when all threads are idle,  *)
(* which they never are again once a deleted array is to be used (Undefined).  *)
(* A resumption whose last item fails gets none.                               *)
AnsweredOnce ==
  \A b \in DOMAIN batch : LET n == Len(batch[b].ids) IN
    /\ batch[b].reports <= 1
    /\ batch[b].reports = 1 => \A i \in 1..n : batch[b].errs[i] # "uninitialised"
    /\ Quiet => \/ batch[b].reports = 1
                \/ batch[b].op = "resume" /\ batch[b].truth[n] = "failure"

(* The answers so far came on time and told the truth.  Not all do: the last   *)
(* item's answer sends the array before the others' are in, and a refused      *)
(* modification or resumption leaves the SUCCESS of its look-up behind.        *)
AnsweredWell ==
  \A b \in DOMAIN batch :
    /\ batch[b].reports = 1 /\ ~batch[b].early
    /\ \A i \in DOMAIN batch[b].ids :
         batch[b].errs[i] = "success" => batch[b].truth[i] = "success"

(* Every command is answered once; and if all answers came well and the engine *)
(* restarted once at most, a client's fence is in the state the client was     *)
(* told last: active, paused (a second restart would undo it) or removed.      *)
ToldIsServed ==
  AnsweredOnce /\ (Quiet /\ AnsweredWell /\ restarts <= 1 =>
    \A k \in Keys : k[1] \in clients =>
      CASE told[k] = "active" -> \E h \in Held(k) : ~engine[h].paused
        [] told[k] = "paused" -> \E h \in Held(k) : engine[h].paused
        [] told[k] = "removed" -> Held(k) = {}
        [] OTHER -> TRUE)

(* "Send aggregated response on last item and cleanup"                         *)
(* (GeofenceAdapter.cpp:683): nothing of a command is to come after that.  It  *)
(* does where the last id is unknown and an earlier item is at the engine.     *)
CleanupComesLast == ~Undefined

=============================================================================
