------------------------------ MODULE Batching ------------------------------
(***************************************************************************)
(* The batching adapter (gps/batching/BatchingAdapter.cpp).  A routine or  *)
(* unreported session has a batch of its own in the engine.  All trips     *)
(* share one outdoor trip batch, which runs until the nearest trip's       *)
(* distance is covered, at the shortest interval; trips that join, leave   *)
(* or are completed restart it for the distance that remains.              *)
(*                                                                         *)
(* Two threads: the adapter's serves queue, the LocApi's serves calls and  *)
(* puts each answer on queue.  A call carries the closure its answer runs  *)
(* as "then".  The engine is external: LocApiBase's own calls do nothing,  *)
(* and this one answers them in their order.                               *)
(***************************************************************************)
EXTENDS Integers, Sequences, SequencesExt, FiniteSets

CONSTANTS
  Clients,
  Options,      (* what clients ask for                                     *)
  Width,        (* distances are unsigned numbers below this                *)
  MaxId,        (* bound: session ids                                       *)
  MaxTravel,    (* bound: the distance travelled                            *)
  MaxCommands,  (* bound, in each world: commands and restarts of the engine *)
  MaxBacklog,   (* bound: what is under way when a command is added         *)
  Worlds        (* see Init                                                 *)

BatchingMode == {"routine", "trip", "unreported"}
Distance     == 0 .. Width - 1
BatchingOptions == [mode : BatchingMode, distance : Distance, tbf : Distance]

ASSUME OptionsAssumption == Options \subseteq BatchingOptions
ASSUME BoundsAssumption  ==
  {Width, MaxId, MaxTravel, MaxBacklog} \subseteq Nat /\ MaxTravel < Width
ASSUME WorldsAssumption  ==
  Worlds \subseteq {"calm", "lossy", "crowded"} /\ MaxCommands \in [Worlds -> Nat]

VARIABLES
  adapter,   (* the maps and members of the adapter, and what it has called *)
  known,     (* mIsEngineCapabilitiesKnown                                  *)
  pending,   (* mPendingMsgs                                                *)
  clients,   (* mClientData's keys, all with their callbacks                *)
  queue,     (* the adapter's messages                                      *)
  engine,    (* the engine: its batches, and its trip batch                 *)
  owner,     (* the client of each session id given out                     *)
  road,      (* the distance travelled so far                               *)
  commands, world

vars == <<adapter, known, pending, clients, queue, engine, owner, road, commands, world>>

Ids       == 1 .. MaxId
TripBatch == [distance : Distance, tbf : Distance]
None      == [distance |-> 0, tbf |-> 0]
Flags     == [distance : BOOLEAN, tbf : BOOLEAN]
Routine   == [mode |-> "routine", distance |-> 0, tbf |-> 0]

Minus(a, b) == (a - b) % Width
Plus(a, b)  == (a + b) % Width
Smaller(a, b) == IF b < a THEN b ELSE a

Put(f, k, v) == [x \in DOMAIN f \union {k} |-> IF x = k THEN v ELSE f[x]]
Drop(f, k)   == [x \in DOMAIN f \ {k} |-> f[x]]
Empty        == [x \in {} |-> x]

(***************************************************************************)
(* In the world "calm" clients only start, stop and read batches, and a    *)
(* command or a unit of the road comes when nothing is under way.  In      *)
(* "lossy" the engine may also lose all it holds, and come back.  In       *)
(* "crowded" anything may happen at any time.  The engine's first message  *)
(* is that it is up.                                                       *)
(***************************************************************************)
Init ==
  /\ adapter = [sessions  |-> Empty,   (* mBatchingSessions, by id          *)
                trips     |-> Empty,   (* mTripSessions                     *)
                ongoing   |-> None,    (* mOngoingTripDistance, ...Interval *)
                dropped   |-> [distance |-> FALSE, tbf |-> FALSE],
                batchFull |-> FALSE,   (* BATCH_FULL of mEvtMask            *)
                told      |-> [i \in Ids |-> "nothing"],
                calls     |-> <<[op |-> "open"]>>]
  /\ known = FALSE /\ pending = <<>> /\ queue = <<>>
  /\ clients = Clients
  /\ engine = [batches |-> {}, trip |-> None, travelled |-> 0, restarts |-> 0]
  /\ owner = <<>> /\ road = 0 /\ commands = 0
  /\ world \in Worlds

----------------------------------------------------------------------------
(* What the handlers do to the adapter.                                    *)

Call(a, op, id, trip, then) ==
  [a EXCEPT !.calls = Append(@, [op |-> op, id |-> id, trip |-> trip, then |-> then])]

Quietly == [kind |-> "none"]

ReportResponse(a, id, err) ==
  IF owner[id] \in clients THEN [a EXCEPT !.told[id] = err] ELSE a

(* A trip's session that is in both maps counts twice. *)
AutoReportBatchingSessionsCount(a) ==
  Cardinality({i \in DOMAIN a.sessions : a.sessions[i].mode # "unreported"})
    + Cardinality(DOMAIN a.trips)

UpdateEvtMask(a, when, full) == IF when THEN [a EXCEPT !.batchFull = full] ELSE a

UpdateClientsEventMask(a) ==
  [a EXCEPT !.batchFull = AutoReportBatchingSessionsCount(a) > 0]

(* Mutant: the batch-full event is not registered. *)
StartBatchingUnregistered(a, id, o) ==
  Call([a EXCEPT !.sessions = Put(@, id, o)], "start", id, None,
       [kind |-> "started", id |-> id, options |-> o])

StartBatching(a, id, o) ==
  LET b == UpdateEvtMask(a, o.mode # "unreported" /\ AutoReportBatchingSessionsCount(a) = 0, TRUE)
  IN Call([b EXCEPT !.sessions = Put(@, id, o)], "start", id, None,
          [kind |-> "started", id |-> id, options |-> o])

Started(a, t, err) ==
  LET fails == err # "success"
      b == IF fails THEN [a EXCEPT !.sessions = Drop(@, t.id)] ELSE a
  IN ReportResponse(UpdateEvtMask(b, /\ fails /\ t.options.mode # "unreported"
                                     /\ AutoReportBatchingSessionsCount(b) = 0, FALSE),
                    t.id, err)

(* Mutant: what the batch has covered before the trip counts for it. *)
TripSessionStatusFromStart(acc, o, from) ==
  [ongoingBatch |-> 0, thisTrip |-> 0, onRestart |-> 0,
   distance |-> o.distance, tbf |-> o.tbf, from |-> from]

(* from is where the trip begins on the road. *)
TripSessionStatus(acc, o, from) ==
  [ongoingBatch |-> acc, thisTrip |-> 0, onRestart |-> 0,
   distance |-> o.distance, tbf |-> o.tbf, from |-> from]

(* The first trip starts the engine's batch; a later one asks first how    *)
(* far the batch has come.  A later one is no session.                     *)
StartTripBatchingMultiplex(a, id, o) ==
  IF DOMAIN a.trips = {}
  THEN LET b == UpdateEvtMask(a, AutoReportBatchingSessionsCount(a) = 0, TRUE) IN
       Call([b EXCEPT !.sessions = Put(@, id, o),
                      !.trips = Put(@, id, TripSessionStatus(0, o, road))],
            "tripStart", id, [distance |-> o.distance, tbf |-> o.tbf],
            [kind |-> "tripStarted", id |-> id, options |-> o])
  ELSE Call(a, "query", id, None, [kind |-> "joins", id |-> id, options |-> o, from |-> road])

TripStarted(a, t, err) ==
  IF err = "success"
  THEN ReportResponse([a EXCEPT !.ongoing = [distance |-> t.options.distance, tbf |-> t.options.tbf]],
                      t.id, err)
  ELSE LET b == [a EXCEPT !.sessions = Drop(@, t.id), !.trips = Drop(@, t.id)] IN
       ReportResponse(UpdateEvtMask(b, AutoReportBatchingSessionsCount(b) = 0, FALSE), t.id, err)

(* The answer to a later trip's question.  The trip is added unless the    *)
(* question failed; the distances so far are kept as they are.             *)
TripJoins(a, t, err, acc) ==
  LET faster  == t.options.tbf < a.ongoing.tbf
      left    == IF err = "success" THEN Minus(a.ongoing.distance, acc) ELSE a.ongoing.distance
      nearer  == t.options.distance < left
      trips   == IF err = "success"
                 THEN Put(a.trips, t.id, TripSessionStatus(acc, t.options, t.from)) ELSE a.trips
      ongoing == [distance |-> Smaller(left, t.options.distance),
                  tbf      |-> Smaller(a.ongoing.tbf, t.options.tbf)]
  IN IF faster \/ nearer
     THEN Call([a EXCEPT !.ongoing = ongoing,
                         !.trips = [i \in DOMAIN trips |->
                            [trips[i] EXCEPT !.ongoingBatch = 0, !.onRestart = trips[i].thisTrip]]],
               "tripRestart", t.id, ongoing, [kind |-> "responds", id |-> t.id])
     ELSE ReportResponse([a EXCEPT !.trips = trips], t.id, "success")

(* The shortest of the remaining distances and of the intervals, in the    *)
(* order of the ids; a zero counts as none yet.                            *)
Shortest(values) ==
  FoldLeft(LAMBDA least, v : IF least = 0 \/ v < least THEN v ELSE least, 0, values)

Shortfall(trips) ==
  LET ids == SetToSortSeq(DOMAIN trips, <)
      Of(i) == trips[ids[i]]
  IN [distance |-> Shortest([i \in DOMAIN ids |-> Minus(Of(i).distance, Of(i).thisTrip)]),
      tbf      |-> Shortest([i \in DOMAIN ids |-> Of(i).tbf])]

RestartTripBatching(a, asks, acc) ==
  IF DOMAIN a.trips = {}
  THEN LET b == [Call(a, "tripStop", 0, None, Quietly) EXCEPT !.ongoing = None]
       IN UpdateEvtMask(b, AutoReportBatchingSessionsCount(b) = 0, FALSE)
  ELSE Call(a, "query", 0, None, [kind |-> "remains", asks |-> asks, acc |-> acc,
                                  least |-> Shortfall(a.trips)])

TripRemains(a, t, acc) ==
  LET travelled == IF t.asks THEN acc ELSE t.acc
      left    == Minus(a.ongoing.distance, travelled)
      running == ~a.dropped.distance /\ left # 0
      nearer  == IF running THEN t.least.distance < left ELSE t.least.distance # 0
      faster  == \/ t.least.tbf < a.ongoing.tbf
                 \/ t.least.tbf # a.ongoing.tbf /\ a.dropped.tbf
      ongoing == [distance |-> IF nearer THEN t.least.distance ELSE a.ongoing.distance,
                  tbf      |-> IF faster THEN t.least.tbf ELSE a.ongoing.tbf]
  IN IF nearer \/ faster
     THEN Call(a, "tripRestart", 0, ongoing,
               [kind |-> "restarted", travelled |-> travelled, ongoing |-> ongoing])
     ELSE a

TripRestarted(a, t, err) ==
  LET ThisTrip(s) == Plus(s.onRestart, Minus(t.travelled, s.ongoingBatch)) IN
  IF err = "success"
  THEN [a EXCEPT !.ongoing = t.ongoing,
                 !.trips = [i \in DOMAIN @ |->
                    [@[i] EXCEPT !.thisTrip = ThisTrip(a.trips[i]), !.ongoingBatch = 0,
                                 !.onRestart = ThisTrip(a.trips[i])]]]
  ELSE a

Restart(a, id, o) == IF o.mode = "trip" THEN StartTripBatchingMultiplex(a, id, o)
                     ELSE StartBatching(a, id, o)

(* Mutant: the engine goes on with an unreported session's batch. *)
StopBatchingForgets(a, id, next) ==
  IF id \notin DOMAIN a.sessions THEN a
  ELSE LET b == [a EXCEPT !.sessions = Drop(@, id)] IN
       IF a.sessions[id].mode = "unreported" THEN b
       ELSE Call(b, "stop", id, None,
                 [kind |-> "stopped", id |-> id, was |-> a.sessions[id], next |-> next])

(* next is the options to start again with, if any. *)
StopBatching(a, id, next) ==
  IF id \in DOMAIN a.sessions
  THEN Call([a EXCEPT !.sessions = Drop(@, id)], "stop", id, None,
            [kind |-> "stopped", id |-> id, was |-> a.sessions[id], next |-> next])
  ELSE a

(* A session the engine goes on with is saved again, with the options of   *)
(* the command: routine ones if the command only stops.                    *)
Stopped(a, t, err) ==
  IF err # "success"
  THEN ReportResponse([a EXCEPT !.sessions = Put(@, t.id, IF t.next = <<>> THEN Routine ELSE t.next[1])],
                      t.id, err)
  ELSE LET b == UpdateEvtMask(a, /\ AutoReportBatchingSessionsCount(a) = 0
                                 /\ t.was.mode # "unreported", FALSE)
       IN ReportResponse(IF t.next = <<>> THEN b ELSE Restart(b, t.id, t.next[1]), t.id, err)

(* junk stands for what is read of a trip that is not, or no longer, there. *)
StopTripCommon(a, err, id, next, junk) ==
  LET drops == IF id \in DOMAIN a.trips
               THEN [distance |-> a.trips[id].distance = a.ongoing.distance,
                     tbf |-> a.trips[id].tbf = a.ongoing.tbf]
               ELSE junk
      b == [a EXCEPT !.dropped = [distance |-> @.distance \/ drops.distance,
                                  tbf |-> @.tbf \/ drops.tbf],
                     !.trips = Drop(@, id)]
      c == IF DOMAIN b.trips = {} THEN [b EXCEPT !.ongoing = None]
           ELSE RestartTripBatching(b, TRUE, 0)
  IN ReportResponse(IF next = <<>> THEN c
                    ELSE Restart([c EXCEPT !.sessions = Drop(@, id)], id, next[1]), id, err)

StopTripBatchingMultiplex(a, id, next, junk) ==
  IF Cardinality(DOMAIN a.trips) = 1
  THEN Call(a, "tripStop", id, None, [kind |-> "tripStopped", id |-> id, next |-> next])
  ELSE StopTripCommon(a, "success", id, next, junk)

TripStopped(a, t, err, junk) ==
  StopTripCommon(UpdateEvtMask(a, err = "success" /\ AutoReportBatchingSessionsCount(a) = 1, FALSE),
                 err, t.id, t.next, junk)

(* The distances of every trip are brought up to date; the trips that are  *)
(* completed are erased and reported.                                      *)
ReportCompletedTrips(a, acc, junk) ==
  LET ThisTrip(s) == Plus(s.onRestart, Minus(acc, s.ongoingBatch))
      trips == [i \in DOMAIN a.trips |-> [a.trips[i] EXCEPT !.thisTrip = ThisTrip(a.trips[i])]]
      done  == {i \in DOMAIN trips : trips[i].distance <= trips[i].thisTrip}
      b == [a EXCEPT !.trips = [i \in DOMAIN trips \ done |-> trips[i]],
                     !.dropped = [distance |-> @.distance \/ (done # {} /\ junk.distance),
                                  tbf |-> @.tbf \/ (done # {} /\ junk.tbf)]]
  IN IF done = {} THEN b ELSE RestartTripBatching(b, FALSE, acc)

(* After a restart of the engine.  The loop resets a copy of every trip.   *)
RestartSessions(a) ==
  LET b == UpdateEvtMask(a, AutoReportBatchingSessionsCount(a) > 0, TRUE)
      mine == SetToSortSeq({i \in DOMAIN a.sessions : a.sessions[i].mode # "trip"}, <)
      c == FoldLeft(LAMBDA x, i : Call(x, "start", i, None, Quietly), b, mine)
  IN IF DOMAIN a.trips = {} THEN c
     ELSE Call([c EXCEPT !.ongoing = Shortfall(a.trips)], "tripStart", 0, Shortfall(a.trips),
               [kind |-> "tripRestored"])

TripRestored(a, err) == IF err = "success" THEN a ELSE [a EXCEPT !.ongoing = None]

----------------------------------------------------------------------------
(* The adapter's thread.                                                   *)

Msg == Head(queue)
Take(kind) == queue # <<>> /\ Msg.kind = kind /\ queue' = Tail(queue)

(* A command that comes before the engine's capabilities waits for them.   *)
CommandWaits ==
  /\ ~known
  /\ \E kind \in {"start", "update", "stop", "get"} : Take(kind)
  /\ pending' = Append(pending, Msg)
  /\ UNCHANGED <<adapter, known, clients, engine, owner, road, commands, world>>

Handle(kind, a) ==
  /\ Take(kind)
  /\ adapter' = a
  /\ UNCHANGED <<known, pending, clients, engine, owner, road, commands, world>>

IsBatchingSession(m) == m.id \in DOMAIN adapter.sessions
IsTripSession(m)     == m.id \in DOMAIN adapter.trips

(* A client that is gone has no callbacks; its start is not answered.      *)
MsgStartBatching ==
  known /\ Handle("start", IF owner[Msg.id] \in clients
                           THEN Restart(adapter, Msg.id, Msg.options) ELSE adapter)

(* An unknown session is not answered either. *)
MsgUpdateBatching ==
  known /\ \E junk \in Flags : Handle("update",
    IF ~IsBatchingSession(Msg) THEN adapter
    ELSE IF IsTripSession(Msg)
         THEN StopTripBatchingMultiplex(adapter, Msg.id, <<Msg.options>>, junk)
         ELSE StopBatching(adapter, Msg.id, <<Msg.options>>))

MsgStopBatching ==
  known /\ \E junk \in Flags : Handle("stop",
    IF ~IsBatchingSession(Msg) THEN adapter
    ELSE IF IsTripSession(Msg) THEN StopTripBatchingMultiplex(adapter, Msg.id, <<>>, junk)
         ELSE StopBatching(adapter, Msg.id, <<>>))

MsgGetBatchedLocations ==
  known /\ Handle("get",
    IF IsBatchingSession(Msg)
    THEN Call(adapter, "get", Msg.id, None, [kind |-> "responds", id |-> Msg.id])
    ELSE ReportResponse(adapter, Msg.id, "unknown"))

(* stopClientSessions tells trips by their options, where the stop command *)
(* looks among the trips; then the client goes, and the mask is made anew. *)
StopClientSessions(client, junk) ==
  LET mine == SetToSortSeq({i \in DOMAIN adapter.sessions : owner[i] = client}, <) IN
  FoldLeft(LAMBDA a, i : IF adapter.sessions[i].mode = "trip"
                         THEN StopTripBatchingMultiplex(a, i, <<>>, junk)
                         ELSE StopBatching(a, i, <<>>),
           adapter, mine)

MsgRemoveClient ==
  /\ Take("removeClient")
  /\ \E junk \in Flags : adapter' = UpdateClientsEventMask(StopClientSessions(Msg.client, junk))
  /\ clients' = clients \ {Msg.client}
  /\ UNCHANGED <<known, pending, engine, owner, road, commands, world>>

HandleEngineUpEvent ==
  /\ queue # <<>> /\ Msg.kind = "engineUp"
  /\ known' = TRUE
  /\ adapter' = RestartSessions(adapter)
  /\ queue' = Tail(queue) \o pending
  /\ pending' = <<>>
  /\ UNCHANGED <<clients, engine, owner, road, commands, world>>

MsgReportCompletedTrips ==
  \E junk \in Flags : Handle("completed", ReportCompletedTrips(adapter, Msg.acc, junk))

(* The closure of a call runs with the engine's answer. *)
LocApiResponse ==
  \E junk \in Flags :
  LET t == Msg.then IN
  Handle("answer",
    CASE t.kind = "started"      -> Started(adapter, t, Msg.err)
      [] t.kind = "stopped"      -> Stopped(adapter, t, Msg.err)
      [] t.kind = "tripStarted"  -> TripStarted(adapter, t, Msg.err)
      [] t.kind = "joins"        -> TripJoins(adapter, t, Msg.err, Msg.acc)
      [] t.kind = "remains"      -> TripRemains(adapter, t, Msg.acc)
      [] t.kind = "restarted"    -> TripRestarted(adapter, t, Msg.err)
      [] t.kind = "tripStopped"  -> TripStopped(adapter, t, Msg.err, junk)
      [] t.kind = "tripRestored" -> TripRestored(adapter, Msg.err)
      [] t.kind = "responds"     -> ReportResponse(adapter, t.id, Msg.err)
      [] OTHER                   -> adapter)

----------------------------------------------------------------------------
(* The engine, and the road.                                               *)

Call1 == Head(adapter.calls)
Down  == \E i \in DOMAIN adapter.calls : adapter.calls[i].op = "open" /\ i > 1

(* What a call that succeeds does to the engine. *)
Served(c) ==
  CASE c.op = "start"    -> [engine EXCEPT !.batches = @ \union {c.id}]
    [] c.op = "stop"     -> [engine EXCEPT !.batches = @ \ {c.id}]
    [] c.op \in {"tripStart", "tripRestart"} -> [engine EXCEPT !.trip = c.trip, !.travelled = 0]
    [] c.op = "tripStop" -> [engine EXCEPT !.trip = None, !.travelled = 0]
    [] OTHER             -> engine

EngineAnswers ==
  /\ adapter.calls # <<>> /\ Call1.op # "open"
  /\ \E err \in {"success", "failure"} :
       /\ err = "success" <=> ~Down
       /\ engine' = IF err = "success" THEN Served(Call1) ELSE engine
       /\ queue' = Append(queue, [kind |-> "answer", then |-> Call1.then, err |-> err,
                                  acc |-> IF err = "success" THEN engine.travelled ELSE 0])
  /\ adapter' = [adapter EXCEPT !.calls = Tail(@)]
  /\ UNCHANGED <<known, pending, clients, owner, road, commands, world>>

EngineOpens ==
  /\ adapter.calls # <<>> /\ Call1.op = "open"
  /\ adapter' = [adapter EXCEPT !.calls = Tail(@)]
  /\ queue' = Append(queue, [kind |-> "engineUp"])
  /\ UNCHANGED <<known, pending, clients, engine, owner, road, commands, world>>

Quiet == queue = <<>> /\ adapter.calls = <<>>
Calm  == world # "crowded"
Room  == /\ commands < MaxCommands[world]
         /\ Len(queue) + Len(adapter.calls) < MaxBacklog
         /\ Calm => Quiet

EngineRestarts ==
  /\ world # "calm" /\ known /\ Room
  /\ engine' = [batches |-> {}, trip |-> None, travelled |-> 0, restarts |-> engine.restarts + 1]
  /\ adapter' = [adapter EXCEPT !.calls = Append(@, [op |-> "open"])]
  /\ commands' = commands + 1
  /\ UNCHANGED <<known, pending, clients, queue, owner, road, world>>

(* A unit of the road; the engine says so when the trip batch's distance   *)
(* is covered.                                                             *)
Travel ==
  /\ Calm => Quiet
  /\ engine.trip # None /\ road < MaxTravel
  /\ road' = road + 1
  /\ engine' = [engine EXCEPT !.travelled = @ + 1]
  /\ queue' = IF engine'.travelled = engine.trip.distance
              THEN Append(queue, [kind |-> "completed", acc |-> engine'.travelled]) ELSE queue
  /\ UNCHANGED <<adapter, known, pending, clients, owner, commands, world>>

----------------------------------------------------------------------------
(* The clients' threads.                                                   *)

Removing(c) ==
  c \notin clients \/ \E i \in DOMAIN queue : queue[i] = [kind |-> "removeClient", client |-> c]

Post(m) ==
  /\ Room
  /\ queue' = Append(queue, m)
  /\ commands' = commands + 1
  /\ UNCHANGED <<adapter, known, pending, clients, engine, road, world>>

StartBatchingCommand ==
  \E c \in Clients, o \in Options :
    /\ ~Removing(c) /\ Len(owner) < MaxId
    /\ owner' = Append(owner, c)
    /\ Post([kind |-> "start", id |-> Len(owner) + 1, options |-> o])

UpdateBatchingOptionsCommand ==
  \E id \in DOMAIN owner, o \in Options :
    /\ ~Calm /\ ~Removing(owner[id])
    /\ Post([kind |-> "update", id |-> id, options |-> o]) /\ UNCHANGED owner

StopBatchingCommand ==
  \E id \in DOMAIN owner :
    ~Removing(owner[id]) /\ Post([kind |-> "stop", id |-> id]) /\ UNCHANGED owner

GetBatchedLocationsCommand ==
  \E id \in DOMAIN owner :
    ~Removing(owner[id]) /\ Post([kind |-> "get", id |-> id]) /\ UNCHANGED owner

RemoveClientCommand ==
  \E c \in Clients :
    ~Calm /\ ~Removing(c) /\ Post([kind |-> "removeClient", client |-> c]) /\ UNCHANGED owner

----------------------------------------------------------------------------
AdapterStep ==
  \/ CommandWaits \/ MsgStartBatching \/ MsgUpdateBatching \/ MsgStopBatching
  \/ MsgGetBatchedLocations \/ MsgRemoveClient \/ HandleEngineUpEvent
  \/ MsgReportCompletedTrips \/ LocApiResponse

Next ==
  \/ AdapterStep
  \/ EngineAnswers \/ EngineOpens \/ EngineRestarts \/ Travel
  \/ StartBatchingCommand \/ UpdateBatchingOptionsCommand \/ StopBatchingCommand
  \/ GetBatchedLocationsCommand \/ RemoveClientCommand

Spec == Init /\ [][Next]_vars

----------------------------------------------------------------------------
(* Properties.                                                             *)

Unshared(S) == {i \in DOMAIN S : S[i].mode # "trip"}

TypeOK ==
  /\ DOMAIN adapter.sessions \subseteq Ids /\ DOMAIN adapter.trips \subseteq Ids
  /\ \A i \in DOMAIN adapter.sessions : adapter.sessions[i] \in BatchingOptions
  /\ adapter.ongoing \in TripBatch /\ adapter.dropped \in Flags
  /\ adapter.told \in [Ids -> {"nothing", "success", "failure", "unknown"}]
  /\ adapter.batchFull \in BOOLEAN /\ known \in BOOLEAN
  /\ clients \subseteq Clients /\ owner \in Seq(Clients) /\ Len(owner) <= MaxId
  /\ engine.batches \subseteq Ids /\ engine.trip \in TripBatch
  /\ engine.travelled \in 0 .. MaxTravel /\ road \in 0 .. MaxTravel

(* Once both threads are idle no batch is left in the engine that the      *)
(* adapter has no session for, and could never stop: whatever commands,    *)
(* updates, removals and a restart overlapped.  (A second restart fails a  *)
(* start whose session the first has already restored.)                    *)
NoBatchIsOrphaned ==
  TypeOK /\ (Quiet /\ engine.restarts <= 1 => engine.batches \subseteq DOMAIN adapter.sessions)

(* What a trip takes off the engine's count is no more than the engine has *)
(* counted, or its distance would wrap around.  "reset the                 *)
(* accumulatedDistanceOngoingBatch for each session" says restartSessions  *)
(* for an engine that counts from nothing again, and resets only copies:   *)
(* so this holds only while the engine does not restart.                   *)
CountsFitTheBatch ==
  Calm /\ Quiet => \A i \in DOMAIN adapter.trips : adapter.trips[i].ongoingBatch <= engine.travelled

(* When commands do not overlap, and all is settled, the engine has every routine and  *)
(* unreported session's batch, and its trip batch runs just while there    *)
(* are trips, for the distance and interval the adapter has on record, at  *)
(* no trip's interval too slow; and the batch-full event is registered for *)
(* whoever needs it.  (A trip may be late: what it had travelled when its  *)
(* batch is restarted is not always counted.)                              *)
EngineServesSessions ==
  Calm /\ Quiet /\ known =>
    /\ engine.batches = Unshared(adapter.sessions)
    /\ engine.trip = adapter.ongoing
    /\ engine.trip = None <=> adapter.trips = Empty
    /\ \A i \in DOMAIN adapter.trips : engine.trip.tbf <= adapter.trips[i].tbf
    /\ engine.restarts = 0 => CountsFitTheBatch
    /\ DOMAIN adapter.trips # {} \/ (\E i \in DOMAIN adapter.sessions : adapter.sessions[i].mode = "routine")
         => adapter.batchFull

Completes(i) ==
  /\ queue # <<>> /\ Msg.kind = "completed" /\ queue' = Tail(queue)
  /\ i \in DOMAIN adapter.trips \ DOMAIN adapter'.trips

(* A trip is not reported complete before its distance was travelled, in a *)
(* calm world; joining and leaving trips restart the engine's count.       *)
TripsNotEarly ==
  [][\A i \in Ids : Completes(i) /\ world = "calm" =>
       road - adapter.trips[i].from >= adapter.trips[i].distance]_vars

=============================================================================
