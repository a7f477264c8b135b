------------------------------ MODULE Tracking ------------------------------
(***************************************************************************)
(* The tracking sessions of GnssAdapter (gps/gnss/GnssAdapter.cpp) over    *)
(* the one fix session of the engine behind LocApiBase.  Two threads: the  *)
(* adapter's MsgTask runs the clients' commands and the responses, and the *)
(* LocApi's MsgTask runs the calls to the engine in the order the adapter  *)
(* posted them.  The engine takes no notice of the power mode              *)
(* (SynergyLocApi always asks for M2); the adapter does, when it decides   *)
(* whether the engine must be called.                                      *)
(*                                                                         *)
(* The engine lock never leaves ENABLED in this repository.  Whether the   *)
(* engine supports distance-based tracking is its own answer when it is    *)
(* opened (SynergyLocApi::open); the module takes one that does not, so    *)
(* that a session with a minimum distance is time-based and the map of     *)
(* distance-based sessions stays empty.  Options are those left after the  *)
(* clamp to MIN_TRACKING_INTERVAL and the fallback from M4.                *)
(***************************************************************************)
EXTENDS Integers, Sequences

CONSTANTS
  Sessions,     (* session keys, (client, id); each client has one session *)
  Options,      (* tracking options: the interval, the power mode (smaller
                   is more accurate), and if a minimum distance is asked   *)
  MaxBacklog,   (* bound: messages in flight or waiting before the
                   clients and the engine stop making new ones             *)
  Worlds        (* the kinds of engine and of clients to look at           *)

ASSUME OptionsAssumption ==
  Options \subseteq [interval: Nat \ {0}, power: Nat \ {0}, distance: BOOLEAN]
ASSUME BacklogAssumption == MaxBacklog \in Nat

(* In a plain world every engine call succeeds and no client asks for a    *)
(* minimum distance; in a flaky one calls may fail; in a distance world    *)
(* clients ask for a minimum distance that the engine does not support; in *)
(* a mute world they have no callback to start tracking with, or pass      *)
(* options of size 0.                                                      *)
ASSUME WorldsAssumption == Worlds \subseteq {"plain", "flaky", "distance", "mute"}

VARIABLES
  capsKnown,    (* mIsEngineCapabilitiesKnown                              *)
  clients,      (* the sessions whose client is in mClientData             *)
  sessions,     (* mTimeBasedTrackingSessions                              *)
  pending,      (* mPendingMsgs                                            *)
  queue,        (* the adapter's MsgTask queue                             *)
  api,          (* the LocApi's MsgTask queue                              *)
  fix,          (* the interval of the engine's fix session, or Off        *)
  client,       (* [Sessions -> ClientState]: what the client knows        *)
  owed,         (* [Sessions -> responses the client waits for]            *)
  world         (* the kind of world of this behaviour                     *)

adapterVars == <<capsKnown, clients, sessions, pending>>
clientVars  == <<client, owed>>
vars        == <<adapterVars, queue, api, fix, clientVars, world>>

Off  == 0
None == [interval |-> 0, power |-> 0, distance |-> FALSE]

Intervals == {o.interval : o \in Options}

(* started: told that the session is tracking.                             *)
ClientState == {"new", "starting", "started", "failed", "stopping", "stopped", "removed"}

Command  == [kind: {"start", "update"}, key: Sessions, options: Options]
             \union [kind: {"stop", "remove"}, key: Sessions]
Response == [of: {"start", "stop", "restart"}, key: Sessions]
             \union [of: {"update"}, key: Sessions, old: Options]
             \union [of: {"nobody"}]
Message  == Command \union [kind: {"response"}, to: Response, ok: BOOLEAN]
             \union [kind: {"engineUp", "reconfigure", "freed"}]
ApiCall  == [call: {"startFix"}, interval: Intervals, then: Response]
             \union [call: {"stopFix"}, then: Response]
             \union [call: {"configure", "open"}]

Init ==
  /\ capsKnown = FALSE
  /\ clients = Sessions
  /\ sessions = [s \in Sessions |-> None]
  /\ pending = <<>>
  /\ queue = <<>>
  /\ api = <<[call |-> "open"]>>
  /\ fix = Off
  /\ client = [s \in Sessions |-> "new"]
  /\ owed = [s \in Sessions |-> 0]
  /\ world \in Worlds

-----------------------------------------------------------------------------
(* Sessions in the map, and the smallest interval and power mode of some.  *)

Tracks(s) == sessions[s] # None
Live      == {s \in Sessions : Tracks(s)}

Least(S) == CHOOSE n \in S : \A m \in S : n <= m

LeastInterval(S) == Least({sessions[s].interval : s \in S})
LeastPower(S)    == Least({sessions[s].power : s \in S})

Nobody == [of |-> "nobody"]

StartFix(i, then) == <<[call |-> "startFix", interval |-> i, then |-> then]>>
StopFix(then)     == <<[call |-> "stopFix", then |-> then]>>

(* The engine calls of each multiplexing decision: none means that the     *)
(* client is answered at once.                                             *)

(* startTimeBasedTrackingMultiplex                                         *)
StartMultiplex(s, o) ==
  IF Live = {} THEN StartFix(o.interval, [of |-> "start", key |-> s])
  ELSE IF o.interval < LeastInterval(Live) \/ o.power < LeastPower(Live)
  THEN StartFix(Least({o.interval, LeastInterval(Live)}), [of |-> "start", key |-> s])
  ELSE <<>>

(* updateTrackingMultiplex: a session that becomes slower than the others  *)
(* leaves the engine as it is.                                             *)
UpdateMultiplex(s, o) ==
  LET others == Live \ {s}
      then   == [of |-> "update", key |-> s, old |-> sessions[s]]
  IN  IF o.interval = sessions[s].interval /\ o.power = sessions[s].power THEN <<>>
      ELSE IF others = {} THEN StartFix(o.interval, then)
      ELSE IF o.interval < LeastInterval(others) \/ o.power < LeastPower(others)
      THEN StartFix(Least({o.interval, LeastInterval(others)}), then)
      ELSE <<>>

(* A bug to catch: the fix is stopped with the session that ends.          *)
StopMultiplexStopsFix(s) ==
  LET others == Live \ {s}
  IN  IF others = {} \/ sessions[s].interval < LeastInterval(others)
      THEN StopFix([of |-> "stop", key |-> s]) ELSE <<>>

(* stopTimeBasedTrackingMultiplex: the last session stops the fix, one     *)
(* that was ahead of the others restarts it for them.                      *)
StopMultiplex(s) ==
  LET others == Live \ {s}
  IN  IF others = {} THEN StopFix([of |-> "stop", key |-> s])
      ELSE IF \/ sessions[s].interval < LeastInterval(others)
              \/ sessions[s].power < LeastPower(others)
      THEN StartFix(LeastInterval(others), [of |-> "restart", key |-> s])
      ELSE <<>>

(* checkAndRestartTimeBasedSession                                         *)
RestartFix == IF Live = {} THEN <<>> ELSE StartFix(LeastInterval(Live), Nobody)

(* Two bugs to catch: sessions are not suspended, or are suspended by a    *)
(* fix with no interval.                                                   *)
SuspendNothing   == <<>>

(* suspendSessions                                                         *)
SuspendFix == IF Live = {} THEN <<>> ELSE StopFix(Nobody)

-----------------------------------------------------------------------------
(* reportResponse: the client is gone, or it has one answer less to wait   *)
(* for (-1 is an answer nobody waited for).                                *)
AfterReport(s) ==
  [owed EXCEPT ![s] = IF s \notin clients \/ @ = -1 THEN @ ELSE @ - 1]

(* What session s's client knows after an answer to its start, or stop.    *)
AfterStart(s, ok) ==
  [client EXCEPT ![s] = IF @ # "starting" THEN @ ELSE IF ok THEN "started" ELSE "failed"]
AfterStop(s, ok) ==
  [client EXCEPT ![s] = IF @ = "stopping" /\ ok THEN "stopped" ELSE @]

(* A pointer to a message that MTRunnable::run deleted after it was        *)
(* handled.  No handler takes one: what a program does with freed memory   *)
(* cannot be said, so the adapter's thread goes no further.                *)
Freed == [kind |-> "freed"]

Receives(kind) == queue # <<>> /\ Head(queue).kind = kind

PostCalls(calls) == api' = api \o calls
Save(s, o)       == sessions' = [sessions EXCEPT ![s] = o]

(* Distance-based requests wait for the engine to be open.                 *)
MustWait == ~capsKnown /\ Head(queue).options.distance

Wait ==
  /\ Receives("start") \/ Receives("update")
  /\ MustWait
  /\ pending' = Append(pending, Head(queue))
  /\ queue' = Tail(queue)
  /\ UNCHANGED <<capsKnown, clients, sessions, api, fix, clientVars, world>>

(* MsgStartTracking, for a client that is gone or has no callback to start *)
(* tracking with, or with options of size 0: an error is computed, and     *)
(* nothing is reported.                                                    *)
StartWithoutCallbacks ==
  /\ Receives("start")
  /\ ~MustWait
  /\ Head(queue).key \notin clients \/ world = "mute"
  /\ queue' = Tail(queue)
  /\ UNCHANGED <<adapterVars, api, fix, clientVars, world>>

(* MsgStartTracking, for a client that is registered with such a callback. *)
StartTracking ==
  /\ Receives("start")
  /\ ~MustWait
  /\ world # "mute"
  /\ LET s == Head(queue).key
         o == Head(queue).options
     IN  /\ s \in clients
         /\ Save(s, o)
         /\ PostCalls(StartMultiplex(s, o))
         /\ IF StartMultiplex(s, o) = <<>>
            THEN owed' = AfterReport(s) /\ client' = AfterStart(s, TRUE)
            ELSE UNCHANGED clientVars
  /\ queue' = Tail(queue)
  /\ UNCHANGED <<capsKnown, clients, pending, fix, world>>

(* MsgUpdateTracking: for a session the map does not hold.                 *)
UpdateUnknown ==
  /\ Receives("update")
  /\ ~MustWait
  /\ ~Tracks(Head(queue).key)
  /\ owed' = AfterReport(Head(queue).key)
  /\ queue' = Tail(queue)
  /\ UNCHANGED <<adapterVars, api, fix, client, world>>

(* MsgUpdateTracking: time-based to time-based.                            *)
UpdateTracking ==
  /\ Receives("update")
  /\ LET s == Head(queue).key
         o == Head(queue).options
     IN  /\ ~o.distance
         /\ Tracks(s)
         /\ Save(s, o)
         /\ PostCalls(UpdateMultiplex(s, o))
         /\ owed' = IF UpdateMultiplex(s, o) = <<>> THEN AfterReport(s) ELSE owed
  /\ queue' = Tail(queue)
  /\ UNCHANGED <<capsKnown, clients, pending, fix, client, world>>

(* MsgUpdateTracking: the switch to a distance-based session stops the     *)
(* session, saves it again (as time-based, for want of the engine's        *)
(* support) and starts distance-based tracking on the engine's one fix.    *)
SwitchToDistance ==
  /\ Receives("update")
  /\ ~MustWait
  /\ LET s == Head(queue).key
         o == Head(queue).options
     IN  /\ o.distance
         /\ Tracks(s)
         /\ Save(s, o)
         /\ PostCalls(StopMultiplex(s) \o StartFix(o.interval, Nobody))
         /\ owed' = IF StopMultiplex(s) = <<>> THEN AfterReport(s) ELSE owed
  /\ queue' = Tail(queue)
  /\ UNCHANGED <<capsKnown, clients, pending, fix, client, world>>

(* MsgStopTracking                                                         *)
StopTracking ==
  /\ Receives("stop")
  /\ LET s == Head(queue).key
     IN  \/ /\ Tracks(s)
            /\ Save(s, None)
            /\ PostCalls(StopMultiplex(s))
            /\ IF StopMultiplex(s) = <<>>
               THEN owed' = AfterReport(s) /\ client' = AfterStop(s, TRUE)
               ELSE UNCHANGED clientVars
         \/ /\ ~Tracks(s)
            /\ owed' = AfterReport(s)
            /\ client' = AfterStop(s, FALSE)
            /\ UNCHANGED <<sessions, api>>
  /\ queue' = Tail(queue)
  /\ UNCHANGED <<capsKnown, clients, pending, fix, world>>

(* MsgRemoveClient: stopClientSessions and eraseClient.                    *)
StopClientSessions ==
  /\ Receives("remove")
  /\ LET s == Head(queue).key
     IN  \/ Tracks(s) /\ Save(s, None) /\ PostCalls(StopMultiplex(s))
         \/ ~Tracks(s) /\ UNCHANGED <<sessions, api>>
  /\ clients' = clients \ {Head(queue).key}
  /\ queue' = Tail(queue)
  /\ UNCHANGED <<capsKnown, pending, fix, clientVars, world>>

(* mPendingMsgs is sent and not cleared.  The queue deletes each message   *)
(* once it is handled, and a second sending of it always comes after that: *)
(* what stays in mPendingMsgs are pointers to freed messages.              *)
SendPending ==
  /\ queue' = Tail(queue) \o pending
  /\ pending' = [i \in DOMAIN pending |-> Freed]

(* A bug to catch: an engine that comes up is not told of the sessions.    *)
EngineUpNoRestart ==
  /\ Receives("engineUp")
  /\ capsKnown' = TRUE
  /\ SendPending
  /\ UNCHANGED <<clients, sessions, api, fix, clientVars, world>>

(* MsgHandleEngineUpEvent: the sessions are restarted, and the messages    *)
(* that waited for the engine are sent.                                    *)
EngineUp ==
  /\ Receives("engineUp")
  /\ capsKnown' = TRUE
  /\ PostCalls(RestartFix)
  /\ SendPending
  /\ UNCHANGED <<clients, sessions, fix, clientVars, world>>

(* configMinGpsWeek, gnssUpdateSvConfig, and MsgGnssUpdateConfig with a    *)
(* setting that needs it: the sessions are suspended, the engine is        *)
(* configured, and the sessions are restarted.                             *)
Reconfigure ==
  /\ Receives("reconfigure")
  /\ PostCalls(SuspendFix \o <<[call |-> "configure"]>> \o RestartFix)
  /\ queue' = Tail(queue)
  /\ UNCHANGED <<adapterVars, fix, clientVars, world>>

(* The responses of startTimeBasedTracking, updateTracking, stopTracking.  *)
StartResponded ==
  /\ Receives("response") /\ Head(queue).to.of = "start"
  /\ LET s == Head(queue).to.key
     IN  /\ IF Head(queue).ok THEN UNCHANGED sessions ELSE Save(s, None)
         /\ owed' = AfterReport(s)
         /\ client' = AfterStart(s, Head(queue).ok)
  /\ queue' = Tail(queue)
  /\ UNCHANGED <<capsKnown, clients, pending, api, fix, world>>

UpdateResponded ==
  /\ Receives("response") /\ Head(queue).to.of = "update"
  /\ LET s == Head(queue).to.key
     IN  /\ IF Head(queue).ok THEN UNCHANGED sessions ELSE Save(s, Head(queue).to.old)
         /\ owed' = AfterReport(s)
  /\ queue' = Tail(queue)
  /\ UNCHANGED <<capsKnown, clients, pending, api, fix, client, world>>

(* A restart for the others is a start to the code: where it fails, the    *)
(* session that ended is erased once more.                                 *)
StopResponded ==
  /\ Receives("response") /\ Head(queue).to.of \in {"stop", "restart"}
  /\ LET s == Head(queue).to.key
     IN  /\ IF Head(queue).to.of = "restart" /\ ~Head(queue).ok
            THEN Save(s, None) ELSE UNCHANGED sessions
         /\ owed' = AfterReport(s)
         /\ client' = AfterStop(s, Head(queue).ok)
  /\ queue' = Tail(queue)
  /\ UNCHANGED <<capsKnown, clients, pending, api, fix, world>>

AdapterStep ==
  \/ Wait \/ StartWithoutCallbacks \/ StartTracking
  \/ UpdateUnknown \/ UpdateTracking \/ SwitchToDistance
  \/ StopTracking \/ StopClientSessions \/ EngineUp \/ Reconfigure
  \/ StartResponded \/ UpdateResponded \/ StopResponded

-----------------------------------------------------------------------------
(* The LocApi's thread, and the engine.                                    *)

Runs(call) == api # <<>> /\ Head(api).call = call

(* LocApiResponse::returnToSender                                          *)
ReturnToSender(ok) ==
  queue' = IF Head(api).then = Nobody THEN queue
           ELSE Append(queue, [kind |-> "response", to |-> Head(api).then, ok |-> ok])

StartTimeBasedTracking ==
  /\ Runs("startFix")
  /\ api' = Tail(api)
  /\ \/ fix' = Head(api).interval /\ ReturnToSender(TRUE)
     \/ world = "flaky" /\ UNCHANGED fix /\ ReturnToSender(FALSE)
  /\ UNCHANGED <<adapterVars, clientVars, world>>

StopTimeBasedTracking ==
  /\ Runs("stopFix")
  /\ api' = Tail(api)
  /\ \/ fix' = Off /\ ReturnToSender(TRUE)
     \/ world = "flaky" /\ UNCHANGED fix /\ ReturnToSender(FALSE)
  /\ UNCHANGED <<adapterVars, clientVars, world>>

Configure ==
  /\ Runs("configure")
  /\ api' = Tail(api)
  /\ UNCHANGED <<adapterVars, queue, fix, clientVars, world>>

(* LocOpenMsg, when the adapter is added, and LocSsrMsg, when the engine   *)
(* went down: open tells the adapters that the engine is up.               *)
Open ==
  /\ Runs("open")
  /\ api' = Tail(api)
  /\ fix' = Off
  /\ queue' = Append(queue, [kind |-> "engineUp"])
  /\ UNCHANGED <<adapterVars, clientVars, world>>

ApiStep == StartTimeBasedTracking \/ StopTimeBasedTracking \/ Configure \/ Open

Backlog == Len(queue) + Len(api) + Len(pending)

(* The engine (external) restarts: its fix is lost.                        *)
EngineDown ==
  /\ Backlog < MaxBacklog
  /\ fix' = Off
  /\ api' = Append(api, [call |-> "open"])
  /\ UNCHANGED <<adapterVars, queue, clientVars, world>>

-----------------------------------------------------------------------------
(* The clients, behind LocationAPI: they need not wait for an answer       *)
(* before the next command.                                                *)

SendCommand(m) == Backlog < MaxBacklog /\ queue' = Append(queue, m)

Expect(s, c) == client' = [client EXCEPT ![s] = c] /\ owed' = [owed EXCEPT ![s] = @ + 1]

StartTrackingCommand(s, o) ==
  /\ client[s] = "new"
  /\ o.distance => world = "distance"
  /\ SendCommand([kind |-> "start", key |-> s, options |-> o])
  /\ Expect(s, "starting")
  /\ UNCHANGED <<adapterVars, api, fix, world>>

UpdateTrackingOptionsCommand(s, o) ==
  /\ client[s] \in {"starting", "started"}
  /\ o.distance => world = "distance"
  /\ SendCommand([kind |-> "update", key |-> s, options |-> o])
  /\ Expect(s, client[s])
  /\ UNCHANGED <<adapterVars, api, fix, world>>

StopTrackingCommand(s) ==
  /\ client[s] \in {"starting", "started"}
  /\ SendCommand([kind |-> "stop", key |-> s])
  /\ Expect(s, "stopping")
  /\ UNCHANGED <<adapterVars, api, fix, world>>

(* LocationAPI::destroy, removeClientCommand                               *)
RemoveClientCommand(s) ==
  /\ client[s] \in {"starting", "started", "stopping"}
  /\ SendCommand([kind |-> "remove", key |-> s])
  /\ client' = [client EXCEPT ![s] = "removed"]
  /\ UNCHANGED <<adapterVars, api, fix, owed, world>>

ReconfigureCommand ==
  /\ SendCommand([kind |-> "reconfigure"])
  /\ UNCHANGED <<adapterVars, api, fix, clientVars, world>>

ClientStep ==
  \/ \E s \in Sessions, o \in Options :
       StartTrackingCommand(s, o) \/ UpdateTrackingOptionsCommand(s, o)
  \/ \E s \in Sessions : StopTrackingCommand(s) \/ RemoveClientCommand(s)
  \/ ReconfigureCommand

Next == AdapterStep \/ ApiStep \/ EngineDown \/ ClientStep

Spec == Init /\ [][Next]_vars

-----------------------------------------------------------------------------
TypeOK ==
  /\ capsKnown \in BOOLEAN
  /\ clients \subseteq Sessions
  /\ sessions \in [Sessions -> Options \union {None}]
  /\ pending \in Seq(Command \union {Freed})
  /\ queue \in Seq(Message)
  /\ api \in Seq(ApiCall)
  /\ fix \in Intervals \union {Off}
  /\ client \in [Sessions -> ClientState]
  /\ owed \in [Sessions -> Int]
  /\ world \in Worlds

(* Nothing is left to do.  (An adapter that met a freed message is not     *)
(* quiescent: nothing is claimed of what it does.)                         *)
Quiescent == queue = <<>> /\ api = <<>>

(* The multiplexing hazard.  Where engine calls succeed, once both queues  *)
(* are empty the engine runs a fix exactly if some session tracks, and (no *)
(* client asking for a minimum distance) at an interval that serves every  *)
(* session: whatever order starts, updates, stops, removals, engine        *)
(* restarts and reconfigurations came in.                                  *)
FixServesSessions ==
  TypeOK /\ (Quiescent /\ world # "flaky" =>
    /\ fix = Off <=> Live = {}
    /\ world = "plain" => \A s \in Live : fix <= sessions[s].interval)

(* Where engine calls succeed, a client that was told                      *)
(* "LOCATION_ERROR_SUCCESS if session was successfully started"            *)
(* (ILocationAPI.h:52), and did not stop, is tracked once the queues are   *)
(* empty.                                                                  *)
StartedIsTracked ==
  world # "flaky" /\ Quiescent =>
    \A s \in Sessions : client[s] = "started" => Tracks(s) /\ fix # Off

(* Where moreover nothing waits for the engine, a session whose client     *)
(* knows it stopped ("Stops a tracking session associated with id          *)
(* parameter", ILocationAPI.h:58) is brought back by no late response; a   *)
(* removed client leaves no session behind either.                         *)
StoppedStaysStopped ==
  world = "plain" =>
    \A s \in Sessions :
      /\ client[s] = "stopped" => ~Tracks(s)
      /\ Quiescent /\ client[s] = "removed" => ~Tracks(s)

(* A start that the code refuses without a word: its client waits for an   *)
(* answer ever after.                                                      *)
StartUnanswered(s) == world = "mute" /\ client[s] # "new"

(* Every command is answered exactly once, on a flaky engine and with      *)
(* commands that waited for the engine too: nobody gets an answer it does  *)
(* not wait for, and once both queues are empty nobody waits.  Two cases   *)
(* apart: a start of a client without the callbacks for it, or with        *)
(* options of size 0, which is never answered; and all that comes after a  *)
(* freed message is sent, of which nothing is claimed (the queue holds it  *)
(* for ever, so it is not quiescent).                                      *)
AnsweredOnce ==
  \A s \in Sessions :
    /\ owed[s] >= 0
    /\ Quiescent /\ client[s] # "removed" =>
         owed[s] = IF StartUnanswered(s) THEN 1 ELSE 0

(* "responseCallback returns: [...] LOCATION_ERROR_CALLBACK_MISSING if no  *)
(* trackingCallback was passed, LOCATION_ERROR_INVALID_PARAMETER if        *)
(* LocationOptions parameter is invalid" (ILocationAPI.h:51-55): once the  *)
(* queues are empty no registered client waits for an answer.  The code    *)
(* leaves such a client waiting (GnssAdapter.cpp:2998).                    *)
StartsAreAnswered ==
  Quiescent => \A s \in Sessions : client[s] # "removed" => owed[s] = 0

(* What a client was told of its session is what the adapter and the       *)
(* engine do for it, and it is told of every command but a start of the    *)
(* kind that AnsweredOnce names.                                           *)
ToldIsTracked == StartedIsTracked /\ StoppedStaysStopped /\ AnsweredOnce

(* "suspend all tracking sessions to apply the constellation config"       *)
(* (GnssAdapter.cpp:6029): where engine calls succeed, the engine is never *)
(* configured while a fix runs.                                            *)
ConfiguredWhileSuspended ==
  world # "flaky" => (Runs("configure") => fix = Off)

=============================================================================
