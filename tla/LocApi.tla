------------------------------- MODULE LocApi -------------------------------
(***************************************************************************)
(* LocApiBase with SynergyLocApi below and the adapters above it: who is   *)
(* registered, which events the engine (SLL, a loaded library) is opened   *)
(* for, how its events reach the adapters and its answers their callers.   *)
(* Three kinds of threads meet: the LocApiMsgTask, which runs what is sent *)
(* down, the adapters' MsgTask, and the engine's own, which walks the list *)
(* of adapters while it changes.                                           *)
(***************************************************************************)
EXTENDS Naturals, Sequences, SequencesExt

CONSTANTS
  Adapters,     (* [an adapter -> the requests it handles]                 *)
  Masks,        (* the event masks an adapter sets                         *)
  Excluded,     (* mExcludedMask                                           *)
  CallsUsed,    (* the calls of SynergyLocApi that are made                *)
  EventsUsed,   (* of Reports and Requests, those that come                *)
  MaxAdapters,  (* MAX_ADAPTERS                                            *)
  MaxEvents,    (* [Worlds -> Nat], bounds the calls and events            *)
  Worlds        (* which kinds of events are mixed in one behaviour        *)

VARIABLES
  world,
  mLocAdapters, (* the registered adapters                                 *)
  mEvtMask,     (* [the adapters -> their event mask]                      *)
  apiMsgs,      (* the LocApiMsgTask's queue                               *)
  msgs,         (* the adapters' MsgTask's queue                           *)
  engine,       (* is it open, and for which events                        *)
  known,        (* who has been told that the engine is up                 *)
  walk,         (* an event on its way through the adapters                *)
  asked,        (* the calls so far that were made with a response object  *)
  answers,      (* [id, did, err]: the answers that have come back         *)
  returned,     (* the last result of a call on the caller's thread        *)
  capable,      (* ContextBase's sIsEngineCapabilitiesKnown                *)
  events        (* calls and events so far                                 *)

apiVars == <<world, mLocAdapters, mEvtMask, apiMsgs, msgs, engine, known,
             walk, asked, answers, returned, capable, events>>

callVars == <<asked, answers, returned>>

Names == DOMAIN Adapters
None  == "none"

ASSUME NamesAssumption == None \notin Names

Idle  == [event |-> None, at |-> 0, met |-> <<>>, handled |-> FALSE,
          present |-> {}, data |-> [type |-> None]]

ApiInit ==
  /\ world \in Worlds
  /\ mLocAdapters = <<>>
  /\ mEvtMask = [a \in Names |-> {}]
  /\ apiMsgs = <<>>
  /\ msgs = <<>>
  /\ engine = [up |-> FALSE, mask |-> {}]
  /\ known = {}
  /\ walk = Idle
  /\ asked = <<>>
  /\ answers = <<>>
  /\ returned = [call |-> None, did |-> None, err |-> None]
  /\ capable = FALSE
  /\ events = 0

Event(kinds) ==
  /\ world \in kinds
  /\ events < MaxEvents[world]
  /\ events' = events + 1

-----------------------------------------------------------------------------
(* SynergyLocApi's calls by how they are made: a message to the            *)
(* LocApiMsgTask that answers, one that does not, or a call on the thread  *)
(* of the caller, with a result or without.                                *)

FixCalls == {"startFix", "stopFix"}
InjectionCalls == {"setPositionMode", "setTime", "injectPosition"}
DeletionCalls == {"deleteAidingData"}
NiCalls == {"informNiResponse"}
ServerCalls == {"setServerSync", "setServerSyncByIp"}
AtlCalls == {"atlOpenStatus", "atlCloseStatus"}
SuplCalls == {"setSUPLVersionSync", "setNMEATypesSync", "setLPPConfigSync"}
SensorCalls == {"setSensorPropertiesSync", "setSensorPerfControlConfigSync"}
LppeCalls == {"setAGLONASSProtocolSync", "setLPPeProtocolCpSync",
              "setLPPeProtocolUpSync"}
ZppCalls == {"getWwanZppFix", "getBestAvailableZppFix"}
LockCalls == {"setGpsLockSync"}
AidingCalls == {"requestForAidingData"}
XtraCalls == {"setXtraVersionCheckSync"}
ModeCalls == {"setConstrainedTuncMode",
              "setPositionAssistedClockEstimatorMode"}
EnergyCalls == {"getGnssEnergyConsumed"}
Conversions == {"convertSuplVersion", "convertLppeCp", "convertLppeUp"}
BlacklistSync == {"setBlacklistSvSync"}
BlacklistCalls == {"setBlacklistSv"}
BlacklistQueries == {"getBlacklistSv"}
ConstellationCalls == {"setConstellationControl", "resetConstellationControl"}
ConstellationQueries == {"getConstellationControl"}
TrackingCalls == {"startTimeBasedTracking", "stopTimeBasedTracking",
  "startDistanceBasedTracking", "stopDistanceBasedTracking"}

(* LocApiBase's own, which SynergyLocApi leaves as they are: the engine    *)
(* hears nothing, and the response object is neither used nor deleted.     *)
DefaultCalls == {"addGeofence", "removeGeofence", "pauseGeofence",
  "resumeGeofence", "modifyGeofence", "startBatching", "stopBatching",
  "startOutdoorTripBatching", "reStartOutdoorTripBatching",
  "stopOutdoorTripBatching", "getBatchedLocations", "getBatchedTripLocations",
  "queryAccumulatedTripDistance", "addToCallQueue", "configRobustLocation",
  "getRobustLocationConfig", "configMinGpsWeek", "getMinGpsWeek",
  "getParameter", "configConstellationMultiBand",
  "getConstellationMultiBandConfig"}

(* Or success is returned.                                                 *)
DefaultSync == {"setEmergencyExtensionWindowSync",
  "startOutdoorTripBatchingSync", "stopOutdoorTripBatchingSync",
  "getBatchedLocationsSync", "getBatchedTripLocationsSync",
  "queryAccumulatedTripDistanceSync", "setParameterSync"}

Answering == FixCalls \cup DeletionCalls \cup ModeCalls \cup BlacklistCalls
             \cup ConstellationCalls \cup TrackingCalls
Returning == ServerCalls \cup SuplCalls \cup SensorCalls \cup LppeCalls
             \cup LockCalls \cup XtraCalls \cup BlacklistSync
Silent == InjectionCalls \cup NiCalls \cup ZppCalls \cup AidingCalls
          \cup EnergyCalls \cup BlacklistQueries \cup ConstellationQueries
Direct == Returning \cup AtlCalls \cup Conversions \cup DefaultSync

ASSUME CallsAssumption ==
  CallsUsed \subseteq Answering \cup Silent \cup Direct \cup DefaultCalls

(* What the engine does with a call.  Without the library the functions    *)
(* are there and all say UNSUPPORTED.                                      *)
NoLibrary == {"refused"}
EngineDoes(call) ==
  CASE call \in DefaultCalls \cup DefaultSync -> {"nothing"}
    [] call = "setServerSyncByIp" -> {"absent"}
    [] OTHER -> IF world = "nolib" THEN NoLibrary
                ELSE {"done", "refused", "absent"}

(* What the caller hears of it.                                            *)
Absent(call) ==
  CASE call \in ConstellationCalls -> "GENERAL_FAILURE"
    [] call \in ServerCalls -> "CALLBACK_MISSING"
    [] OTHER -> "NOT_SUPPORTED"

(* A bug to catch: success unless the engine says otherwise.               *)
ErrUnlessRefused(call, did) ==
  IF did = "refused" THEN "GENERAL_FAILURE" ELSE "SUCCESS"

Err(call, did) ==
  CASE did = "done" \/ call \in DefaultSync -> "SUCCESS"
    [] did = "refused" -> "GENERAL_FAILURE"
    [] did = "absent" -> Absent(call)

-----------------------------------------------------------------------------
(* Adapters come, change what they listen to, and go, on threads of their  *)
(* own or the MsgTask.                                                     *)

Post(m) == apiMsgs' = Append(apiMsgs, m)
Open(a) == [type |-> "open", adapter |-> a]

(* The adapter is built, and knows the engine if it has ever been open.    *)
AddAdapter(a) ==
  /\ Event(Worlds)
  /\ world = "odcpi" => "requestOdcpi" \in Adapters[a]
  /\ a \notin Range(mLocAdapters)
  /\ Len(mLocAdapters) < MaxAdapters
  /\ mLocAdapters' = Append(mLocAdapters, a)
  /\ known' = IF capable THEN known \cup {a} ELSE known
  /\ Post(Open(a))
  /\ UNCHANGED <<world, mEvtMask, msgs, engine, walk, callVars, capable>>

(* The last adapter moves to the place of the one that leaves.             *)
RemoveAdapter(a) ==
  LET n == Len(mLocAdapters)
      i == CHOOSE k \in 1 .. n : mLocAdapters[k] = a
  IN /\ Event({"leaving"})
     /\ a \in Range(mLocAdapters)
     /\ mLocAdapters' = SubSeq([mLocAdapters EXCEPT ![i] = mLocAdapters[n]],
                               1, n - 1)
     /\ Post(IF n = 1 THEN [type |-> "close"] ELSE Open(None))
     /\ UNCHANGED <<world, mEvtMask, msgs, engine, known, walk, callVars,
                    capable>>

SetMask(a, mask) ==
  /\ mEvtMask' = [mEvtMask EXCEPT ![a] = mask]
  /\ Post(Open(None))

UpdateEvtMask(a, mask) ==
  /\ Event({"masks", "leaving"})
  /\ a \in Range(mLocAdapters)
  /\ mEvtMask[a] # mask
  /\ SetMask(a, mask)
  /\ UNCHANGED <<world, mLocAdapters, msgs, engine, known, walk, callVars,
                 capable>>

(* An adapter's handler sends a call down.                                 *)
MakeCall(a, call) ==
  /\ Event({"calls", "nolib"})
  /\ a \in Range(mLocAdapters)
  /\ call \notin Direct
  /\ Post([type |-> "call", call |-> call, id |-> Len(asked) + 1])
  /\ asked' = IF call \in Answering \cup DefaultCalls
              THEN Append(asked, call) ELSE asked
  /\ UNCHANGED <<world, mLocAdapters, mEvtMask, msgs, engine, known, walk,
                 answers, returned, capable>>

(* Or makes one of those that do not wait for their turn.                  *)
CallDirectly(call) ==
  /\ Event({"calls", "nolib"})
  /\ mLocAdapters # <<>>
  /\ call \in Direct
  /\ \E did \in EngineDoes(call) :
       returned' = [call |-> call, did |-> did,
                    err |-> IF call \in Returning \cup DefaultSync
                            THEN Err(call, did) ELSE None]
  /\ UNCHANGED <<world, mLocAdapters, mEvtMask, apiMsgs, msgs, engine, known,
                 walk, asked, answers, capable>>

-----------------------------------------------------------------------------
(* The LocApiMsgTask.                                                      *)

Receives(type) == apiMsgs # <<>> /\ apiMsgs[1].type = type
Msg == apiMsgs[1]

(* A bug to catch: an open keeps what the engine was opened for.           *)
EvtMaskKept == engine.mask \cup UNION {mEvtMask[a] : a \in Range(mLocAdapters)}

(* getEvtMask, when the message is handled.                                *)
EvtMask ==
  UNION {mEvtMask[a] : a \in Range(mLocAdapters)} \ Excluded

(* SynergyLocApi's open; the capabilities are kept the first time.         *)
OpenEngine(ok) ==
  /\ ok \/ world \in {"failing", "nolib"}
  /\ world = "nolib" => ~ok
  /\ capable' = (capable \/ ok)

Up(adapters) == [k \in DOMAIN adapters |->
                   [type |-> "engineUp", adapter |-> adapters[k]]]

(* LocOpenMsg.  Only the adapter that was added is told of the engine.     *)
HandleOpen(ok) ==
  /\ Receives("open")
  /\ OpenEngine(ok)
  /\ apiMsgs' = Tail(apiMsgs)
  /\ engine' = IF ok THEN [up |-> TRUE, mask |-> EvtMask] ELSE engine
  /\ msgs' = IF ok /\ Msg.adapter # None
             THEN msgs \o Up(<<Msg.adapter>>) ELSE msgs
  /\ UNCHANGED <<world, mLocAdapters, mEvtMask, known, walk, callVars, events>>

HandleClose ==
  /\ Receives("close")
  /\ apiMsgs' = Tail(apiMsgs)
  /\ engine' = [up |-> FALSE, mask |-> {}]
  /\ UNCHANGED <<world, mLocAdapters, mEvtMask, msgs, known, walk, callVars,
                 capable, events>>

(* LocSsrMsg: closed and opened again, and if it works all are told.       *)
HandleSsr(ok) ==
  /\ Receives("ssr")
  /\ OpenEngine(ok)
  /\ apiMsgs' = Tail(apiMsgs)
  /\ engine' = IF ok THEN [up |-> TRUE, mask |-> EvtMask]
               ELSE [up |-> FALSE, mask |-> {}]
  /\ msgs' = IF ok THEN msgs \o Up(mLocAdapters) ELSE msgs
  /\ UNCHANGED <<world, mLocAdapters, mEvtMask, known, walk, callVars, events>>

(* returnToSender: the answer is a message to the adapters.                *)
Respond(m, did) ==
  IF m.call \in Answering
  THEN <<[type |-> "answer", id |-> m.id, did |-> did,
          err |-> Err(m.call, did)]>>
  ELSE <<>>

HandleCall ==
  /\ Receives("call")
  /\ apiMsgs' = Tail(apiMsgs)
  /\ \E did \in EngineDoes(Msg.call) : msgs' = msgs \o Respond(Msg, did)
  /\ UNCHANGED <<world, mLocAdapters, mEvtMask, engine, known, walk, callVars,
                 capable, events>>

-----------------------------------------------------------------------------
(* The engine's thread.                                                    *)

(* handleSll...: what all adapters get, and what the first to handle it.   *)
PositionEvents == {"reportPosition", "reportSv", "reportGnssMeasurements",
  "reportSvPolynomial", "reportSvEphemeris"}
StatusEvents == {"reportStatus", "reportNmea", "reportData"}
SystemEvents == {"reportLocationSystemInfo"}
ConfigEvents == {"reportGnssSvIdConfig", "reportGnssSvTypeConfig"}
EnergyEvents == {"reportGnssEngEnergyConsumed"}
Reports == PositionEvents \cup StatusEvents \cup SystemEvents
           \cup ConfigEvents \cup EnergyEvents

ServerRequests == {"reportXtraServer"}
DataRequests == {"requestXtraData", "requestTime", "requestLocation"}
LinkRequests == {"requestATL", "releaseATL"}
ZppReports == {"reportWwanZppFix", "reportZppBestAvailableFix"}
OdcpiRequests == {"requestOdcpi"}
AidReports == {"reportDeleteAidingDataEvent", "reportKlobucharIonoModel",
  "reportGnssAdditionalSystemInfo"}
Requests == ServerRequests \cup DataRequests \cup LinkRequests
            \cup ZppReports \cup OdcpiRequests \cup AidReports

ASSUME EventsAssumption == EventsUsed \subseteq Reports \cup Requests

(* handleEngineDownEvent: the restart is queued, then the adapters told,   *)
(* who do nothing.                                                         *)
EngineDown ==
  /\ engine.up
  /\ Event({"masks", "failing", "odcpi"})
  /\ Post([type |-> "ssr"])
  /\ engine' = [up |-> FALSE, mask |-> {}]
  /\ UNCHANGED <<world, mLocAdapters, mEvtMask, msgs, known, walk, callVars,
                 capable>>

Dispatch(event, data) ==
  /\ walk = Idle
  /\ engine.up
  /\ Event(IF event \in OdcpiRequests THEN {"odcpi"}
           ELSE {"dispatch", "leaving"})
  /\ walk' = [Idle EXCEPT !.event = event, !.at = 1, !.data = data,
                          !.present = Range(mLocAdapters)]
  /\ UNCHANGED <<world, mLocAdapters, mEvtMask, apiMsgs, msgs, engine, known,
                 callVars, capable>>

(* A bug to catch: a request goes on although it has been handled.         *)
HandlesLast(a, event) == event \in Adapters[a] /\ a = Last(mLocAdapters)

Handles(a, event) == event \in Adapters[a]

(* TO_ALL_ADAPTERS and TO_1ST_HANDLING_ADAPTER, one adapter at a time; the *)
(* adapter that handles a request sends itself a message.                  *)
Walk ==
  /\ walk # Idle
  /\ IF walk.at > Len(mLocAdapters) \/ walk.handled
     THEN walk' = Idle /\ UNCHANGED msgs
     ELSE LET a == mLocAdapters[walk.at]
              done == walk.event \in Requests /\ Handles(a, walk.event)
          IN /\ walk' = [walk EXCEPT !.at = @ + 1, !.met = Append(@, a),
                                     !.handled = done]
             /\ msgs' = IF done THEN Append(msgs, [type |-> walk.event,
                                                   data |-> walk.data])
                        ELSE msgs
  /\ UNCHANGED <<world, mLocAdapters, mEvtMask, apiMsgs, engine, known,
                 callVars, capable, events>>

-----------------------------------------------------------------------------
(* The adapters' MsgTask.                                                  *)

Gets(type) == msgs # <<>> /\ msgs[1].type = type

HandleEngineUp ==
  /\ Gets("engineUp")
  /\ msgs' = Tail(msgs)
  /\ known' = known \cup {msgs[1].adapter}
  /\ UNCHANGED <<world, mLocAdapters, mEvtMask, apiMsgs, engine, walk,
                 callVars, capable, events>>

HandleAnswer ==
  /\ Gets("answer")
  /\ msgs' = Tail(msgs)
  /\ answers' = Append(answers, [id |-> msgs[1].id, did |-> msgs[1].did,
                                 err |-> msgs[1].err])
  /\ UNCHANGED <<world, mLocAdapters, mEvtMask, apiMsgs, engine, known, walk,
                 asked, returned, capable, events>>

(* What the other requests come to: modules Agps and XtraObserver.         *)
HandleRequest(event) ==
  /\ Gets(event)
  /\ msgs' = Tail(msgs)
  /\ UNCHANGED <<world, mLocAdapters, mEvtMask, apiMsgs, engine, known, walk,
                 callVars, capable, events>>

-----------------------------------------------------------------------------
ApiNext ==
  \/ \E a \in Names :
       \/ AddAdapter(a)
       \/ RemoveAdapter(a)
       \/ \E mask \in Masks : UpdateEvtMask(a, mask)
       \/ \E call \in CallsUsed : MakeCall(a, call)
  \/ \E call \in CallsUsed : CallDirectly(call)
  \/ \E ok \in BOOLEAN : HandleOpen(ok) \/ HandleSsr(ok)
  \/ HandleClose \/ HandleCall
  \/ EngineDown
  \/ \E event \in EventsUsed \ OdcpiRequests :
       Dispatch(event, Idle.data)
  \/ Walk
  \/ HandleAnswer
  \/ \E event \in Requests \ OdcpiRequests : HandleRequest(event)

-----------------------------------------------------------------------------
ApiTypeOK ==
  /\ Range(mLocAdapters) \subseteq Names
  /\ IsInjective(mLocAdapters)
  /\ DOMAIN mEvtMask = Names
  /\ known \subseteq Names
  /\ walk.event \in Reports \cup Requests \cup {None}

Reopening == \E k \in DOMAIN apiMsgs : apiMsgs[k].type \in {"open", "ssr",
                                                            "close"}

Told(a) == a \in known
           \/ \E k \in DOMAIN msgs :
                msgs[k] = [type |-> "engineUp", adapter |-> a]

(* Whatever adapters come, go and change while the engine restarts, once   *)
(* the messages are handled it is open for exactly the events they want,   *)
(* and everyone is told it is up.                                          *)
EngineServesMasks ==
  /\ ApiTypeOK
  /\ ~Reopening /\ mLocAdapters # <<>> /\ world \notin {"failing", "nolib"}
       => /\ engine.up
          /\ engine.mask = UNION {mEvtMask[a] : a \in Range(mLocAdapters)}
                           \ Excluded
          /\ \A a \in Range(mLocAdapters) : Told(a)

(* An event that is through has reached every adapter that was there all   *)
(* along, once each, up to the first to handle it if it is a request, as   *)
(* long as no adapter leaves meanwhile.                                    *)
EventsReachAdapters ==
  walk # Idle /\ world # "leaving" =>
    /\ IsInjective(walk.met)
    /\ walk.at > Len(mLocAdapters) /\ ~walk.handled
         => /\ walk.present \subseteq Range(walk.met)
            /\ walk.event \in Requests =>
                 \A a \in walk.present : walk.event \notin Adapters[a]
    /\ walk.handled => walk.event \in Adapters[Last(walk.met)]
                       /\ \A a \in Range(Front(walk.met)) :
                            walk.event \notin Adapters[a]

Handled == apiMsgs = <<>> /\ msgs = <<>>

(* Of the calls made with a response object those SynergyLocApi implements *)
(* are answered, once each and in their order, and those it leaves to      *)
(* LocApiBase (DefaultCalls) are not.  Answered or returned, success is    *)
(* what the engine made of the call; only LocApiBase's own synchronous     *)
(* calls (DefaultSync) say success when nothing was done.                  *)
AnswersAreTrue ==
  /\ \A k \in DOMAIN answers :
       answers[k].err = "SUCCESS" <=> answers[k].did = "done"
  /\ \A j, k \in DOMAIN answers : j < k => answers[j].id < answers[k].id
  /\ Handled => {answers[k].id : k \in DOMAIN answers}
                 = {i \in DOMAIN asked : asked[i] \notin DefaultCalls}
  /\ returned.call \in Returning =>
       (returned.err = "SUCCESS" <=> returned.did = "done")

(* "collectiveResponseCallback returns: [...] LOCATION_ERROR_NOT_SUPPORTED *)
(* if geofence is not supported" (ILocationAPI.h:121-125): such a call is  *)
(* answered, too.  With this engine it is not, nor are those of batching.  *)
EveryCallAnswered == Handled => Len(answers) = Len(asked)

=============================================================================
