----------------------------- MODULE ApiClient -----------------------------
(* LocationAPIClientBase and the HAL's clients built on it: a client numbers *)
(* its sessions and fences itself, puts a request on a queue for each call,  *)
(* and gives a response of the service to a request on one of the queues,    *)
(* chosen by the session the response names.                                 *)
(*                                                                           *)
(* A call holds mMutex from its request to its return, so a call is a step.  *)
(* The adapters share one thread: they take the calls in their order, refuse *)
(* some at once, and answer the others when the engine has.                  *)
EXTENDS LocationApi

CONSTANTS
  Me,               \* the object whose client is followed
  Ids,              \* the ids the client gives its sessions (mDefaultId)
  Fences,           \* the ids the client gives its fences
  NiIds,            \* the ids of network-initiated requests
  Worlds,           \* what a run lets happen, see below
  MaxCalls          \* bound: calls of the client, by world

(* "hal": the modes BatchingAPIClient uses.  "base": tracking as a session's *)
(* mode too, and no failure.  "single": the queues of one session each.  In  *)
(* these the client waits for the answers before it calls again.  "hasty":   *)
(* calls overlap with answers.  "life": no calls, objects come and go.       *)
WorldNames == {"hal", "base", "single", "hasty", "life"}
Uses(w) == CASE w = "hal"    -> {"sessions"}
             [] w = "base"   -> {"sessions", "fences"}
             [] w = "single" -> {"tracking", "control"}
             [] w = "hasty"  -> {"sessions", "fences"}
             [] OTHER        -> {}

ASSUME WorldsAssumption ==
  /\ Worlds \subseteq WorldNames /\ Me \in Apis
  /\ \A w \in Worlds : MaxCalls[w] \in Nat

VARIABLES
  world,
  queues,           \* mRequestQueues: the session, and the waiting requests
  mTracking,
  sessions,         \* mSessionBiDict
  fences,           \* mGeofenceBiDict
  ctl,              \* LocationAPIControlClient: mEnabled, mConfig
  batch,            \* BatchingAPIClient: mState, mBatchedLocationInCache
  calls,            \* the calls the adapters have not yet taken
  engine,           \* the answers the engine still owes
  live,             \* the sessions the adapters hold
  fenced,           \* the fences the engine holds
  serial,           \* the calls made so far; also the last session given
  told,             \* the call whose request was last told, and the call
                    \* whose answer told it
  owed              \* a flush the framework has had no report for

vars == <<lifeVars, world, queues, mTracking, sessions, fences, ctl, batch,
          calls, engine, live, fenced, serial, told, owed>>
adapter == <<engine, live, fenced, told>>

Masks    == {"enter", "both"}
Breaches == {"enter", "exit"}
Queues   == {"tracking", "session", "geofence", "ni", "aiding", "control"}

Max2 == 2 * (CHOOSE n \in {MaxCalls[w] : w \in Worlds} :
               \A w \in Worlds : MaxCalls[w] <= n) + 2
Serials == 0 .. Max2

(* ------------------------- two-way dictionaries ------------------------- *)
EmptyDict == [fwd |-> <<>>, bwd |-> <<>>, ext |-> <<>>]
HasId(d, id)     == id \in DOMAIN d.fwd
HasSession(d, s) == s \in DOMAIN d.bwd
Set(d, id, s, ext) ==
  [fwd |-> Put(d.fwd, id, s), bwd |-> Put(d.bwd, s, id), ext |-> Put(d.ext, s, ext)]
RmById(d, id) ==
  [fwd |-> Erase(d.fwd, id), bwd |-> Erase(d.bwd, d.fwd[id]),
   ext |-> Erase(d.ext, d.fwd[id])]

(* A mutant of the next definition: the way back is kept.                    *)
RmBySessionHalf(d, s) == [d EXCEPT !.fwd = Erase(d.fwd, d.bwd[s])]

RmBySession(d, s) ==
  [fwd |-> Erase(d.fwd, d.bwd[s]), bwd |-> Erase(d.bwd, s), ext |-> Erase(d.ext, s)]
RemoveSession(d, s) == IF HasSession(d, s) THEN RmBySession(d, s) ELSE d

(* ------------------------------- requests ------------------------------- *)
Request(kind, n) == [kind |-> kind, n |-> n]
Push(qs, q, r)   == [qs EXCEPT ![q].reqs = Append(@, r)]

Reset(qs, q, s)  == [qs EXCEPT ![q] = [session |-> s, reqs |-> <<>>]]
Waits(q)         == queues[q].reqs # <<>>
Pop(q)           == [queues EXCEPT ![q].reqs = Tail(@)]

Call(op, s, n) == [op |-> op, s |-> s, n |-> n]

Init ==
  /\ world \in Worlds
  /\ IF world = "life"
       THEN InitLife
       ELSE /\ interfaces = [k \in Kinds |-> "loaded"]
            /\ clientData = Put(<<>>, Me, Kinds) /\ destroyClientData = <<>>
            /\ refCount = 1 /\ osUp = TRUE
            /\ heap = [a \in Apis |-> IF a = Me THEN "alive" ELSE "none"]
            /\ messages = [k \in Kinds |-> <<>>]
            /\ joined = [k \in Kinds |-> {Me}]
            /\ undone = [a \in Apis |-> "no"]
  /\ queues = [q \in Queues |-> [session |-> 0, reqs |-> <<>>]]
  /\ mTracking = FALSE
  /\ sessions = EmptyDict /\ fences = EmptyDict
  /\ ctl = [enabled |-> FALSE, config |-> "unset", configRequests |-> 0]
  /\ batch = [state |-> "stopped", cached |-> FALSE]
  /\ calls = <<>> /\ engine = <<>> /\ live = {} /\ fenced = {}
  /\ serial = 0 /\ told = <<0, 0>> /\ owed = FALSE

(* The life of objects goes on around the client only in world "life".       *)
Settled == calls = <<>> /\ engine = <<>>
MayCall(f) ==
  /\ f \in Uses(world) /\ Me \in DOMAIN clientData
  /\ serial < MaxCalls[world]
  /\ world # "hasty" => Settled
MayFail == world # "base"
Outcomes == IF MayFail THEN {"ok", "error"} ELSE {"ok"}
SessionModes == CASE world = "hal"  -> {"none", "full"}
                  [] world = "base" -> {"none", "fix"}
                  [] OTHER          -> {"none"}

(* A call, or the calls cs, go out to the adapters.                          *)
Send(cs) ==
  /\ calls' = calls \o cs
  /\ serial' = serial + Len(cs)
  /\ UNCHANGED <<lifeVars, world, adapter>>
N == serial + 1

(* ---------------------- GnssAPIClient: one tracking --------------------- *)
(* locAPIStartTracking: a session at a time, whose requests replace what was *)
(* waiting for the one before.  With mTracking set nothing is done.          *)
StartTracking ==
  /\ MayCall("tracking") /\ ~mTracking
  /\ queues' = Push(Reset(queues, "tracking", N), "tracking", Request("start", N))
  /\ mTracking' = TRUE
  /\ Send(<<Call("startTracking", N, N)>>)
  /\ UNCHANGED <<sessions, fences, ctl, batch, owed>>

(* The queue keeps its session: a client that has stopped may stop again.    *)
StopTracking ==
  /\ MayCall("tracking") /\ queues["tracking"].session > 0
  /\ queues' = Push(queues, "tracking", Request("stop", N))
  /\ mTracking' = FALSE
  /\ Send(<<Call("stopTracking", queues["tracking"].session, N)>>)
  /\ UNCHANGED <<sessions, fences, ctl, batch, owed>>

UpdateTrackingOptions ==
  /\ MayCall("tracking") /\ queues["tracking"].session > 0
  /\ queues' = Push(queues, "tracking", Request("update", N))
  /\ Send(<<Call("updateTracking", queues["tracking"].session, N)>>)
  /\ UNCHANGED <<mTracking, sessions, fences, ctl, batch, owed>>

(* gnssNiRespond: the queue takes the id of the NI request as its session.   *)
GnssNiResponse(id) ==
  /\ MayCall("tracking")
  /\ queues' = Push(Reset(queues, "ni", id), "ni", Request("ni", N))
  /\ Send(<<Call("ni", id, N)>>)
  /\ UNCHANGED <<mTracking, sessions, fences, ctl, batch, owed>>

(* -------------------- sessions of the client's own ids ------------------ *)
StartCall(mode) == IF mode = "fix" THEN "startTracking" ELSE "startBatching"
StopCall(mode)  == IF mode = "fix" THEN "stopTracking" ELSE "stopBatching"

(* BatchingAPIClient notes what was asked for before it asks.                *)
SessionStarts == batch' = [batch EXCEPT !.state = "started"]
SessionStops  == batch' = [batch EXCEPT !.state = "stopping"]

(* locAPIStartSession: an id in use is refused.                              *)
StartSession(id, mode) ==
  /\ MayCall("sessions")
  /\ SessionStarts
  /\ IF HasId(sessions, id)
       THEN /\ UNCHANGED <<lifeVars, world, adapter, calls, queues, sessions>>
            /\ serial' = serial + 1
       ELSE /\ queues' = Push(queues, "session", Request("start", N))
            /\ sessions' = Set(sessions, id, N, mode)
            /\ Send(<<Call(StartCall(mode), N, N)>>)
  /\ UNCHANGED <<mTracking, fences, ctl, owed>>

(* locAPIGetBatchedLocations of a session that is known and batches.         *)
CanGet(id) == HasId(sessions, id) /\ sessions.ext[sessions.fwd[id]] # "fix"
Get(id, n) == Call("getBatched", sessions.fwd[id], n)

(* BatchingAPIClient::stopSession: what is batched is asked for, then the    *)
(* session stopped; the dictionary has it until the stop is answered.        *)
StopSession(id) ==
  LET s    == sessions.fwd[id]
      gets == IF CanGet(id) THEN 1 ELSE 0
      stop == serial + gets + 1 IN
  /\ MayCall("sessions")
  /\ SessionStops
  /\ IF HasId(sessions, id)
       THEN /\ queues' = Push(IF CanGet(id)
                                THEN Push(queues, "session", Request("get", N))
                                ELSE queues, "session", Request("stop", stop))
            /\ Send((IF CanGet(id) THEN <<Get(id, N)>> ELSE <<>>)
                      \o <<Call(StopCall(sessions.ext[s]), s, stop)>>)
       ELSE /\ UNCHANGED <<lifeVars, world, adapter, calls, queues>>
            /\ serial' = serial + 1
  /\ UNCHANGED <<mTracking, sessions, fences, ctl, owed>>

(* A mutant of the next definition: a change of mode puts a request on the   *)
(* queue for the stop as well.                                               *)
SwitchRequestsBoth(n, stop) ==
  Push(Push(queues, "session", Request("stop", stop)), "session", Request("update", n))

SwitchRequests(n, stop) == Push(queues, "session", Request("update", n))

(* locAPIUpdateSessionOptions: between tracking and batching the old session *)
(* is stopped and another started, with one request for both.                *)
UpdateSession(id, mode) ==
  LET s == sessions.fwd[id]
      was == sessions.ext[s] IN
  /\ MayCall("sessions") /\ HasId(sessions, id)
  /\ IF (mode = "fix") = (was = "fix")
       THEN /\ queues' = Push(queues, "session", Request("update", N))
            /\ sessions' = Set(RmById(sessions, id), id, s, mode)
            /\ Send(<<Call(IF mode = "fix" THEN "updateTracking"
                                           ELSE "updateBatching", s, N)>>)
       ELSE /\ queues' = SwitchRequests(N + 1, N)
            /\ sessions' = Set(RmById(sessions, id), id, N + 1, mode)
            /\ Send(<<Call(StopCall(was), s, N), Call(StartCall(mode), N + 1, N + 1)>>)
  /\ UNCHANGED <<mTracking, fences, ctl, batch, owed>>

(* ---------------------- BatchingAPIClient: reports ---------------------- *)
(* onBatchingCb: the first batch after a stop is kept for the report that    *)
(* the flush behind it is to bring.                                          *)
OnBatchingCb(some) ==
  IF batch.state = "stopping"
    THEN /\ batch' = [state |-> "stopped", cached |-> some]
         /\ UNCHANGED owed
    ELSE /\ batch' = [batch EXCEPT !.cached = FALSE]
         /\ owed' = FALSE

(* flushBatchedLocations: of a session not known, an empty batch is reported *)
(* from a thread of its own.                                                 *)
FlushBatchedLocations(id) ==
  /\ MayCall("sessions")
  /\ IF CanGet(id)
       THEN /\ queues' = Push(queues, "session", Request("get", N))
            /\ Send(<<Get(id, N)>>)
            /\ owed' = TRUE /\ UNCHANGED batch
       ELSE /\ serial' = serial + 1
            /\ UNCHANGED <<lifeVars, world, adapter, calls, queues>>
            /\ IF HasId(sessions, id)
                 THEN UNCHANGED <<batch, owed>>
                 ELSE IF batch.state = "stopping"
                        THEN /\ batch' = [batch EXCEPT !.state = "stopped"]
                             /\ owed' = TRUE
                        ELSE /\ batch' = [batch EXCEPT !.cached = FALSE]
                             /\ owed' = FALSE
  /\ UNCHANGED <<mTracking, sessions, fences, ctl>>

(* ------------------------ GeofenceAPIClient ----------------------------- *)
(* Fences are asked for one at a time.  The queue is opened at the first.    *)
(* Nothing refuses an id in use: only world "base" has a client that does    *)
(* so, and the fence it had is then beyond its reach.                        *)
FenceQueue == IF queues["geofence"].session = 0 THEN Reset(queues, "geofence", 1)
                                                ELSE queues

GeofenceAdd(id, mask) ==
  /\ MayCall("fences") /\ (HasId(fences, id) => world = "base")
  /\ queues' = Push(FenceQueue, "geofence", Request("addFence", N))
  /\ fences' = Set(fences, id, N, mask)
  /\ Send(<<Call("addFence", N, N)>>)
  /\ UNCHANGED <<mTracking, sessions, ctl, batch, owed>>

(* A fence is forgotten when its removal is asked for, not when it is done.  *)
GeofenceRemove(id) ==
  /\ MayCall("fences") /\ HasId(fences, id)
  /\ queues' = Push(queues, "geofence", Request("removeFence", N))
  /\ fences' = RmBySession(fences, fences.fwd[id])
  /\ Send(<<Call("removeFence", fences.fwd[id], N)>>)
  /\ UNCHANGED <<mTracking, sessions, ctl, batch, owed>>

GeofencePause(id) ==
  /\ MayCall("fences") /\ HasId(fences, id)
  /\ queues' = Push(queues, "geofence", Request("changeFence", N))
  /\ Send(<<Call("pauseFence", fences.fwd[id], N)>>)
  /\ UNCHANGED <<mTracking, sessions, fences, ctl, batch, owed>>

GeofenceResume(id, mask) ==
  /\ MayCall("fences") /\ HasId(fences, id)
  /\ queues' = Push(queues, "geofence", Request("changeFence", N))
  /\ fences' = Set(fences, id, fences.fwd[id], mask)
  /\ Send(<<Call("resumeFence", fences.fwd[id], N)>>)
  /\ UNCHANGED <<mTracking, sessions, ctl, batch, owed>>

(* beforeGeofenceBreachCb: a breach of fence s, of this type, is passed on   *)
(* under the client's id if the client's mask has the type.                  *)
PassesOn(s, type) ==
  s \in DOMAIN fences.ext /\ (type = "enter" \/ fences.ext[s] = "both")

(* -------------------- LocationAPIControlClient -------------------------- *)
Enable ==
  /\ MayCall("control") /\ ~ctl.enabled
  /\ queues' = Push(Reset(queues, "control", N), "control", Request("enable", N))
  /\ ctl' = [ctl EXCEPT !.enabled = TRUE]
  /\ Send(<<Call("control", N, N)>>)
  /\ UNCHANGED <<mTracking, sessions, fences, batch, owed>>

Disable ==
  /\ MayCall("control") /\ ctl.enabled /\ queues["control"].session > 0
  /\ queues' = Push(queues, "control", Request("disable", N))
  /\ ctl' = [ctl EXCEPT !.enabled = FALSE]
  /\ Send(<<Call("control", queues["control"].session, N)>>)
  /\ UNCHANGED <<mTracking, sessions, fences, batch, owed>>

GnssDeleteAidingData ==
  /\ MayCall("control")
  /\ queues' = Push(Reset(queues, "aiding", N), "aiding", Request("aiding", N))
  /\ Send(<<Call("control", N, N)>>)
  /\ UNCHANGED <<mTracking, sessions, fences, ctl, batch, owed>>

(* The same settings twice are not sent twice.  The array of ids that would  *)
(* find the request again is never put on the queue: getSessionArrayPtr is   *)
(* null from the start, and only a queue that has one is given another.      *)
GnssUpdateConfig(config) ==
  /\ MayCall("control") /\ config # ctl.config
  /\ ctl' = [ctl EXCEPT !.config = config, !.configRequests = @ + 1]
  /\ serial' = serial + 1
  /\ UNCHANGED <<lifeVars, world, adapter, calls, queues, mTracking, sessions,
                 fences, batch, owed>>

(* ------------------------------ responses ------------------------------- *)
(* getRequestBySession: the queues that belong to one session come first,    *)
(* in their order; then, if the dictionary has the session, the queue all    *)
(* sessions of the dictionary share.                                         *)
ClientQueue(s) ==
  LET own == CASE queues["tracking"].session = s -> "tracking"
               [] queues["ni"].session = s -> "ni"
               [] OTHER -> "none" IN
  IF own # "none" /\ Waits(own) THEN own
  ELSE IF HasSession(sessions, s) /\ Waits("session") THEN "session" ELSE "none"

CtrlQueue(s) ==
  LET own == CASE queues["aiding"].session = s -> "aiding"
               [] queues["control"].session = s -> "control"
               [] OTHER -> "none" IN
  IF own # "none" /\ Waits(own) THEN own ELSE "none"

QueueOf(op, s) ==
  CASE op \in {"addFence", "removeFence", "pauseFence", "resumeFence"} ->
         IF queues["geofence"].session = 1 /\ Waits("geofence") THEN "geofence" ELSE "none"
    [] op = "control" -> CtrlQueue(s)
    [] OTHER -> ClientQueue(s)

(* onResponse: a start that failed and a stop that succeeded take the        *)
(* session out of the dictionary.                                            *)
AfterTelling(kind, s, outcome) ==
  IF (kind = "start" /\ outcome # "ok") \/ (kind = "stop" /\ outcome = "ok")
    THEN RemoveSession(sessions, s)
    ELSE sessions

OnResponseCb(c, outcome) ==
  LET q == QueueOf(c.op, c.s)
      r == Head(queues[q].reqs) IN
  IF q = "none"
    THEN UNCHANGED <<queues, sessions, told>>
    ELSE /\ queues' = Pop(q)
         /\ told' = <<r.n, c.n>>
         /\ sessions' = AfterTelling(r.kind, c.s, outcome)

(* ---------------------- the adapters and the engine --------------------- *)
Refused(c) ==
  c.op \in {"stopTracking", "updateTracking", "getBatched"} /\ c.s \notin live
Dropped(c) ==
  c.op \in {"stopBatching", "updateBatching"} /\ c.s \notin live

(* What taking a call does to the sessions held; the rest is done with the   *)
(* engine's answer.                                                          *)
Taken(c) ==
  CASE c.op = "startTracking" -> live \cup {c.s}
    [] c.op \in {"stopTracking", "stopBatching"} -> live \ {c.s}
    [] OTHER -> live

Answered(c, outcome) ==
  CASE c.op = "startTracking" /\ outcome # "ok" -> live \ {c.s}
    [] c.op = "startBatching" /\ outcome = "ok" -> live \cup {c.s}
    [] c.op = "stopBatching" /\ outcome # "ok"  -> live \cup {c.s}
    [] OTHER -> live

(* The adapter refuses the call, ignores it, or hands it to the engine.      *)
AdapterTakes ==
  /\ calls # <<>>
  /\ calls' = Tail(calls)
  /\ LET c == Head(calls) IN
     IF Refused(c)
       THEN OnResponseCb(c, "error") /\ UNCHANGED <<engine, live>>
       ELSE /\ engine' = IF Dropped(c) THEN engine ELSE Append(engine, c)
            /\ live' = Taken(c)
            /\ UNCHANGED <<queues, sessions, told>>
  /\ UNCHANGED <<lifeVars, world, mTracking, fences, ctl, batch, fenced, serial, owed>>

(* A fence is the engine's from the answer of its addition to that of its    *)
(* removal.  A batch asked for comes with its answer.                        *)
EngineAnswers ==
  /\ engine # <<>>
  /\ engine' = Tail(engine)
  /\ LET c == Head(engine) IN \E outcome \in Outcomes :
       /\ live' = Answered(c, outcome)
       /\ fenced' = CASE c.op = "addFence" /\ outcome = "ok" -> fenced \cup {c.s}
                      [] c.op = "removeFence" /\ outcome = "ok" -> fenced \ {c.s}
                      [] OTHER -> fenced
       /\ OnResponseCb(c, outcome)
       /\ IF c.op = "getBatched" /\ outcome = "ok"
            THEN \E some \in BOOLEAN : OnBatchingCb(some)
            ELSE UNCHANGED <<batch, owed>>
  /\ UNCHANGED <<lifeVars, world, mTracking, fences, ctl, calls, serial>>

(* LocationAPIClientBase::destroy: every request is dropped; the completion  *)
(* would delete the client.                                                  *)
ClientDestroy ==
  /\ world # "life"
  /\ Destroy(Me, TRUE)
  /\ queues' = [q \in Queues |-> IF q \in {"aiding", "control"} THEN queues[q]
                                 ELSE [session |-> 0, reqs |-> <<>>]]
  /\ UNCHANGED <<world, mTracking, sessions, fences, ctl, batch, calls, engine,
                 live, fenced, serial, told, owed>>

Life ==
  /\ \/ /\ world = "life" /\ UNCHANGED serial
        /\ \E a \in Apis : \/ \E cbs \in SUBSET Kinds \ {{}} : CreateInstance(a, cbs)
                           \/ \E cb \in BOOLEAN : Destroy(a, cb)
     \/ /\ world = "life" /\ serial < MaxCalls[world] /\ serial' = serial + 1
        /\ \E a \in Apis, cbs \in SUBSET Kinds \ {{}} : UpdateCallbacks(a, cbs)
     \/ /\ calls = <<>> /\ UNCHANGED serial
        /\ \E k \in Kinds : AdapterRuns(k)
  /\ UNCHANGED <<world, queues, mTracking, sessions, fences, ctl, batch, calls,
                 engine, live, fenced, told, owed>>

Next ==
  \/ StartTracking \/ StopTracking \/ UpdateTrackingOptions
  \/ \E id \in NiIds : GnssNiResponse(id)
  \/ \E id \in Ids : \/ \E m \in SessionModes : StartSession(id, m) \/ UpdateSession(id, m)
                     \/ StopSession(id) \/ FlushBatchedLocations(id)
  \/ \E id \in Fences : \/ \E m \in Masks : GeofenceAdd(id, m) \/ GeofenceResume(id, m)
                        \/ GeofenceRemove(id) \/ GeofencePause(id)
  \/ Enable \/ Disable \/ GnssDeleteAidingData
  \/ \E c \in {"one", "two"} : GnssUpdateConfig(c)
  \/ AdapterTakes \/ EngineAnswers \/ ClientDestroy \/ Life

Spec == Init /\ [][Next]_vars

TypeOK ==
  /\ TypeOKLife /\ world \in Worlds
  /\ \A q \in Queues : /\ queues[q].session \in Serials \cup NiIds
                       /\ queues[q].reqs \in Seq([kind : STRING, n : Serials])
  /\ mTracking \in BOOLEAN /\ owed \in BOOLEAN /\ serial \in Serials
  /\ DOMAIN sessions.fwd \subseteq Ids /\ DOMAIN fences.fwd \subseteq Fences
  /\ batch.state \in {"started", "stopping", "stopped"}
  /\ live \subseteq Serials /\ fenced \subseteq Serials
  /\ told \in Serials \X Serials

(* ------------------------------ properties ------------------------------ *)
(* Of the objects' life: LocationApi's two invariants.                       *)
ObjectsAreKept == TypeOK /\ AdaptersHoldLiveObjects /\ FrameworkServesObjects

Patient == world \in {"hal", "base", "single"}

(* A client that waits for its answers: each request is told by the answer   *)
(* to its own call, though the queue of the sessions is popped for whichever *)
(* session answers and a change of mode makes two calls for one request; and *)
(* when all is answered no request is left, and the ids the dictionary has   *)
(* are those of the sessions the adapters still hold.                        *)
AnswersMeetTheirRequests ==
  Patient =>
    /\ told[1] = told[2]
    /\ Settled /\ Me \in DOMAIN clientData =>
         /\ \A q \in Queues : ~Waits(q)
         /\ \A id \in DOMAIN sessions.fwd : sessions.fwd[id] \in live
         /\ live \subseteq DOMAIN sessions.bwd \cup {queues["tracking"].session}

(* However calls and answers overlap, what the engine says of a fence the    *)
(* client has asked to remove is not passed on, nor is a breach under an id  *)
(* that by now means another fence (no id is added while it is in use).      *)
BreachesAreWanted ==
  world # "base" =>
    \A s \in fenced, type \in Breaches : PassesOn(s, type) =>
      /\ fences.bwd[s] \in DOMAIN fences.fwd
      /\ fences.fwd[fences.bwd[s]] = s

=============================================================================
