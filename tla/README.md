# Verification of the Pro1 location stack

The repository is the Android device tree of the F(x)tec Pro1. Most of it is configuration: build files,
overlays, policies. Its program is the **location stack** under `gps/` and `location/`: some thirty thousand lines
of C++ in which several threads pass messages about sessions that start, stop, restart and fail. This
directory holds TLA+ modules of that stack, the TLC configurations that check them on small instances, and proofs
checked by TLAPS. `PROJECT.json` relates every definition to the lines it models and lists the runs and the hazards they
are aimed at. Where the code does other than its comments or its callers say, section 3 tells how.

    tlasany M.tla                         parse
    tlc -workers 2 -config X.cfg M        check a configuration
    tlapm AgpsProofs.tla                  check the proofs

## 1. The system

    framework (Java)
       |  HIDL                       gps/android/2.1      Gnss, AGnss, GnssBatching, GnssGeofencing, ...
       v
    LocationAPI, client bases        gps/location         one object per client, callbacks, request queues
       |  messages
       v
    adapters, one MsgTask thread     gps/gnss             GnssAdapter: sessions, configuration, AGPS, NI, ODCPI
    shared by all                    gps/batching, gps/geofence
       |  messages      ^ responses, reports
       v                |
    LocApi, one MsgTask thread       gps/core, location/synergy_loc_api
       |  calls         ^ callbacks
       v                |
    the engine               (external library behind sllReqIf)

The pattern is the same everywhere. A client's call posts a message to the adapters' thread and returns. The message's
`proc` reads and writes the adapter's maps without a lock, since every adapter shares the one thread, and posts a closure to the
LocApi's thread. That one calls the engine and posts the response back, to be handled by a third
closure on the adapters' thread. So the state that a command read when it
began may have changed by the time its response arrives. An engine restart (`LocSsrMsg`, `LocOpenMsg`) is one more
message on both queues. Most of the hazards in `PROJECT.json` are consequences of these three steps, the rest come
from the places that leave the pattern: threads of their own (NI requests, timers), fields touched on two threads,
and calls made on the caller's thread.

### Inventory

| component | state | operations | hard behaviours | correct when |
|---|---|---|---|---|
| AGPS manager (`Agps.cpp`) | two state machines with subscriber lists, one data connection each | ATL request and release; granted, denied, released | stale answers of the network, subscribers that join while a release is out | lists and states agree; no handle lost; every open and close ends |
| Tracking sessions (`GnssAdapter.cpp`) | time- and distance-based session maps, pending messages | start, update, stop, client removal, restart, suspend | one engine fix for all sessions; responses that write back captured options | the fix serves every session; a stopped session stays stopped; one answer per command |
| NI requests (`GnssAdapter.cpp`) | two session records, a thread for each, a lock | notify, answer, time out, inform | unlocked look-up before a locked write; clean-up after the unlock | each request ends once, with the user's own answer |
| Engine configuration (`GnssAdapter.cpp`) | GPS lock and its mode, blacklist, constellations | enable, disable, network control, settings, restore after restart | remembered settings against those of the engine; one field written on two threads | the engine has what the adapter remembers |
| Other settings and requests (`GnssAdapter.cpp`) | remembered settings, session ids, measurement corrections | set, get, delete aiding data, inject | two threads at engine up; two paths that may answer | the engine has what was set last; one answer per request |
| ODCPI (`GnssAdapter.cpp`) | three flags, a timer | request, inject, time out | timer against injection, restart of the sessions | a standing request is looked at again, and not asked faster than the timer |
| Reports (`GnssAdapter.cpp`, `loc_nmea.cpp`) | the satellites used, leap seconds, tag code | position, SV, NMEA, measurements | a report of one kind completed from another; filters | the clients' marks, times and sentences belong together |
| XTRA observer | socket to a daemon, subscriptions | status reports, lock updates | a daemon that starts late | the daemon has the latest values |
| Geofences (`GeofenceAdapter.cpp`) | two maps of ids, error arrays | add, remove, pause, resume, modify, breach, restart | one answer for several items; refilling the maps after a restart | maps agree with each other and with the engine |
| Batching (`BatchingAdapter.cpp`) | sessions, trips, the multiplexed trip distance | start, update, stop, trip completed, restart | as tracking, and trips ending on their own | batches and trips served; one answer per command |
| LocApiBase, LocAdapterBase | adapters and their masks; client map | add and remove an adapter, events, restart | restart during opening; session ids wrap | the engine is open for the union of the masks |
| SystemStatus | bounded caches, the table of networks | parse, record, report | a table folded from single events; items that only renew their time | what is read is the last that was told |
| OS observer | client and item indices, cache | subscribe, update, notify | two indices that must agree | every subscriber hears of every change |
| LocationAPI, client bases | global data under one lock, client maps, request queues | create, destroy, start, stop, callbacks | destroy against callbacks; responses matched by order | no callback after the end; each response to its request |
| msg_q, MsgTask, LocThread | list, mutex, condition, flags | send, receive, unblock, end | end against a waiting reader | each message is handled once, in order |
| LocTimer, LocHeap | heap of timers, a polling thread | start, stop, expire | stop against expiry | a stopped timer does not fire later |
| LocIpc, LogBuffer, SkipList, loc_cfg | sockets, bounded logs, text | | mostly I/O and data | |
| SynergyLocApi | the engine's handle and its event mask | open, close, calls, reports | refusals, a missing library | an answer says what the engine did |
| HIDL service | client objects, death recipients | conversions | life of the callbacks | |
| gnsspps, loc_socket, battery listener, fingerprint, device settings | little | | | |
| init, build files, policies | none at run time | | | |

The status of each, and why some are left out, is in `PROJECT.json` under `components`.

## 2. Modules

In all of them the message queues are sequences, an action is one `proc` run to its end (or one closure of the
LocApi's thread), and code that is not in the repository (modem, engine, framework, user, XTRA daemon) is an environment that
does at any time what the code's own handling shows it may do. Each module has a few "worlds", constant during a
behaviour, so that one run covers a sound environment, for which more is claimed, and a failing one, or so that parts that
do not touch each other are not multiplied. Definitions whose comment calls them a bug to catch, or a mutant, are deliberately
wrong variants of the definition after them. They belong to no specification: a run in which one replaces its neighbour must
fail, which shows that the property looks at that code.

| run | module | composed of | wall time |
|---|---|---|---|
| `agps` | Agps | | 15 s |
| `tracking` | MCTracking | Tracking | 1 min |
| `geofence` | MCGeofence | Geofence | 2 min |
| `batching` | MCBatching | Batching | 1 min |
| `api_client` | MCApiClient | ApiClient over LocationApi | 30 s |
| `loc_timer` | MCLocTimer | LocTimer over LocHeap | 30 s |
| `ni_session` | NiSession | | 2 min |
| `msg_task` | MsgTask | implements MsgFifo | 1 s |
| `gnss_config` | MCGnssConfig | Settings over GnssConfig | 2 min |
| `observers` | MCObservers | XtraObserver over OsObserver over SystemStatus | 2 min |
| `loc_api` | MCLocApi | Odcpi over LocApi | 30 s |
| `reports` | MCReports | Reports over FixConversion over Nmea, and EngineStatus | 2 min |

Five definitions state a comment or an interface's words that the code does not keep: `StartsAreAnswered` (Tracking), `PendingBeforeOpen` (GnssConfig), `CleanupComesLast`
(Geofence), `EveryCallAnswered` (LocApi) and `NotUsedIsCleared` (Reports). TLC finds each violated within seconds when it stands as the INVARIANT of the run's configuration;
section 3 says what the behaviours show. Where the code then uses freed memory the models have no next step for the thread
that does: a pointer to a deleted message is a message `Freed` that no handler takes, an answer that would write deleted arrays is
`Undefined`. The queue then never empties, so what the other properties say of idle threads is said of the behaviours before that point, and not of those
after it.

### Agps, AgpsProofs

`gps/gnss/Agps.cpp`, its callers in `GnssAdapter.cpp`, `NativeAgpsHandler.cpp` and the four calls of `AGnss.cpp`.
`state`, `active` and `inactive` are `mState` and the subscriber list (split by `mIsInactive`) of each machine; the operators
`Subscribe`, `Unsubscribe`, `Granted`, `Released`, `Denied` are the `processAgpsEvent...` functions, and
the actions are the messages that call them. `wds` holds the grants that wait for the PDN type query of
`libloc_api_wds.so`, `fw` the commands to the framework, and `modem` how each ATL handle looks from outside.

Run `agps`. `SubscribersMatchState`; `NothingIsLost`: no event drops a handle untold (`ModemViewMatches`), and
on a steady network, with nothing in flight, the framework's connection is up exactly while the machine says ACQUIRED
(`ConnectionMatchesState`). Liveness, `EveryCallEnds`: every open is answered, every close completes. Bounds: two handles,
so that one can hold a connection while another joins or leaves; `MaxBacklog` 3 limits what is in flight before modem and
network add more. The reasons for the wording:

- On a flaky network `ConnectionMatchesState` fails. A REQUEST refused while the machine is RELEASING takes it to
  RELEASED early. The answer to the RELEASE is then still out and is later taken for that of the next request
  (a behaviour of 22 steps). The property is claimed for networks that do not refuse.
- A close waits as long as another handle uses the connection, by design; `EveryCloseCompletes` says so.
- In the world `badApn` (the framework names an APN of the wrong length) an open may stay unanswered; see section 3.

`handleModemSSR` has no caller in the repository and is left out; so is the type of the SUPL machine, which
`getAgpsStateMachine` overwrites.

### Tracking, TrackingProofs, MCTracking

The sessions of `GnssAdapter` that share one fix of the engine. `sessions` is
`mTimeBasedTrackingSessions`, `pending` is `mPendingMsgs`, `queue` and `api` are the two threads' queues and `fix` is the interval the
engine runs at. `StartMultiplex`, `UpdateMultiplex` and `StopMultiplex` are the three functions that decide whether the
engine must be called.

Run `tracking`. `FixServesSessions`: with both queues empty the fix is on exactly if a session tracks, at an interval that
serves all of them. `ToldIsTracked` joins what clients were told to what is done for them: a session answered SUCCESS is
tracked, a stopped one stays stopped, each command is answered once. `ConfiguredWhileSuspended`: where calls succeed
the engine is configured only while the fix is off. Bounds: two sessions, four options (fast and
coarse, slow and fine, slow and coarse, with a minimum distance), `MaxBacklog` 3: enough for a start, its response
and a command of the other session to be under way together. Worlds: plain; flaky (engine calls fail);
distance (clients ask for a minimum distance); mute (clients registered none of the callbacks that `hasCallbacksToStartTracking` looks for, or
pass options of size 0). In the last three some parts are not claimed, see section 3. `AnsweredOnce` speaks of all four: a start in the mute world is the one command
that gets no answer, as the code returns without `reportResponse` (`GnssAdapter.cpp:2998`).

The power mode decides whether the engine is called, but `SynergyLocApi` always asks for the same mode. After an
update to a longer interval the fix may stay faster than needed; hence `<=` in the property. A pended start stopped
before the engine is up is started all the same: hence the world of `StoppedStaysStopped`. Pended messages are sent at each coming up of the engine, since
GnssAdapter does not clear their list, and from the second on they are freed ones: of what the adapter does with these nothing is claimed (`Freed`). A client has
one session. The engine is one without distance-based tracking (its own answer in `SynergyLocApi::open`), and the automotive NHz
mode is left out.

### Geofence, GeofenceProofs, MCGeofence

`GeofenceAdapter`. `geofences` and `geofenceIds` are its two maps, `batch` the commands with
their error arrays and the truth about each item, `engine` the engine's fences, `told` what each fence's client was
told last.

Run `geofence`. `EngineHoldsTheFences` (with `MapsAgree`, the agreement of the two maps), `BreachFindsItsFence`,
`ToldIsServed` (with `AnsweredOnce`). Bounds: two clients, two fence ids each, commands on up to two fences, three commands or
restarts together (`MaxEvents`): two commands around a restart, or two restarts around a command. Worlds: restarting, and
refusing (the engine may refuse a call).

- The last item of a command sends the collective response. If the last id is unknown it is answered at
  once, before the others are in, and the arrays are deleted: the answer of an earlier item, when it succeeded, then writes `errs[i]` and saves `mOptions[i]` in freed
  memory (`Undefined`; `CleanupComesLast` is violated). Nothing is claimed from there on. If the last item is a resumption that fails, no response is ever sent. A failed
  resumption or modification leaves the SUCCESS of the look-up. `ToldIsServed` has the premise that none of this happened.
- A restored fence is saved as not paused although it was paused again in the engine, so a second restart
  un-pauses it: the premise `restarts <= 1`.

The engine is external here in a strong sense: `LocApiBase::addToCallQueue` does nothing by default and SynergyLocApi
does not override it, so with that engine no geofence command is answered. The model takes an engine that
serves calls in their order, refuses those of a restart, and never reuses its ids. Commands with NULL options or infos are left out.

### Batching, MCBatching

`BatchingAdapter`. `adapter` holds its session and trip maps and what the ongoing trip batch runs at; `engine` the batches the
engine keeps, its trip batch and how far it has counted; `road` the distance really travelled. Each call to the engine carries
the closure that its answer runs, so a response writes back what it captured, as in the code. Distances are unsigned
(`Width` 16): a difference that would be negative wraps.

Run `batching`. `NoBatchIsOrphaned`: whatever commands, removals and a restart overlapped, no batch is left in the engine
without a session to stop it. `EngineServesSessions`: when commands do not overlap, the engine's batches are the sessions', and its
trip batch runs for the distance and at the interval the adapter has on record. `TripsNotEarly`: no trip is reported before its
distance is travelled. Worlds: `calm` (five commands, one at a time, no removal and no restart; trips are completed),
`lossy` (four, one at a time; the engine fails calls and restarts), `crowded` (three, overlapping freely). Two sessions, four kinds of options, five units of road.

What is not claimed, as the code does otherwise: a stopped or completed trip stays in `mBatchingSessions`, so that removing its client
stops another's trip; what a trip travelled while its batch is restarted is not always counted, so trips can be late; when a trip's join
overlaps a restart of the batch, a trip can be early; a stop that fails saves default options; the batch-full event is lost when the
stop of the last trip overlaps its completion; a second restart can orphan a batch; a second trip has no session of its own. See also
section 3. Left out: the engine lock, the forwarding of batched locations and the sizes read from `flp.conf`. The engine's side is
external: `LocApiBase`'s own batching calls do nothing, and neither does SynergyLocApi.

### LocationApi, ApiClient, MCApiClient

`LocationApi` is the life of the objects: `LocationAPI.cpp` under `gDataMutex`, the three libraries that load late or fail to,
and each adapter's `MsgAddClient` and `MsgRemoveClient` on its own thread. `ApiClient` is `LocationAPIClientBase` on one of these
objects, with the HAL's `BatchingAPIClient`: `queues` are its request queues, `sessions` and `fences` its bidirectional maps, `calls` what
the adapters have not yet taken, `engine` what they wait for; `told` pairs each request with the call whose answer it got.

Run `api_client`. `ObjectsAreKept`: an adapter never holds an object that was deleted, and the OS framework's instance is there exactly
while objects are. `AnswersMeetTheirRequests`: a client that waits for its answers gets each for its own request, although one queue is
popped for whichever session answers and a change of mode makes two calls for one request. `BreachesAreWanted`: however calls
overlap, no breach is passed on under an id that means another fence by now. Worlds: `hal` (ten calls in the modes the HAL uses), `base`
(five, tracking as a session's mode too, no failures), `single` (six, the queues of one session each), `hasty` (three, overlapping), `life`
(two objects, all orders of creation, update and destruction over the three adapters). A client in a hurry does get answers to the wrong requests; see
section 3. Left out: modifying several fences (a failing item shifts the options against the sessions), removing all fences, trips,
configuration answers, which no interface delivers, and network-initiated ids equal to a session's.

### LocHeap, LocTimer, MCLocTimer

`LocTimer.cpp`: clients' starts and stops under the lock of a timer, the poll thread in four steps (woken, disarm, leave the epoll set,
send the expiry) and `LocTimerMsgTask`, whose handling of an expiry is cut wherever another thread can see it: between the pop of a
delegate and the reading of its client, before the client's stop, before the callback, while arming. `LocHeap` is the tree of `LocHeap.cpp`, which pushes into
the smaller side and never rebalances; it uses RECURSIVE operators, so neither module can be proved about.

Run `loc_timer`. `DelegatesOutliveUse` (no deleted delegate in the heap, a message or the task's hands; each is removed once);
`FiresUnlessStopped` (liveness: a started timer ends fired or stopped; safety: one that runs is always awaited, one that was stopped
is not called); `HeapSorts` (in the initial state, for all times of up to five timers: what is popped comes in order, also after any
removal). Bounds: a timer that is never deleted and one wrapper of the C interface, three starts, delays 1 and 2, clock to 3.
This is the one run with deadlock checked: when starts and clock are used up it may only stop with everything served.
A wrapper stopped while its own expiry is being handled would be used after its deletion, which is excluded
(`~Handles(o)`); failing to create the timer descriptor is left out.

### NiSession, NiSessionProofs

Network-initiated requests: `requestNi`, `requestNiNotify`, `niThreadProc`, `gnssNiResponseCommand`. `session` holds the two records of
`mNiData`, `thread` the waiting threads, `writes` the answers whose look-up is done and whose write,
under the lock, is still to come. Whether a request is accepted, denied, ignored or put to the user depends on its
type, on the client's callback and on emergency state; the decision is a choice of the model.

Run `ni_session`. `EveryRequestEndsOnce` in any interleaving, safety and liveness; in the world `prompt`
(a thread that can end does so before the adapter goes on, and no deadline falls inside a write) also `UserDecides`: what the modem is
told is the user's own answer, an answer finds its session, and an emergency that is accepted comes first. With preemption these fail; see section 3.
Bounds: three requests, so that both sessions are in use and one is used again; two waiting messages. The
requests are bounded, so their end is stated as `<>[]`. A request that nobody can be asked about ends as
dropped. A failing `pthread_create`, after which the session stays in progress for good, is left out.

### MsgTask, MsgFifo, MsgTaskProofs

What all the other modules take for granted: `msg_q.c` over `linked_list.c`, the reader `MTRunnable::run`, and the end of both in
`LocThread.cpp`. `MsgTask` models a critical section of the queue's mutex as one step; `pthread_cond_wait` ends one and, woken, with cause or without,
begins another. `list` and `unblocked` are the queue's fields, `reader` is the place of the thread in `msg_q_rcv` and
`run`, `stop` the place of whoever runs `~LocThreadDelegate`, `owners` the count of the shared pointer, `fate` what
became of each message. `MsgFifo` is the promise: messages one at a time, in their order, at most one begun after the end.
`ImplementsFifo` maps the first to the second; the one thing to find is `Phase`: after `msg_q_unblock` a thread that was woken still
takes a message, since the loop in `msg_q_rcv` leaves for a full list whatever the flag says, while a thread that comes anew is sent
away. Which of the two holds is decided at `Unblock`, by where the reader is.

Run `msg_task`. `EachOnce` (nothing lost, handled twice or deleted twice), `QueueOutlivesUse`, `ImplementsFifo`; liveness `NoWakeUpIsLost`
(messages end, and so does the task). Bounds: four messages, one of which ends the task as `LocApiBase`'s `LocKillMsg` does; with three others
there can be one being handled, one queued before and one queued after it.

Who uses the task is an assumption: senders may be inside `sendMsg` while the end is in progress, not after it, and the task is ended
once. In this repository it holds trivially, as no task is ended before the process (`ContextBase`, which would
call `destroy`, is never deleted). A message refused by an unblocked queue is neither handled nor deleted. Failed allocations
and `msg_q_rmv`, which nothing calls, are left out.

### GnssConfig, Settings, SettingsProofs, MCGnssConfig

`GnssConfig`: the settings `GnssAdapter` remembers and applies again after a restart, GPS lock, satellite blacklist, constellations.
`gpsLock` is `ContextBase::mGps_conf.GPS_LOCK`, `afw` and `nfw` are `mAfwControlId` and
`mSupportNfwControl`, which select one of the two meanings of the lock explained in the comment of `setConfig`. `ids`, `svIds` and `types` are the
remembered satellite settings. `gnssUpdateConfig` runs on the LocApi's thread and rewrites `ids` in two steps, clear and fill, while the
adapter's thread may read it: two actions. The engine-up handler is two actions as well, `SetConfig` and
`RestoreSvConfig`, so that the LocApi's thread can come between them.

`Settings` is everything else the control clients bring, on the same two queues: the constrained time uncertainty and the clock
estimator, remembered in `stored` and sent again from the LocApi's thread; requests with a session id (`asks`, `answers`); deletion of aiding
data, which goes to the engine and the engine hub and is throttled; the measurement corrections, opened before or after the engine
is up; injections and their blocking.

Run `gnss_config`. `LockMatchesMode`; `SettingsHeld`: with both queues empty and the engine up,
the engine has the blacklist, the constellations and the values that the adapter remembers; `MeasCorrTold`: whoever opens the corrections is told the
capabilities, whichever comes first; `AsksAnsweredOnce` (liveness and safety). Bounds: two calls of
`enableCommand`, one constellation that can be disabled with two satellites, two messages in flight before the clients
or a restart add one, two requests, a clock of two seconds. Worlds: for the satellites, engine with or without the constellation feature, framework of the P or of the Q
generation (the HAL registers only one kind of lock interface), integration interface used or not; for the rest, values, asks, corrections or injections, on engines
with and without their features.

- On an engine with the feature `BlacklistHeld` fails: `setConfig` captures `mBlacklistedSvIds` before a newer list,
  already posted, is stored, and sends the old list after it; and the list `gnssUpdateConfig` sends leaves out the satellites
  of disabled constellations. It is claimed only where the LocApi's thread leaves these fields alone.
- A value set while the LocApi's thread holds the one before is overtaken; these (`raced`) are excepted in `ValuesHeld`.
- A throttled deletion is not answered; requests for robust location, secondary bands and the minimum GPS week are
  served by LocApiBase's defaults, which never answer. Every other request is answered (`Served` in `AsksAnsweredOnce`), queries and deletions too.
- Messages that waited for the first engine stay in `mPendingMsgs` and are sent again, deleted, when the engine comes up a second time (`Freed`; `PendingBeforeOpen` is violated).
  The properties hold through any number of restarts up to the one that sends such a message; where none ever waited, through all of them.

What the engine does is inferred from the calls: it merges enabled constellations until a reset ("Send reset if any
constellation is removed"), keeps the lock over a restart (the comment of `setConfig` calls it an NV value) and
loses the rest. What is read of SUPL, LPP and sensors from `gps.conf`, and the order of the error codes, are left out.

### SystemStatus, OsObserver, XtraObserver, ObserversProofs, MCObservers

`SystemStatus` folds the events of networks into a table (`collate`) and keeps the last few items of each kind. `OsObserver` is
`SystemStatusOsObserver`: the two indices between clients and items, the framework's subscription on their behalf, the cache, and all its messages. `XtraObserver`
is a client of it, the message protocol with the XTRA daemon, and the DGNSS source that `GnssAdapter` runs through it. The daemon is an environment that
may die at any time; what it has not read is lost.

Run `observers`. `SubscribersServed`: the indices agree with each other, the framework is subscribed to what somebody wants, and each client was last given
what the cache holds of its items. `TableHoldsOnline`: the table holds the networks that are up, each once, and no other but the one the very first event may have said was gone.
`SourceStops`: the XTRA observer knows what it was served, and no source runs that was disabled, whose session is over or that lacks its location. `DaemonLearns`: a daemon that has read
the answer to its request knows what the HAL knows and runs the source last started, whichever of the two was first and however often the daemon died (`InformedKnows` in ObserversProofs), and one
that stays up comes to know what the HAL knows. All but this last part are also proved. Worlds bound the calls: clients 4, updates 3,
networks 4, daemon 4, source 7, restless 4. Three networks of two types fill the table of three; a fourth network, which the code never enters into a
full table, is left out. A reset may cross new events; the data race in it (it walks the reports without their lock) is not modelled.

Not claimed: `LocUnorderedSetMap::update` hands back and keeps the wrong set, so that after an updated subscription the indices disagree (world `updates`); an item
that was requested and is subscribed later is never subscribed at the framework; enabling new NTRIP parameters forgets the running source, a session the engine refuses leaves it
running, consent withdrawn while the location is awaited leaves it unstarted (world `restless`).

### LocApi, Odcpi, OdcpiProofs, MCLocApi

`LocApi` is `LocApiBase` with `SynergyLocApi` below and the adapters above it: `mLocAdapters` and their masks, the LocApi's queue, the
engine as opened for a mask, and `walk`, the engine's thread on its way through the adapters with one event. Calls are sorted by what becomes of them: answered
by the engine's result, returned to the caller's thread, sent without an answer, or left to a default of LocApiBase, which with a response object never answers
and without one returns a success. `Odcpi` is composed with it:
`GnssAdapter`'s on-demand positions, three flags and a timer.

Run `loc_api`. `EngineServesMasks`: with the queue empty the engine is open for exactly the union of what the registered adapters want, less the excluded events, and
each of them is told that it is up. `EventsReachAdapters`: an event reaches each adapter registered before it began, once, and a request stops at the first that handles it. `AnswersAreTrue`: of the calls that bring a
response object those SynergyLocApi implements are answered, each once and in order, those it leaves to LocApiBase are not, and success means the engine did it, also with no library at all. That every such call is answered, as
`ILocationAPI.h` promises its callers, is violated (`EveryCallAnswered`). `WaitingIsAskedOnce`: a standing request always has its timer or an expiry
ahead, is put to the framework in the end, and not more often than the timer allows. Three adapters, two masks, one call of each kind; worlds masks 5, calls 4, nolib 3,
dispatch 5, leaving 4, failing 4, odcpi 6 events.

Not claimed: an adapter that leaves makes another miss the event on its way (world `leaving`: `removeAdapter` moves the last one into the gap); an adapter is told that the engine is up only by the
open it registered with, so that after a failed one it waits (world `failing`); an expiry that is on its way when a request is upgraded asks again at once; an engine restart
clears the request without a word to the framework or the timer. `handleEngineDownEvent` has no caller, `handleSllRequestNiNotify` drops its request,
`setServerSync` by address always says "callback missing", `setEmergencyExtensionWindowSync` says success though the engine hears nothing.

### Nmea, FixConversion, EngineStatus, Reports, MCReports

`Nmea` is `loc_nmea.cpp`: which sentences a fix and a satellite report make, with talkers, satellites, modes, times and the tag-block code. `FixConversion` is what
`GnssAdapter` makes of a fix for a client, and of satellite lists for the blacklist masks and back; that the blacklist round-trips is an ASSUME that TLC evaluates (`BlacklistRoundTrips`).
`EngineStatus` is `SystemStatus`'s memory of the engine: the debug sentences `$PQWM1`, `$PQWP1` to `P7`, `$PQWS1`, the bounded caches, the debug report and the
gain levels. `Reports` composes the three with the adapter's queue: the report handlers, the clients and what each is handed (`out`).

Run `reports`. `UsedInFixIsTrue`: a satellite shown as used was used by the last fix told, in its band, or came marked from the engine, and a fix marks one report of satellites.
`LeapSecondsTold`: whoever registers for system information knows the leap seconds, and every sentence of the inserted second, and no other, says 23:59:60 (fixes come before, in and after it).
`SentencesAreSound`: the sentences of one fix agree in number and validity and all name the same talker, GN exactly if satellites of several constellations were used; those of satellites list every satellite of the report as often as the report has it, under its number and nothing
else, in as many sentences as they say; and the first fix of the first session has its sentences. `EngineStatusIsTrue`: the debug report shows the last of each kind since the last deletion, and levels go out only in their time. Worlds choose
the events: paced, marks, hub (with the engine hub), leap, modem (sentences by the modem), debug, levels; four to seven events each, the adapter's queue of two. `Week` is 20 half seconds so that a week's end
falls inside a run, `MaxTagCode` 3 so that the code wraps.

Where the code does otherwise the property leaves it out, in its comment or its premise: a report with a signal the sentences do not know is left out whole (such a satellite is counted but not listed); once an SBAS satellite is printed its
offset stays for the rest of a GSV family, so that the numbers of GPS satellites after it are left out; a fix with NAVIC alone has no GSA and an invalid RMC; GSA stops at twelve; SBAS does not round-trip through the blacklist; two locations
equal in latitude, longitude and altitude are one to the cache; a place at the origin, which a deletion of aiding data makes the known one, is not shown; levels are matched without the wrap of a week;
a level of zero goes out in the first two seconds of a week after a deletion; a sentence `$PQWP` cut short leaves memory uninitialized, a free choice of the model. Measured values, checksums and latency
information are left out.

## 3. Where code and words differ

These came up while the properties were being found. Each is excluded from a property by a world or a premise that its comment names, and
can be had back by dropping it; five have a property of their own, named below, that TLC violates.

- A WWAN data call whose APN has the wrong length is reported to the machine as "closed" (`GnssAdapter.cpp:5361`), an event that PENDING ignores (`Agps.cpp:234`): the open is never answered.
- `startTrackingCommand`: a session that relies on the fix another session is just starting is answered SUCCESS at once (`GnssAdapter.cpp:3055`); if that fix fails it is not tracked, against
  `ILocationAPI.h:52`, "LOCATION_ERROR_SUCCESS if session was successfully started".
- A start of a registered client without the callbacks for it, or with options of size 0, is never answered (`GnssAdapter.cpp:2998`): the error is put in a local variable that nothing reads. `ILocationAPI.h:54`: "LOCATION_ERROR_CALLBACK_MISSING if no trackingCallback was passed". Property `StartsAreAnswered`.
- `GnssAdapter`'s engine-up handler sends the messages in `mPendingMsgs` and does not clear the list (`GnssAdapter.cpp:2627`), though `MTRunnable::run` deletes each after its turn (`MsgTask.cpp:110`): the next engine-up handles and deletes them a second time. The list is, by `LocAdapterBase.h:119`, "For temporal storage of msgs before Open is completed". Property `PendingBeforeOpen`.
  `GeofenceAdapter.cpp:205` goes through its list in the same way (there it holds what `LocAdapterBase.cpp:452` puts in, requests for the capabilities, which the module leaves out); `BatchingAdapter.cpp:255` clears it.
- `GeofenceAdapter.cpp:683` says "Send aggregated response on last item and cleanup"; an unknown last id has its turn before the answers of earlier ones, which then write the deleted arrays. Property `CleanupComesLast`.
- `LocApiBase.cpp:805` to 897: the defaults of the batching and geofence calls take a response object and drop it, against "responseCallback returns" of `ILocationAPI.h`. SynergyLocApi overrides none of them. Property `EveryCallAnswered`.
- `reportSv` says "set USED_IN_FIX flag, else clear the USED_IN_FIX flag" (`GnssAdapter.cpp:4339`) and only sets it: a mark the engine's report came with stays. Property `NotUsedIsCleared`.
- The late response of a failed update saves a session that was stopped in between (`GnssAdapter.cpp:3162`).
- `modifyGeofences` answers SUCCESS for a fence the engine refused to modify (`GeofenceAdapter.cpp:668`).
- `niThreadProc` says it resets the answer "for the next session" (`GnssAdapter.cpp:4648`); one that was looked up before the deadline and is written after it (line 3536) stays for that session all the same.
- `configConstellations` sends `mGnssSvTypeConfig`, the setting remembered before the call (`GnssAdapter.cpp:6043`), and stores the new one below (line 6049).
- `BatchingAdapter::restartSessions` says "reset the accumulatedDistanceOngoingBatch for each session" and resets copies (`BatchingAdapter.cpp:291`, 306).
- `onBatchingCb` says a flush always triggers a report (`BatchingAPIClient.cpp:224`); one whose answer comes while the client is stopping is kept back.
- `LocationAPI.h:46` to 53 promises `destroyCompleteCb`; `LocationAPI.cpp:169` and 344 call it only if it is empty.
- `LocTimerContainer::expire` says it pops "everything in the heap that outRanks now"; the first pop compares nothing (`LocTimer.cpp:380`), so a timer started as another expires can fire early.
- `SystemStatus.h:572` says that `mAllTypes` 0 "means no more connections"; of two mobile networks beside a Wi-Fi one, the end of the first leaves the mobile type alone in it, the end of the second 0, with the Wi-Fi network connected.
- `GnssAdapter.cpp:514` sets a flag of the engine's structure in a mask of the client's, where the same bit means the east velocity.
- A comment near `GnssAdapter.cpp:2226` has the engine answer a deletion of aiding data; one within a second of the last is dropped and never answered.

## 4. Bounds, deadlock, fairness

`MaxBacklog` (`MaxMsgs` in some modules) stands for "the environment does not run arbitrarily far ahead". Modem, clients and engine add messages
only while fewer than that many are under way; the code's own messages are never limited. A bound on ids, calls or events
is named in the module that has it, and where worlds differ it is a function of the world. They are as large as a run of
five minutes allows; the properties of each run are violated, under the same bounds, by a mutant of the code each of them is about, so
the cases they need do happen. All configurations but `LocTimer.cfg` have `CHECK_DEADLOCK FALSE`: with both queues empty, modem
and clients may simply not ask again, and bounded ids and events run out.

Fairness is assumed where liveness is checked and nowhere else, and it is weak fairness throughout:

| module | of | since |
|---|---|---|
| Agps, NiSession, Settings, Odcpi, XtraObserver | the thread that serves a queue | `MTRunnable::run` loops until the queue is unblocked |
| Settings | the LocApi's thread too | the same |
| Agps | the WDS query; the framework's service of its commands | each answers what it was given |
| NiSession | each NI thread | `pthread_cond_timedwait` returns by its deadline |
| MsgTask | the reader; an end once begun; the message that ends its own task | `proc` returns |
| LocTimer | time, the poll thread, LocTimerMsgTask | a clock, an `epoll_wait` on an armed descriptor, a MsgTask |
| Odcpi | the expiry of a running timer | LocTimer, run `loc_timer` |
| XtraObserver | the daemon asks and reads while it is up | its start message does; a socket is read in order |

Modem, user, clients and networks are under no obligation.

## 5. Proofs

Every theorem is of the form `Spec => []Inv` (or a refinement) and holds for every value of the constants that the named assumptions
allow. These are the modules' own ASSUMEs: bounds are natural numbers, worlds are the kinds the module describes, tracking options have a positive interval and
mode (`OptionsAssumption`; what the clamp to `MIN_TRACKING_INTERVAL` leaves), the name that stands for no adapter is not an adapter's (`NamesAssumption`), the events used are among those
the engine has (`EventsAssumption`), the messages that end a MsgTask are messages (`KillsAssumption`), the networks are finitely many (`StatusAssumption`), clients name items there are (`ListsAssumption`),
every satellite has a constellation and no configuration both enables and blacklists a constellation (`SatellitesAssumption`, `ConfigsAssumption`), no client sets a setting to the value that stands for the file's or for none (`SettingsAssumption`), and the
value that stands for none is no item's and no connection's (`NoneAssumption`, `ParamsAssumption`). No bound of a run is assumed: `MaxBacklog` and the like are arbitrary. What the theorems of Tracking, Geofence and Settings say of idle threads
is said, as in the runs, of behaviours in which no freed message was sent again and no deleted array used: `Spec` has no step that does either. Each proof has an
invariant that says why the property holds, one lemma for each action or group of actions, and one for what follows once the queues are empty. Each inductive invariant was
checked by TLC on the run's instance, but for the types of some messages, which it cannot enumerate.

| module | theorem | property of a run |
|---|---|---|
| AgpsProofs | TypeCorrect, SubscribersAlwaysMatch, NothingIsEverLost | SubscribersMatchState, NothingIsLost |
| MsgTaskProofs | TypeCorrect, EachMessageOnce, QueueFreedLast, TaskImplementsFifo | EachOnce, QueueOutlivesUse, ImplementsFifo |
| NiSessionProofs | NoRequestEndsTwice, TheUserDecides | EveryRequestEndsOnce (its safety part), UserDecides |
| OdcpiProofs | ServesTheMasks, EventsReachEveryone, AnswersMeetTheirCalls, AskedAndAwaited | EngineServesMasks, EventsReachAdapters, AnswersAreTrue, WaitingIsAskedOnce (its safety part) |
| TrackingProofs | EngineServesSessions, SuspendedWhileConfigured, ClientsAreToldTheTruth | FixServesSessions, ConfiguredWhileSuspended, ToldIsTracked |
| GeofenceProofs | FencesHeld, BreachFound, CommandsAnsweredOnce | EngineHoldsTheFences, BreachFindsItsFence, the first part of ToldIsServed (`AnsweredOnce`) |
| SettingsProofs | SettingsTypes, LockHeld, SettingsKept, CorrectionsTold, NoAskAnsweredTwice | LockMatchesMode, SettingsHeld, MeasCorrTold, AsksAnsweredOnce (its safety part) |
| ObserversProofs | TheTableHolds, ClientsAreServed, TheSourceStops, TheDaemonKnows | TableHoldsOnline, SubscribersServed, SourceStops, DaemonLearns (its safety part) |

**AgpsProofs.** `IInv == TypeOK /\ SubscribersMatchState` is inductive by itself, and that is its point: it needs no fact about the
messages under way, so whichever event comes, in whatever order, the lists agree. `MachineStep(n)` says what a
step of one machine must do to keep it, and one lemma for each `processAgpsEvent...` function shows that it is such a step. `NothingIsLost` does need the messages:
`HandlesFollowed` says for each state the modem believes a handle to be in what may wait for it (an idle handle may have a late close on the queue, but never behind a new open;
a listed handle is listed by one machine, and to be closed exactly if its close waits or was taken), and `ConnectionFollowed` ties the framework's commands and reports on their way to the state of the SUPL machine,
on a steady network: a grant may be late, a close never is.

**MsgTaskProofs.** The inductive invariant is `TypeOK /\ EachOnce /\ Places`, where `Places` ties the threads' places to each other: the flag is set exactly once the end has
got that far, a thread leaves only an unblocked queue and waits only at one that is not, each owner is listed exactly while it is
there, and a message is being handled exactly in `proc`. Without it neither safety property is inductive: `QueueOutlivesUse` needs to know whom an empty
`owners` leaves out, `EachOnce` that a thread that takes a message has none. The refinement then takes each action from a state of the invariant to an action of `MsgFifo`
or to none; the invariant is used where a step that moves the thread could change `Phase`.

**NiSessionProofs.** `EndsOnce` needs to know that a request is held in one place (`HeldOnce`: on a queue, in a session or by a thread), that only open ones are (`OnlyOpenAreHeld`), that
ids are fresh (`IdsAreFresh`) and that a session in progress belongs to the one thread that waits for its answer (`WaitsForItsOwn`). This holds with preemption. `UserDecides` is claimed without it, and follows from what
may be told of a request (`AnswersFit`: every answer on its way fits the request it is on its way to), to whom writes go (`WritesAreAwaited`) and where ids lead (`IdsAgree`).

**OdcpiProofs** proves both of `LocApi` and of `Odcpi` above it, whose `Spec` is the composition. `ServesTheMasks`: a message that opens the engine again is on
LocApi's queue whenever the engine does not serve the masks, even behind one that closes it (`OpenForMasks`); the open that will tell an adapter that the engine is up is on the queue until it did (`AllTold`); a message that closes
it is only there behind the last adapter's departure, or before an opening (`ClosedForGood`). `EventsReachEveryone`: as long as none leaves, the adapters an event has met are the first of the list (`WalkFollows`). `AnswersMeetTheirCalls`: the answers on
the adapters' queue and the calls on LocApi's are numbered in the order of the calls, and are those of the calls SynergyLocApi implements, none left out (`AnswersFollow`), and each says what the engine did (`TrueAnswers`). `AskedAndAwaited`: the
timer's flag, the timer and the expiries on the queue account for how often the framework may still be asked (`TimerFollows`).

**TrackingProofs.** The engine's fix says nothing while calls wait for it. The invariant `FixFollows` therefore speaks of where the calls lead: some function gives the interval of the fix after each of
them, no fix is running at a `configure`, and what the last one leaves serves the sessions tracked now, unless an engine that came back is still to be told of them. An append or a tail of the queue changes that function at one end,
so no induction over the queue is needed. `ClientsAreToldTheTruth` adds, for each session, what is on its way to it: `StartsFollow` (a client that did not stop has no stop and no removal under way,
and is tracked from the moment its start is decided), `StopsFollow` (in a plain world its commands end with its stop, and once the stop is decided nothing is left that would bring it back) and
`OwedFollows` (what a client is owed is the number of its commands and answers in the adapter's queue and of the calls that will answer it, again by a function that counts along the queue). Both that and `RemovalsFollow` (only a client that was removed is unregistered) hold in all worlds; in the mute one a start will be answered by nothing, and counts so.

**ObserversProofs.** `Typed` has the types of the queue's messages and, in `TablesInv`, what the newest table of networks holds: `CollateHolds` shows that one event keeps it, whatever the table, with
the one exception fixed for good (`g`, the network of the first event). `ClientsAreServed` needs three facts that are inductive together: what the cache has not got nobody has been given (`Unseen`: a client that subscribes again
must not be left with a value of an earlier life), the indices agree, and of each item's on and off the last message in the queue, or else the framework's state, agrees with the count (`TurnsTell`).
The same form, the last copy on a queue or else what is known where it leads, carries both ways to the daemon: from the cache to the observer (`KnowInv`) and from the observer to the daemon (`CopiesTell` of its
datagrams, and `SourceTells` of its commands to start and stop). The second holds only from the answer to the daemon's request on, so that `DaemonInv` starts it when a request for everything leaves the queue, and ends
it when the daemon dies or hears of a new HAL; what the daemon missed before never matters. The answer names no source when there is none, so `NoneLeft` is needed as well: a daemon that is up is then left with none by what is on its way.
`mReqStatusReceived` is part of it: it is never reset, so no update after the first answer is kept back.

**GeofenceProofs.** A fence is in one place at a time: on its way to be added, on its way back with the engine's id, or in the adapter's maps. The invariant says of each message and call what it carries (`Bears` a fence, `Brings` a new id of
the engine's, `Uses` one given before, `Removes`, `Modifies`) and follows that: a fence is borne once or known under one id (`BorneOnce`), an id is brought once and before it is known or used (`BroughtOnce`). Neither property is inductive because both
speak of what the adapter knows once it has read its mail, in the order it waits in: `HeldIsKnown` and `BreachIsKnown` say it for what the engine holds and for a breach on its way, `KnownIsHeld` the converse (or the news of the loss is on its way: a removal's answer, or the restart),
and `OptionsAgree` the same for the option last asked for. That the two maps agree (`MapsAgree`) rests on `GoneIsGone` and `ClearsTheUnled`: what the clean-up of a departed client removes, no id leads to. The 24 actions are first sorted into five kinds of step (`StepKinds`), and each conjunct is shown kind by kind.
`CommandsAnsweredOnce` follows each item of a command through four stages: with the adapter's call of its own queue, as a message there, with LocApi's thread, and answered in the adapter's queue. The code answers a command when it meets its last item and hopes that all others were met before,
so what counts is their order. Of two items of a command, the earlier is never behind: it is a stage further, or ahead in the same queue (`Ordered`), and a command that still waits has no items (`Alone`). `Owes` then says what is left of the response: the last item is still to come as long as it
was not answered, and each error not yet written has its item in or before the stage that writes it (`CommandsFollow`). It also needs that the engine never answers that it does not know an id (`EngineKnowsIds`), which rests on the invariant of the other two theorems.

**SettingsProofs** proves of GnssConfig through Settings above it, whose `Spec` is the composition. Each configured value *comes*: the engine reopens or its coming up is still to be handled, and then all is sent again; or the calls that wait for LocApi's thread end with the right one, the last on that topic
deciding (`Ends`, for constellations, which accumulate, `EndsWith`); or, for a setting, a call waits that will look at what is stored (`Will`). An append after the last call on a topic, or a tail before it, is all a step does to `Ends`, so no induction over the queue is needed. The one exclusion is
`raced`, the settings written while LocApi's thread held the earlier value, as `SettingsHeld` itself has it. `CorrectionsTold` needs that an answer is on its way whenever the engine is known and a client that opened was not told (`CorrComes`). `NoAskAnsweredTwice` adds, for each request, that one message or one call
carries it, in `queue`, in `pending` or at LocApi's thread, and only while it is open (`AskFollows`). What `pending` holds once it was sent are freed messages, which carry nothing.

Only model-checked: liveness under fairness and ENABLED, which are out of the prover's reach (`EveryCallEnds`, the second half of `EveryRequestEndsOnce`, that a standing request is asked in the end, that a daemon learns in the end, and the others that section 4's table is about), and
these safety properties: the second part of `ToldIsServed` of Geofence (that what a client was told last is what the engine has: it relates the answers of different
commands on one fence, where `CommandsFollow` speaks of the items of one); those of Batching (`NoBatchIsOrphaned`, `EngineServesSessions`, `TripsNotEarly`), of the client API (`ObjectsAreKept`, `AnswersMeetTheirRequests`, `BreachesAreWanted`) and of the reports (`UsedInFixIsTrue`, `LeapSecondsTold`, `EngineStatusIsTrue`, `SentencesAreSound`).
LocHeap uses RECURSIVE operators, as the
tree is a recursive datum, so nothing can be proved of it and of LocTimer above it (`DelegatesOutliveUse`, `HeapSorts`); no other module does.

## 6. Not modelled, and the plan

Without a module, for the reasons `PROJECT.json` gives: ContextBase and the loading of libraries (no behaviour after construction), LocIpc and the socket
of the IPC router (I/O), LogBuffer and SkipList (kept for a dump), the parsers of configuration files, gnsspps, the battery listener, the fingerprint service, the
Android settings, init and build files. Of the modelled components what is missing is named in their sections above.

Left for later, in this order:

1. Proofs: the second part of `ToldIsServed` of Geofence; `NoBatchIsOrphaned` of Batching; `AdaptersHoldLiveObjects` of LocationApi with ApiClient above it.
2. Tracking on an engine that offers distance-based tracking: the second map, `SwitchToTime`, restarts.
3. LogBuffer with its skip list, the end of LocIpc's receiving thread, the doze sensors of the settings, gnsspps.

A dozen runs are enough to read: when a module comes in, its question replaces one that another run can ask.
