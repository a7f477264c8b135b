----------------------------- MODULE GnssConfig -----------------------------
(***************************************************************************)
(* What GnssAdapter (gps/gnss/GnssAdapter.cpp) asks the engine to be       *)
(* configured to: the GPS lock (which of the mobile's own and the          *)
(* network's requests are locked out), the blacklisted satellites and the  *)
(* enabled constellations.  The adapter remembers each setting and applies *)
(* it again when the engine restarts.                                      *)
(*                                                                         *)
(* Two threads.  The adapter's MsgTask runs the commands and posts calls   *)
(* to the LocApi's MsgTask.  One of these calls, gnssUpdateConfig, is the  *)
(* adapter's own: on the LocApi's thread it rewrites the adapter's         *)
(* remembered blacklist, first clearing it, while the adapter's thread may *)
(* read it.  The engine itself is external.                                *)
(***************************************************************************)
EXTENDS Integers, Sequences

CONSTANTS
  Constellations,
  Satellites,
  ConstellationOf,  (* [Satellites -> Constellations]                      *)
  SvIdConfigs,      (* the blacklists clients ask for                      *)
  SvTypeConfigs,    (* the constellation settings they ask for             *)
  LockConfigs,      (* the locks a 'P' framework asks for                  *)
  MaxEnables,       (* bound: calls of enableCommand                       *)
  MaxBacklog,       (* bound: messages and calls in flight                 *)
  Worlds            (* the frameworks and engines to look at               *)

(* The mobile's own requests, and the network's.                           *)
Lock == SUBSET {"MO", "NI"}

SvTypes == [enabled: SUBSET Constellations, blacklisted: SUBSET Constellations]

ASSUME SatellitesAssumption == ConstellationOf \in [Satellites -> Constellations]
ASSUME ConfigsAssumption ==
  /\ SvIdConfigs \subseteq SUBSET Satellites
  /\ LockConfigs \subseteq Lock
  /\ SvTypeConfigs \subseteq {c \in SvTypes : c.enabled \cap c.blacklisted = {}}
ASSUME BoundsAssumption == MaxEnables \in Nat /\ MaxBacklog \in Nat

(* supported: the engine lists CONSTELLATION_ENABLEMENT as a feature.  A   *)
(* 'Q' framework controls the network's requests by itself, a 'P' one      *)
(* configures the lock.  integration: configConstellations is used.        *)
(* settings: the other settings are looked at (module Settings).           *)
ASSUME WorldsAssumption ==
  Worlds \subseteq [supported: BOOLEAN, framework: {"P", "Q"}, integration: BOOLEAN,
                    settings: SUBSET {"values", "asks", "corrections", "injections"}]

VARIABLES
  known,        (* mIsEngineCapabilitiesKnown                              *)
  gpsLock,      (* ContextBase::mGps_conf.GPS_LOCK                         *)
  afw,          (* mAfwControlId: who enabled location, 0 for nobody       *)
  nfw,          (* mSupportNfwControl: TRUE for 'Q' behaviour              *)
  ids,          (* mGnssSvIdConfig                                         *)
  svIds,        (* mBlacklistedSvIds                                       *)
  types,        (* mGnssSvTypeConfig: <<config>>, or <<>> for size 0       *)
  pending,      (* mPendingMsgs                                            *)
  restoring,    (* the engine-up handler is past setConfig                 *)
  queue,        (* the adapter's MsgTask queue                             *)
  api,          (* the LocApi's MsgTask queue                              *)
  engine,       (* what the engine is set to                               *)
  enables,      (* ids given out by enableCommand                          *)
  world

lockVars    == <<gpsLock, afw, nfw>>
svVars      == <<ids, svIds, types>>
adapterVars == <<known, lockVars, svVars, pending, restoring>>
vars        == <<adapterVars, queue, api, engine, enables, world>>

Maybe(S) == {<<>>} \union {<<x>> : x \in S}

Init ==
  /\ known = FALSE
  /\ gpsLock = {"MO", "NI"}
  /\ afw = 0
  /\ nfw = TRUE
  /\ ids = {} /\ svIds = {} /\ types = <<>>
  /\ pending = <<>>
  /\ restoring = FALSE
  /\ queue = <<>>
  /\ api = <<[call |-> "open"]>>
  /\ engine \in [up: {FALSE}, lock: Lock, blacklist: {{}}, enabled: {{}}]
  /\ enables = 0
  /\ world \in Worlds

-----------------------------------------------------------------------------
(* Calls to the LocApi, each a sequence of at most one.                    *)

SetLock(l)           == <<[call |-> "setLock", lock |-> l]>>
SetBlacklist(S)      == <<[call |-> "setBlacklist", svs |-> S]>>
SetConstellations(t) == <<[call |-> "setConstellations", types |-> t]>>
ResetConstellations  == <<[call |-> "resetConstellations"]>>
UpdateEngine(l, svs) ==
  <<[call |-> "update", lock |-> l, svs |-> svs, after |-> <<>>]>>

NoTypes == [enabled |-> {}, blacklisted |-> {}]

(* The satellites of the constellations that a setting disables.           *)
DisabledBy(t) == {s \in Satellites : ConstellationOf[s] \in t.blacklisted}

(* gnssSvTypeConfigUpdate(sendReset), for remembered settings <<t>>, or    *)
(* <<>>: only the enabled constellations are sent, the disabled ones are   *)
(* blacklisted.                                                            *)
SvTypeCalls(setting, sendReset) ==
  IF setting = <<>> THEN <<>>
  ELSE LET t == setting[1]
       IN  (IF sendReset THEN ResetConstellations ELSE <<>>)
           \o SetBlacklist(ids \union DisabledBy(t))
           \o (IF t.enabled = {} THEN <<>>
               ELSE SetConstellations([NoTypes EXCEPT !.enabled = t.enabled]))

Enabled(setting) == IF setting = <<>> THEN {} ELSE setting[1].enabled

(* A constellation is taken from the enabled ones.                         *)
Removes(t) == Enabled(types) \ t.enabled # {}

-----------------------------------------------------------------------------
(* The adapter's thread.                                                   *)

Handles(kind) == ~restoring /\ queue # <<>> /\ Head(queue).kind = kind
PostCalls(calls) == api' = api \o calls

(* The lock the engine is to have (GnssAdapter.cpp:901-912).               *)
ExpectedLock == IF nfw \/ afw = 0 THEN gpsLock ELSE {}

(* These commands wait for an engine that is up.                           *)
Wait ==
  /\ ~known
  /\ \E kind \in {"update", "svTypes", "resetSvTypes", "get"} : Handles(kind)
  /\ pending' = Append(pending, Head(queue))
  /\ queue' = Tail(queue)
  /\ UNCHANGED <<known, lockVars, svVars, restoring, api, engine, enables, world>>

(* The lock part of MsgGnssUpdateConfig, and what is sent of it: from the  *)
(* first such command on the adapter behaves as for 'P', and an enabled    *)
(* engine is unlocked then and left alone later.                           *)
UpdateLock(l) ==
  /\ gpsLock' = l \union {"MO"}
  /\ nfw' = FALSE

(* A bug to catch: the first lock is sent to an enabled engine as it is.   *)
LockSentUnlessConfigured(l) == IF afw = 0 \/ nfw THEN <<l \union {"MO"}>> ELSE <<>>

LockToSend(l) ==
  IF afw = 0 THEN <<l \union {"MO"}>> ELSE IF nfw THEN <<{}>> ELSE <<>>

(* MsgGnssUpdateConfig                                                     *)
UpdateConfig ==
  /\ known
  /\ Handles("update")
  /\ LET m == Head(queue)
     IN  /\ \/ m.lock # <<>> /\ UpdateLock(m.lock[1]) /\ UNCHANGED afw
            \/ m.lock = <<>> /\ UNCHANGED lockVars
         /\ PostCalls(UpdateEngine(IF m.lock = <<>> THEN <<>> ELSE LockToSend(m.lock[1]), m.svs))
  /\ queue' = Tail(queue)
  /\ UNCHANGED <<known, svVars, pending, restoring, engine, enables, world>>

(* MsgGnssUpdateSvTypeConfig                                               *)
UpdateSvTypeConfig ==
  /\ known
  /\ Handles("svTypes")
  /\ \/ /\ world.supported
        /\ types' = <<Head(queue).types>>
        /\ PostCalls(SvTypeCalls(types', Removes(Head(queue).types)))
     \/ /\ ~world.supported
        /\ UNCHANGED <<types, api>>
  /\ queue' = Tail(queue)
  /\ UNCHANGED <<known, lockVars, ids, svIds, pending, restoring, engine, enables, world>>

(* MsgGnssResetSvTypeConfig                                                *)
ResetSvTypeConfig ==
  /\ known
  /\ Handles("resetSvTypes")
  /\ \/ /\ world.supported
        /\ types' = <<NoTypes>>
        /\ PostCalls(SetBlacklist(ids) \o ResetConstellations)
     \/ /\ ~world.supported
        /\ UNCHANGED <<types, api>>
  /\ queue' = Tail(queue)
  /\ UNCHANGED <<known, lockVars, ids, svIds, pending, restoring, engine, enables, world>>

(* gnssUpdateSvConfig: the settings sent are those remembered before, the  *)
(* new ones replace them afterwards.  The blacklist sent is the new one.   *)
UpdateSvConfig ==
  /\ Handles("svConfig")
  /\ LET m == Head(queue)
     IN  /\ PostCalls(
              (IF m.types = <<>> THEN ResetConstellations
               ELSE (IF Removes(m.types[1]) THEN ResetConstellations ELSE <<>>)
                    \o SetConstellations(IF types = <<>> THEN NoTypes ELSE types[1]))
              \o SetBlacklist(m.svs))
         /\ types' = m.types
         /\ ids' = m.svs
         /\ svIds' = m.svs
  /\ queue' = Tail(queue)
  /\ UNCHANGED <<known, lockVars, pending, restoring, engine, enables, world>>

(* MsgEnableGnss                                                           *)
EnableGnss ==
  /\ Handles("enable")
  /\ \/ /\ afw = 0
        /\ afw' = Head(queue).id
        /\ gpsLock' = IF nfw THEN gpsLock \cap {"NI"} ELSE gpsLock
        /\ PostCalls(SetLock(IF nfw THEN gpsLock' ELSE {}))
     \/ /\ afw # 0
        /\ UNCHANGED <<afw, gpsLock, api>>
  /\ queue' = Tail(queue)
  /\ UNCHANGED <<known, nfw, svVars, pending, restoring, engine, enables, world>>

(* MsgDisableGnss                                                          *)
DisableGnss ==
  /\ Handles("disable")
  /\ \/ /\ afw = Head(queue).id
        /\ afw' = 0
        /\ gpsLock' = IF nfw THEN gpsLock \union {"MO"} ELSE gpsLock
        /\ PostCalls(SetLock(gpsLock'))
     \/ /\ afw # Head(queue).id
        /\ UNCHANGED <<afw, gpsLock, api>>
  /\ queue' = Tail(queue)
  /\ UNCHANGED <<known, nfw, svVars, pending, restoring, engine, enables, world>>

(* MsgControlNfwLocationAccess                                             *)
ControlNfw ==
  /\ Handles("nfw")
  /\ gpsLock' = IF Head(queue).allow THEN gpsLock \ {"NI"} ELSE gpsLock \union {"NI"}
  /\ PostCalls(SetLock(gpsLock'))
  /\ queue' = Tail(queue)
  /\ UNCHANGED <<known, afw, nfw, svVars, pending, restoring, engine, enables, world>>

(* MsgHandleEngineUpEvent, to the end of setConfig, which posts one call   *)
(* that goes on with others and may post messages.                         *)
SetConfig(after, posted) ==
  /\ Handles("engineUp")
  /\ known' = TRUE
  /\ PostCalls(<<[call |-> "update", lock |-> <<ExpectedLock>>, svs |-> <<svIds>>,
                  after |-> after]>>)
  /\ queue' = queue \o posted
  /\ restoring' = TRUE
  /\ UNCHANGED <<lockVars, svVars, pending, engine, enables, world>>

(* A message that was deleted after it ran (MTRunnable::run).              *)
Freed == [kind |-> "freed"]

(* The messages that waited are sent again.  The list is not cleared: what *)
(* it holds from then on are messages that are freed once they have run.   *)
SendPending ==
  /\ queue' = Tail(queue) \o pending
  /\ pending' = [i \in DOMAIN pending |-> Freed]

(* A bug to catch: the blacklist is left to setConfig.                     *)
RestoreTypesOnly ==
  /\ restoring
  /\ PostCalls(SvTypeCalls(types, FALSE))
  /\ restoring' = FALSE
  /\ SendPending
  /\ UNCHANGED <<known, lockVars, svVars, engine, enables, world>>

(* The rest of it: gnssSvIdConfigUpdate, gnssSvTypeConfigUpdate, and the   *)
(* messages that waited.                                                   *)
RestoreSvConfig ==
  /\ restoring
  /\ PostCalls(SetBlacklist(ids) \o SvTypeCalls(types, FALSE))
  /\ restoring' = FALSE
  /\ SendPending
  /\ UNCHANGED <<known, lockVars, svVars, engine, enables, world>>

AdapterStep ==
  \/ Wait \/ UpdateConfig \/ UpdateSvTypeConfig \/ ResetSvTypeConfig \/ UpdateSvConfig
  \/ EnableGnss \/ DisableGnss \/ ControlNfw \/ RestoreSvConfig

-----------------------------------------------------------------------------
(* The LocApi's thread, and the engine, which takes calls while it is up.  *)

Runs(call) == api # <<>> /\ Head(api).call = call

EngineTakes(e) == engine' = IF engine.up THEN e ELSE engine

SetGpsLockSync ==
  /\ Runs("setLock")
  /\ EngineTakes([engine EXCEPT !.lock = Head(api).lock])
  /\ api' = Tail(api)
  /\ UNCHANGED <<adapterVars, queue, enables, world>>

(* gnssUpdateConfig: the lock is set, and the remembered blacklist cleared *)
(* where the engine supports it ...                                        *)
GnssUpdateConfig ==
  /\ Runs("update")
  /\ LET c == Head(api)
     IN  /\ EngineTakes(IF c.lock = <<>> THEN engine ELSE [engine EXCEPT !.lock = c.lock[1]])
         /\ \/ /\ c.svs # <<>> /\ world.supported
               /\ svIds' = c.svs[1]
               /\ ids' = {}
               /\ api' = [api EXCEPT ![1].call = "fill"]
            \/ /\ c.svs = <<>> \/ ~world.supported
               /\ api' = c.after \o Tail(api)
               /\ UNCHANGED <<ids, svIds>>
  /\ UNCHANGED <<known, lockVars, types, pending, restoring, queue, enables, world>>

(* ... and filled again, and sent.                                         *)
SvIdConfigUpdateSync ==
  /\ Runs("fill")
  /\ ids' = Head(api).svs[1]
  /\ EngineTakes([engine EXCEPT !.blacklist = Head(api).svs[1]])
  /\ api' = Head(api).after \o Tail(api)
  /\ UNCHANGED <<known, lockVars, svIds, types, pending, restoring, queue, enables, world>>

SetBlacklistSv ==
  /\ Runs("setBlacklist")
  /\ EngineTakes([engine EXCEPT !.blacklist = Head(api).svs])
  /\ api' = Tail(api)
  /\ UNCHANGED <<adapterVars, queue, enables, world>>

(* The engine adds to what it was told before: hence the resets.           *)
SetConstellationControl ==
  /\ Runs("setConstellations")
  /\ EngineTakes([engine EXCEPT !.enabled = (@ \union Head(api).types.enabled)
                                            \ Head(api).types.blacklisted])
  /\ api' = Tail(api)
  /\ UNCHANGED <<adapterVars, queue, enables, world>>

ResetConstellationControl ==
  /\ Runs("resetConstellations")
  /\ EngineTakes([engine EXCEPT !.enabled = {}])
  /\ api' = Tail(api)
  /\ UNCHANGED <<adapterVars, queue, enables, world>>

(* LocOpenMsg and LocSsrMsg: the engine is up, with no settings but the    *)
(* lock, which it keeps.                                                   *)
Open ==
  /\ Runs("open")
  /\ engine' = [engine EXCEPT !.up = TRUE, !.blacklist = {}, !.enabled = {}]
  /\ queue' = Append(queue, [kind |-> "engineUp"])
  /\ api' = Tail(api)
  /\ UNCHANGED <<adapterVars, enables, world>>

ApiStep ==
  \/ SetGpsLockSync \/ GnssUpdateConfig \/ SvIdConfigUpdateSync \/ SetBlacklistSv
  \/ SetConstellationControl \/ ResetConstellationControl \/ Open

HasRoom == Len(queue) + Len(api) + Len(pending) < MaxBacklog

EngineDown ==
  /\ HasRoom
  /\ engine.up
  /\ engine' = [engine EXCEPT !.up = FALSE]
  /\ api' = Append(api, [call |-> "open"])
  /\ UNCHANGED <<adapterVars, queue, enables, world>>

-----------------------------------------------------------------------------
(* The framework and the integration interface.                            *)

Send(m) == HasRoom /\ queue' = Append(queue, m)

GnssUpdateConfigCommand(l, svs) ==
  /\ <<l, svs>> # <<<<>>, <<>>>>
  /\ l # <<>> => world.framework = "P"
  /\ Send([kind |-> "update", lock |-> l, svs |-> svs])
  /\ UNCHANGED <<adapterVars, api, engine, enables, world>>

SvTypeCommand(t) ==
  /\ Send([kind |-> "svTypes", types |-> t])
  /\ UNCHANGED <<adapterVars, api, engine, enables, world>>

ResetSvTypeCommand ==
  /\ Send([kind |-> "resetSvTypes"])
  /\ UNCHANGED <<adapterVars, api, engine, enables, world>>

SvConfigCommand(t, svs) ==
  /\ world.integration
  /\ Send([kind |-> "svConfig", types |-> t, svs |-> svs])
  /\ UNCHANGED <<adapterVars, api, engine, enables, world>>

EnableCommand ==
  /\ enables < MaxEnables
  /\ enables' = enables + 1
  /\ Send([kind |-> "enable", id |-> enables'])
  /\ UNCHANGED <<adapterVars, api, engine, world>>

DisableCommand ==
  /\ \E id \in 1..enables : Send([kind |-> "disable", id |-> id])
  /\ UNCHANGED <<adapterVars, api, engine, enables, world>>

(* nfwControlCommand looks at mSupportNfwControl on the caller's thread.   *)
NfwControlCommand(allow) ==
  /\ world.framework = "Q"
  /\ nfw
  /\ Send([kind |-> "nfw", allow |-> allow])
  /\ UNCHANGED <<adapterVars, api, engine, enables, world>>

ClientStep ==
  \/ \E l \in Maybe(LockConfigs), svs \in Maybe(SvIdConfigs) : GnssUpdateConfigCommand(l, svs)
  \/ \E t \in SvTypeConfigs : SvTypeCommand(t)
  \/ \E t \in Maybe(SvTypeConfigs), svs \in SvIdConfigs : SvConfigCommand(t, svs)
  \/ \E allow \in BOOLEAN : NfwControlCommand(allow)
  \/ ResetSvTypeCommand \/ EnableCommand \/ DisableCommand

-----------------------------------------------------------------------------
(* The next message of the adapter is a freed one: no action says what its *)
(* thread does, and nothing is claimed from here on.                       *)
Undefined == ~restoring /\ queue # <<>> /\ Head(queue) = Freed

(* Both queues are empty.  No freed message is to come, and none was met.  *)
Settled == engine.up /\ queue = <<>> /\ api = <<>>

(* "We need to set the GPS_LOCK to the proper values" (GnssAdapter.cpp:    *)
(* 902): once both queues are empty the engine has the lock that the       *)
(* adapter's mode and its enabled state call for, whatever enables,        *)
(* disables, lock settings, network controls and restarts came in whatever *)
(* order -- until a restart sends a message that was freed, which needs    *)
(* one that waited for the first engine.                                   *)
LockMatchesMode == Settled => engine.lock = ExpectedLock

(* Where only configConstellations writes the blacklist (the engine does   *)
(* not list the feature, so the LocApi's thread leaves it alone), every    *)
(* satellite of a constellation in use is blacklisted in the engine if and *)
(* only if the adapter remembers it so, after engine restarts too.         *)
BlacklistHeld ==
  Settled /\ ~world.supported =>
    LET allowed == Satellites \ (IF types = <<>> THEN {} ELSE DisabledBy(types[1]))
    IN  engine.blacklist \cap allowed = ids \cap allowed

(* Where configConstellations is not used, the engine has the              *)
(* constellations enabled that the adapter remembers, after engine         *)
(* restarts too ("configuration to enable/disable SV constellation to be   *)
(* used by SPE engine", ILocationAPI.h:198).  A setting that waited for    *)
(* the first engine runs behind, and so replaces, one sent while that      *)
(* engine came up.                                                         *)
ConstellationsHeldForHal ==
  Settled /\ ~world.integration => engine.enabled = Enabled(types)

(* "For temporal storage of msgs before Open is completed"                 *)
(* (LocAdapterBase.h:119): no message is kept in the list once the engine  *)
(* is up.  The handler keeps them all, and a later restart sends them,     *)
(* freed, again.                                                           *)
PendingBeforeOpen == known /\ ~restoring => pending = <<>>

=============================================================================
