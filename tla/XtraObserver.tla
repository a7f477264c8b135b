---------------------------- MODULE XtraObserver ----------------------------
(***************************************************************************)
(* XtraSystemStatusObserver, the client of SystemStatusOsObserver that     *)
(* tells the XTRA daemon of the lock, the networks and the cell, and runs  *)
(* its DGNSS source for GnssAdapter.  The daemon is another process: what  *)
(* it is sent while it is down, or has not read when it dies, is lost.     *)
(***************************************************************************)
EXTENDS OsObserver

CONSTANTS
  Locks,        (* the GnssConfigGpsLock values in use, subsets of MO, NI  *)
  Params        (* NTRIP connections, records with a field nmea            *)

ASSUME ParamsAssumption ==
  None \notin Params /\ \A p \in Params : p.nmea \in BOOLEAN

VARIABLES
  know,                 (* mGpsLock, mConnections.., mTac, mMccmnc         *)
  mReqStatusReceived,
  mNtripParamsString,   (* the start command to repeat, or None            *)
  delay,                (* is mDelayLocTimer running                       *)
  toDaemon,             (* datagrams the daemon has not read               *)
  daemon,               (* the daemon: up, asked, knows, source            *)
  mDgnssState,          (* a set of the DGNSS_STATE_ bits                  *)
  ntrip,                (* mStartDgnssNtripParams: params and nmea         *)
  mSendNmeaConsent,
  inSession,            (* are there tracking sessions                     *)
  starting              (* is the engine yet to answer a start             *)

Told == {"lock", "network", "tac", "mccmnc"}

xtraVars  == <<know, mReqStatusReceived, mNtripParamsString, delay>>
dgnssVars == <<mDgnssState, ntrip, mSendNmeaConsent, inSession, starting>>
vars == <<obsVars, xtraVars, toDaemon, daemon, dgnssVars>>

Nothing == [i \in Told |-> None]
Off     == [up |-> FALSE, asked |-> FALSE, knows |-> Nothing, source |-> None]

XtraInit ==
  /\ know = Nothing
  /\ mReqStatusReceived = FALSE
  /\ mNtripParamsString = None
  /\ delay = TRUE
  /\ toDaemon = <<>>
  /\ daemon = Off
  /\ mDgnssState = {}
  /\ ntrip = [params |-> None, nmea |-> FALSE]
  /\ mSendNmeaConsent \in BOOLEAN
  /\ inSession = FALSE
  /\ starting = FALSE
Init == ObsInit /\ XtraInit

-----------------------------------------------------------------------------
(* What is sent.                                                           *)

(* send() to a socket nobody has bound fails, and nobody looks.            *)
Sent(datagrams) == IF daemon.up THEN toDaemon \o datagrams ELSE toDaemon

Told1(item, value) == [type |-> "told", values |-> [i \in {item} |-> value]]

(* What is told takes the place of what was known of the same items.       *)
Learnt(values, known) ==
  [i \in Told |-> IF i \in DOMAIN values THEN values[i] ELSE known[i]]

(* updateLockStatus, updateConnections, updateTac, updateMccMnc: values    *)
(* known before the daemon has asked are kept for its answer.              *)
Update(values) ==
  LET items == SetToSeq(DOMAIN values)
  IN /\ know' = Learnt(values, know)
     /\ toDaemon' = IF mReqStatusReceived
                    THEN Sent([k \in DOMAIN items |->
                                 Told1(items[k], values[items[k]])])
                    ELSE toDaemon

UpdateLockStatus(lock) ==
  /\ Event({"daemon"})
  /\ Update([i \in {"lock"} |-> lock \ {"NI"}])
  /\ UNCHANGED <<world, statusVars, indexVars, frameVars, mDataItemCache,
                 msgs, seen, resetAt, mReqStatusReceived, mNtripParamsString,
                 delay, daemon, dgnssVars>>

(* HandleOsObserverUpdateMsg.                                              *)
HandleOsObserverUpdate ==
  /\ Receives("xtra")
  /\ Update([i \in DOMAIN Msg.values |-> Msg.values[i]])
  /\ msgs' = Tail(msgs)
  /\ UNCHANGED <<world, statusVars, indexVars, frameVars, mDataItemCache,
                 seen, resetAt, events, mReqStatusReceived,
                 mNtripParamsString, delay, daemon, dgnssVars>>

(* A bug to catch: only a daemon that wants it all makes itself known.     *)
StatusRequestedOnce(updated) ==
  /\ mReqStatusReceived' = (mReqStatusReceived \/ updated = 0)
  /\ toDaemon' = Sent((IF updated = 0 /\ ~mReqStatusReceived
                       THEN <<[type |-> "told", values |-> know]>> ELSE <<>>)
                   \o (IF mNtripParamsString = None THEN <<>>
                       ELSE <<mNtripParamsString>>))

(* onStatusRequested, then restartDgnssSource.                             *)
StatusRequested(updated) ==
  /\ mReqStatusReceived' = TRUE
  /\ toDaemon' = Sent((IF updated = 0
                       THEN <<[type |-> "told", values |-> know]>> ELSE <<>>)
                   \o (IF mNtripParamsString = None THEN <<>>
                       ELSE <<mNtripParamsString>>))

HandleStatusRequest ==
  /\ Receives("status")
  /\ StatusRequested(Msg.updated)
  /\ msgs' = Tail(msgs)
  /\ UNCHANGED <<world, statusVars, indexVars, frameVars, mDataItemCache,
                 seen, resetAt, events, know, mNtripParamsString, delay,
                 daemon, dgnssVars>>

DelayExpires ==
  /\ delay
  /\ delay' = FALSE
  /\ toDaemon' = Sent(<<[type |-> "halinit"]>>)
  /\ UNCHANGED <<obsVars, know, mReqStatusReceived, mNtripParamsString,
                 daemon, dgnssVars>>

-----------------------------------------------------------------------------
(* The daemon, as its messages show it: it asks for everything when it has *)
(* started and when it hears that the HAL has, and may ask, having all it  *)
(* needs, for nothing.                                                     *)

DaemonUnchanged == UNCHANGED <<world, statusVars, indexVars, frameVars,
                               mDataItemCache, seen, resetAt, xtraVars,
                               dgnssVars>>

DaemonStarts ==
  /\ ~daemon.up
  /\ Event({"daemon", "source", "restless"})
  /\ daemon' = [Off EXCEPT !.up = TRUE]
  /\ UNCHANGED <<msgs, toDaemon>>
  /\ DaemonUnchanged

DaemonDies ==
  /\ daemon.up
  /\ Event({"daemon", "restless"})
  /\ daemon' = Off
  /\ toDaemon' = <<>>
  /\ UNCHANGED msgs
  /\ DaemonUnchanged

Ask(updated) == Post([type |-> "status", updated |-> updated])

DaemonAsks ==
  /\ daemon.up
  /\ ~daemon.asked
  /\ daemon' = [daemon EXCEPT !.asked = TRUE]
  /\ Ask(0)
  /\ UNCHANGED <<toDaemon, events>>
  /\ DaemonUnchanged

DaemonIsUpToDate ==
  /\ daemon.up
  /\ daemon.knows # Nothing
  /\ Event({"daemon"})
  /\ Ask(1)
  /\ UNCHANGED <<toDaemon, daemon>>
  /\ DaemonUnchanged

DaemonReads ==
  /\ daemon.up
  /\ toDaemon # <<>>
  /\ LET d == toDaemon[1] IN
       daemon' = CASE d.type = "told"    ->
                        [daemon EXCEPT !.knows = Learnt(d.values, @)]
                   [] d.type = "halinit" -> [daemon EXCEPT !.asked = FALSE]
                   [] d.type = "start"   -> [daemon EXCEPT !.source = d]
                   [] d.type = "stop"    -> [daemon EXCEPT !.source = None]
                   [] d.type = "nmea"    -> daemon
  /\ toDaemon' = Tail(toDaemon)
  /\ UNCHANGED <<msgs, events>>
  /\ DaemonUnchanged

-----------------------------------------------------------------------------
(* The DGNSS source; GnssAdapter's handlers, on the MsgTask.               *)

(* isDgnssNmeaRequired.                                                    *)
NmeaRequired(params) == mSendNmeaConsent /\ params # None /\ params.nmea

(* A bug to catch: a command that disables no longer finds one to stop.    *)
StopEnabled(state) ==
  /\ ntrip' = [ntrip EXCEPT !.nmea = FALSE]
  /\ mDgnssState' = state \ {"STARTED"}
  /\ IF {"ENABLE", "STARTED"} \subseteq state
     THEN /\ mNtripParamsString' = None
          /\ toDaemon' = Sent(<<[type |-> "stop"]>>)
     ELSE UNCHANGED <<mNtripParamsString, toDaemon>>

StopDgnssNtrip(state) ==
  /\ ntrip' = [ntrip EXCEPT !.nmea = FALSE]
  /\ mDgnssState' = state \ {"STARTED"}
  /\ IF "STARTED" \in state
     THEN /\ mNtripParamsString' = None
          /\ toDaemon' = Sent(<<[type |-> "stop"]>>)
     ELSE UNCHANGED <<mNtripParamsString, toDaemon>>

(* After ntrip' is known.  Whether ten minutes have passed is not modelled.*)
CheckUpdateDgnssNtrip(state, session, valid) ==
  LET start == [type |-> "start", params |-> ntrip'.params,
                nmea |-> ntrip'.params.nmea /\ ntrip'.nmea]
  IN CASE session /\ state = {"ENABLE", "NO_NMEA_PENDING"} ->
            /\ mDgnssState' = state \cup {"STARTED"}
            /\ mNtripParamsString' = start
            /\ toDaemon' = Sent(<<start>>)
       [] session /\ "STARTED" \in state /\ valid /\ NmeaRequired(ntrip'.params) ->
            /\ mDgnssState' = state
            /\ UNCHANGED mNtripParamsString
            /\ \/ UNCHANGED toDaemon
               \/ toDaemon' = Sent(<<[type |-> "nmea"]>>)
       [] OTHER ->
            mDgnssState' = state /\ UNCHANGED <<mNtripParamsString, toDaemon>>

Sourcing(kinds) ==
  /\ Event(kinds)
  /\ UNCHANGED <<world, statusVars, indexVars, frameVars, mDataItemCache,
                 msgs, seen, resetAt, know, mReqStatusReceived, delay, daemon>>

(* With other parameters the running source is forgotten, not stopped.     *)
HandleEnablePPENtrip(p) ==
  /\ world = "source" => ntrip.params \in {None, p}
  /\ Sourcing({"source", "restless"})
  /\ ~(ntrip.params = p /\ "ENABLE" \in mDgnssState)
  /\ ntrip' = [params |-> p, nmea |-> FALSE]
  /\ IF NmeaRequired(p)
     THEN /\ mDgnssState' = {"ENABLE"}
          /\ UNCHANGED <<mNtripParamsString, toDaemon>>
     ELSE CheckUpdateDgnssNtrip({"ENABLE", "NO_NMEA_PENDING"}, inSession,
                                FALSE)
  /\ UNCHANGED <<mSendNmeaConsent, inSession, starting>>

HandleDisablePPENtrip ==
  /\ Sourcing({"source", "restless"})
  /\ StopDgnssNtrip((mDgnssState \ {"ENABLE"}) \cup {"NO_NMEA_PENDING"})
  /\ UNCHANGED <<mSendNmeaConsent, inSession, starting>>

UpdateConsent(accepted) ==
  /\ Sourcing({"restless"})
  /\ mSendNmeaConsent' = accepted
  /\ UNCHANGED <<mNtripParamsString, toDaemon, mDgnssState, ntrip, inSession,
                 starting>>

StartSession ==
  /\ ~inSession
  /\ Sourcing({"source", "restless"})
  /\ inSession' = TRUE
  /\ starting' = TRUE
  /\ UNCHANGED <<mNtripParamsString, toDaemon, mDgnssState, ntrip,
                 mSendNmeaConsent>>

(* The engine's answer; one that refuses takes the session away again.     *)
SessionAnswered(ok) ==
  /\ starting
  /\ world = "source" => ok
  /\ starting' = FALSE
  /\ UNCHANGED <<obsVars, know, mReqStatusReceived, delay, daemon, ntrip,
                 mSendNmeaConsent>>
  /\ IF ok
     THEN /\ CheckUpdateDgnssNtrip(mDgnssState, inSession, FALSE)
          /\ UNCHANGED inSession
     ELSE /\ inSession' = FALSE
          /\ UNCHANGED <<mDgnssState, mNtripParamsString, toDaemon>>

StopSession ==
  /\ inSession
  /\ Sourcing({"source", "restless"})
  /\ inSession' = FALSE
  /\ StopDgnssNtrip(mDgnssState \ (IF NmeaRequired(ntrip.params)
                                   THEN {"NO_NMEA_PENDING"} ELSE {}))
  /\ UNCHANGED <<mSendNmeaConsent, starting>>

(* A GGA sentence, of an engine or of the adapter's own.                   *)
ReportGGAToNtrip(valid) ==
  /\ ntrip' = [ntrip EXCEPT !.nmea = TRUE]
  /\ NmeaRequired(ntrip.params)
  /\ Sourcing({"source", "restless"})
  /\ CheckUpdateDgnssNtrip(mDgnssState \cup {"NO_NMEA_PENDING"}, inSession,
                           valid)
  /\ UNCHANGED <<mSendNmeaConsent, inSession, starting>>

-----------------------------------------------------------------------------
ObsStep ==
  /\ ObsCalls \/ ObsHandlers
  /\ UNCHANGED <<xtraVars, toDaemon, daemon, dgnssVars>>
XtraHandlers == HandleOsObserverUpdate \/ HandleStatusRequest
Next ==
  \/ ObsStep
  \/ XtraHandlers
  \/ \E lock \in Locks : UpdateLockStatus(lock)
  \/ DelayExpires
  \/ DaemonStarts \/ DaemonDies \/ DaemonAsks \/ DaemonIsUpToDate
  \/ DaemonReads
  \/ \E p \in Params : HandleEnablePPENtrip(p)
  \/ HandleDisablePPENtrip
  \/ \E accepted \in BOOLEAN : UpdateConsent(accepted)
  \/ StartSession \/ StopSession
  \/ \E ok \in BOOLEAN : SessionAnswered(ok)
  \/ \E valid \in BOOLEAN : ReportGGAToNtrip(valid)

(* The MsgTask runs; the daemon asks and reads while it is up.             *)
Fairness ==
  /\ WF_vars(ObsHandlers /\ UNCHANGED <<xtraVars, toDaemon, daemon, dgnssVars>>)
  /\ WF_vars(XtraHandlers)
  /\ WF_vars(DaemonAsks)
  /\ WF_vars(DaemonReads)
Spec == Init /\ [][Next]_vars /\ Fairness

-----------------------------------------------------------------------------
Asked == \E k \in DOMAIN msgs : msgs[k].type = "status"

(* The daemon has asked, been answered, and read its messages.             *)
Informed == daemon.up /\ daemon.asked /\ ~Asked /\ toDaemon = <<>>

(* What the observer knows of the networks and the cell is what the cache  *)
(* holds, and no source runs that has been disabled, whose session is      *)
(* over, or that lacks the location it requires; the last as long as       *)
(* parameters and consent stay and the engine takes the sessions.          *)
SourceStops ==
  /\ (\A k \in DOMAIN msgs : msgs[k].type # "xtra") =>
       \A i \in {"network", "tac", "mccmnc"} : know[i] = seen[Xtra][i]
  /\ world = "source" /\ mNtripParamsString # None =>
       /\ "ENABLE" \in mDgnssState
       /\ inSession
       /\ mSendNmeaConsent /\ mNtripParamsString.params.nmea
            => mNtripParamsString.nmea

(* A daemon that stays up comes to know what the HAL knows.  Whenever it   *)
(* has read what it asked for it knows all that the HAL knows, and runs    *)
(* the source the HAL last started, whichever of the two came first and    *)
(* however often it has died.                                              *)
DaemonLearns ==
  /\ [](Informed => daemon.knows = know /\ daemon.source = mNtripParamsString)
  /\ daemon.up ~> (~daemon.up \/ daemon.knows = know)
=============================================================================
