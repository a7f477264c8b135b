------------------------------- MODULE Odcpi -------------------------------
(***************************************************************************)
(* On-demand positions: the engine asks GnssAdapter to have the framework  *)
(* inject one, over and over while the request stands.  The engine's       *)
(* requests come through LocApiBase, the timer's expiry from the LocTimer's*)
(* thread, the framework's callback and its positions from the HAL's.      *)
(***************************************************************************)
EXTENDS LocApi

CONSTANTS
  Gnss          (* the adapter that is GnssAdapter                         *)

ASSUME GnssAssumption == Gnss \in Names /\ "requestOdcpi" \in Adapters[Gnss]

Priorities == {"LOW", "HIGH"}
WifiBit == "REQUEST_WIFI"

VARIABLES
  mOdcpiRequestCb,      (* None, or the priority it was registered with    *)
  mOdcpiRequestActive,
  mOdcpiTimer,          (* mActive and whether the LocTimer runs           *)
  mOdcpiRequest,        (* the last start request, isEmergencyMode         *)
  fw,                   (* what the framework was told last                *)
  credit,               (* expiries of the timer not yet asked for,        *)
                        (* upgrades aside, and one for the first           *)
  waiting               (* a request it has not been asked for             *)

odcpiVars == <<mOdcpiRequestCb, mOdcpiRequestActive, mOdcpiTimer,
               mOdcpiRequest, fw, credit, waiting>>
vars == <<apiVars, odcpiVars>>

Running == [active |-> TRUE, running |-> TRUE]
Stopped == [active |-> FALSE, running |-> FALSE]

Init ==
  /\ ApiInit
  /\ mOdcpiRequestCb = None
  /\ mOdcpiRequestActive = FALSE
  /\ mOdcpiTimer = Stopped
  /\ mOdcpiRequest = [type |-> None, emergency |-> FALSE]
  /\ fw = [type |-> None, emergency |-> FALSE]
  /\ credit = 1
  /\ waiting = FALSE

Consumes == /\ msgs' = Tail(msgs)
            /\ UNCHANGED <<world, mLocAdapters, known, engine, walk, callVars,
                           capable, events>>

-----------------------------------------------------------------------------
(* The engine's requests, and the framework's registration.                *)

(* Whether what is stopped was an emergency makes no difference.           *)
OdcpiRequestInfo == [type : {"START"}, emergency : BOOLEAN]
                    \cup [type : {"STOP"}, emergency : {FALSE}]

EngineAsks ==
  /\ \E request \in OdcpiRequestInfo : Dispatch("requestOdcpi", request)
  /\ UNCHANGED odcpiVars

InitOdcpiCommand(priority) ==
  /\ Gnss \in Range(mLocAdapters)
  /\ Event({"odcpi"})
  /\ msgs' = Append(msgs, [type |-> "initOdcpi", priority |-> priority])
  /\ UNCHANGED <<world, mLocAdapters, mEvtMask, apiMsgs, engine, known, walk,
                 callVars, capable, odcpiVars>>

(* initOdcpi: a callback of a lower priority is turned away.               *)
InitOdcpi ==
  LET priority == msgs[1].priority
  IN /\ Gets("initOdcpi")
     /\ Consumes
     /\ IF priority = "LOW" /\ mOdcpiRequestCb = "HIGH"
        THEN UNCHANGED <<mOdcpiRequestCb, mEvtMask, apiMsgs>>
        ELSE /\ mOdcpiRequestCb' = priority
             /\ SetMask(Gnss, mEvtMask[Gnss] \cup {WifiBit})
     /\ UNCHANGED <<mOdcpiRequestActive, mOdcpiTimer, mOdcpiRequest, fw,
                    credit, waiting>>

(* injectOdcpi: what the framework finds goes to the engine; nothing is    *)
(* remembered of it.                                                       *)
InjectOdcpi ==
  /\ fw.type = "START"
  /\ Event({"odcpi"})
  /\ Post([type |-> "call", call |-> "injectPosition",
           id |-> Len(asked) + 1])
  /\ UNCHANGED <<world, mLocAdapters, mEvtMask, msgs, engine, known, walk,
                 callVars, capable, odcpiVars>>

-----------------------------------------------------------------------------
(* requestOdcpi on the adapter's thread.                                   *)

Request == msgs[1].data

Tell(request) == fw' = request

(* The framework is asked at once when it has not been for a while ...     *)
First == ~mOdcpiRequestActive /\ ~mOdcpiTimer.active

(* ... or when an emergency replaces what was no emergency.                *)
Upgrade == ~First /\ ~mOdcpiRequest.emergency /\ Request.emergency

(* Otherwise the request stands until the timer expires.                   *)
Later ==
  /\ ~First /\ ~Upgrade
  /\ mOdcpiRequestActive' = TRUE
  /\ UNCHANGED <<mOdcpiTimer, fw, credit>>
  /\ waiting' = TRUE

Now ==
  /\ First \/ Upgrade
  /\ Tell(Request)
  /\ mOdcpiRequestActive' = TRUE
  /\ mOdcpiTimer' = Running
  /\ credit' = IF First THEN credit - 1 ELSE credit
  /\ waiting' = FALSE

Start == (Now \/ Later) /\ mOdcpiRequest' = Request

(* The timer is left to expire.                                            *)
Stop ==
  /\ Tell(Request)
  /\ mOdcpiRequestActive' = FALSE
  /\ waiting' = FALSE
  /\ UNCHANGED <<mOdcpiTimer, mOdcpiRequest, credit>>

RequestOdcpi ==
  /\ Gets("requestOdcpi")
  /\ Consumes
  /\ \/ /\ mOdcpiRequestCb = None
        /\ UNCHANGED odcpiVars
     \/ /\ mOdcpiRequestCb # None
        /\ IF Request.type = "START" THEN Start ELSE Stop
        /\ UNCHANGED mOdcpiRequestCb
  /\ UNCHANGED <<mEvtMask, apiMsgs>>

-----------------------------------------------------------------------------
(* The timer's thread sends the expiry to the adapter's.                   *)
TimeOutCallback ==
  /\ mOdcpiTimer.running
  /\ mOdcpiTimer' = [mOdcpiTimer EXCEPT !.running = FALSE]
  /\ msgs' = Append(msgs, [type |-> "odcpiTimerExpire"])
  /\ credit' = credit + 1
  /\ UNCHANGED <<world, mLocAdapters, mEvtMask, apiMsgs, engine, known, walk,
                 callVars, capable, events, mOdcpiRequestCb,
                 mOdcpiRequestActive, mOdcpiRequest, fw, waiting>>

(* A bug to catch: the request is repeated, the timer is not.              *)
ExpireOnce ==
  IF mOdcpiRequestActive
  THEN /\ Tell(mOdcpiRequest)
       /\ credit' = credit - 1
       /\ waiting' = FALSE
       /\ UNCHANGED mOdcpiTimer
  ELSE mOdcpiTimer' = Stopped /\ UNCHANGED <<fw, credit, waiting>>

Expire ==
  IF mOdcpiRequestActive
  THEN /\ Tell(mOdcpiRequest)
       /\ credit' = credit - 1
       /\ waiting' = FALSE
       /\ mOdcpiTimer' = Running
  ELSE mOdcpiTimer' = Stopped /\ UNCHANGED <<fw, credit, waiting>>

OdcpiTimerExpire ==
  /\ Gets("odcpiTimerExpire")
  /\ Consumes
  /\ Expire
  /\ UNCHANGED <<mEvtMask, apiMsgs, mOdcpiRequestCb, mOdcpiRequestActive,
                 mOdcpiRequest>>

(* The engine is up again: restartSessions takes the request for gone, and *)
(* the framework and the timer hear nothing of it.                         *)
RestartSessions ==
  /\ HandleEngineUp
  /\ mOdcpiRequestActive' = (mOdcpiRequestActive /\ msgs[1].adapter # Gnss)
  /\ waiting' = (waiting /\ msgs[1].adapter # Gnss)
  /\ UNCHANGED <<mOdcpiRequestCb, mOdcpiTimer, mOdcpiRequest, fw, credit>>

-----------------------------------------------------------------------------
Handlers ==
  \/ InitOdcpi \/ RequestOdcpi \/ OdcpiTimerExpire \/ RestartSessions
  \/ UNCHANGED odcpiVars
     /\ \/ HandleAnswer
        \/ \E event \in Requests \ OdcpiRequests : HandleRequest(event)

Next ==
  \/ ApiNext /\ UNCHANGED odcpiVars
  \/ EngineAsks
  \/ \E priority \in Priorities : InitOdcpiCommand(priority)
  \/ InjectOdcpi
  \/ InitOdcpi \/ RequestOdcpi \/ OdcpiTimerExpire \/ RestartSessions
  \/ TimeOutCallback

(* The MsgTask handles its messages, the timer expires.                    *)
Fairness == WF_vars(Handlers) /\ WF_vars(TimeOutCallback)

Spec == Init /\ [][Next]_vars /\ Fairness

-----------------------------------------------------------------------------
Expiring == \E k \in DOMAIN msgs : msgs[k].type = "odcpiTimerExpire"

(* A standing request is always going to be looked at again: whatever the  *)
(* order of starts, stops, restarts of the engine and expiries, its timer  *)
(* is active, and runs or has its expiry on the way.                       *)
ActiveIsAwaited ==
  mOdcpiRequestActive =>
    mOdcpiTimer.active /\ (mOdcpiTimer.running \/ Expiring)

(* "avoid spamming more odcpi requests to the framework": but for upgrades *)
(* to an emergency, it is asked at most once per expiry of the timer,      *)
(* however quickly the engine starts and stops.                            *)
AskedOncePerExpiry == credit >= 0

(* A request that has to wait is put to the framework in the end, unless   *)
(* it is stopped or the engine restarts: an active request always has the  *)
(* timer or its expiry ahead, and the framework is not asked in between.   *)
WaitingIsAskedOnce ==
  /\ [](ActiveIsAwaited /\ AskedOncePerExpiry)
  /\ waiting ~> ~waiting
=============================================================================
