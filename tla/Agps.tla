-------------------------------- MODULE Agps --------------------------------
(***************************************************************************)
(* The AGPS data-call manager of the GNSS HAL: AgpsManager and the two     *)
(* AgpsStateMachines it owns (gps/gnss/Agps.cpp), driven by the messages   *)
(* GnssAdapter puts on its MsgTask queue (gps/gnss/GnssAdapter.cpp) and    *)
(* served by two data-call providers: the Android framework, behind the    *)
(* AGnss HAL, for the SUPL machine, and NativeAgpsHandler, in process, for *)
(* the internet machine.                                                   *)
(*                                                                         *)
(* The modem asks for data calls (ATL requests) by connection handle; the  *)
(* machine of the call's type keeps a list of subscribers and shares one   *)
(* data connection among them.  APN, bearer, mask and SUPL flavour are     *)
(* data that no transition depends on and are left out.                    *)
(***************************************************************************)
EXTENDS Naturals, Sequences

CONSTANTS
  Handles,      (* ATL connection handles the modem uses                   *)
  MaxBacklog,   (* bound: messages and commands in flight before the modem
                   and the network stop making new ones                    *)
  Networks,     (* the kinds of network the framework may sit on           *)
  Wds           (* is libloc_api_wds.so there, to be asked for the PDN type*)

ASSUME HandlesAssumption == Handles # {}
ASSUME BacklogAssumption == MaxBacklog \in Nat
ASSUME WdsAssumption     == Wds \in BOOLEAN

(* A steady network opens every connection asked for and keeps it up; a    *)
(* flaky one may refuse it, or lose it; one of the third kind is steady,   *)
(* but may name an APN that dataConnOpenCommand's length check refuses.    *)
NetworkKind == {"steady", "flaky", "badApn"}

ASSUME NetworksAssumption == Networks \subseteq NetworkKind

Agnss    == "agnss"      (* mAgnssNif: SUPL and SUPL_ES requests           *)
Internet == "internet"   (* mInternetNif: WWAN_ANY requests                *)
Nifs     == {Agnss, Internet}

VARIABLES
  created,    (* state machines AgpsManager has created                    *)
  state,      (* [Nifs -> AgpsState]: mState                               *)
  active,     (* [Nifs -> SUBSET Handles]: subscribers, mIsInactive false  *)
  inactive,   (* [Nifs -> SUBSET Handles]: subscribers, mIsInactive true   *)
  queue,      (* GnssAdapter's MsgTask queue                               *)
  wds,        (* machines whose PDN type query is still out, in order      *)
  fw,         (* REQUEST and RELEASE commands the framework has not served *)
  fwUp,       (* does the framework hold the SUPL data connection          *)
  connected,  (* NativeAgpsHandler::mConnected                             *)
  network,    (* the kind of network of this behaviour, chosen at its start*)
  modem       (* [Handles -> ModemState]: how each handle looks to the
                 modem                                                     *)

smVars  == <<state, active, inactive>>
envVars == <<fwUp, connected, network>>
vars    == <<created, smVars, queue, wds, fw, envVars, modem>>

AgpsState   == {"RELEASED", "PENDING", "ACQUIRED", "RELEASING"}
ModemState  == {"idle", "opening", "open", "closing"}
DataConnCmd == {"REQUEST", "RELEASE"}
DataConnMsg == [kind: {"open", "pdn", "failed", "closed"}, nif: Nifs]
RequestMsg  == [kind: {"request"}, nif: Nifs, handle: Handles]
ReleaseMsg  == [kind: {"release"}, handle: Handles]
Message     == DataConnMsg \union RequestMsg \union ReleaseMsg

Init ==
  /\ created = {}
  /\ state = [n \in Nifs |-> "RELEASED"]
  /\ active = [n \in Nifs |-> {}]
  /\ inactive = [n \in Nifs |-> {}]
  /\ queue = <<>>
  /\ wds = <<>>
  /\ fw = <<>>
  /\ fwUp = FALSE
  /\ connected = FALSE
  /\ network \in Networks
  /\ modem = [h \in Handles |-> "idle"]

-----------------------------------------------------------------------------
(* Callbacks to the modem and commands to the data-call providers.         *)

(* mAtlOpenStatusCb(h, 1) and mAtlOpenStatusCb(h, 0) for the handles in S. *)
(* A modem that already asked for the call to be closed takes no notice of *)
(* a success.                                                              *)
OpenStatus(S, success) ==
  modem' = [h \in Handles |->
              IF h \notin S THEN modem[h]
              ELSE IF ~success THEN "idle"
              ELSE IF modem[h] = "opening" THEN "open" ELSE modem[h]]

(* mAtlCloseStatusCb(h, 1) for the handles in S.                           *)
CloseStatus(S) == modem' = [h \in Handles |-> IF h \in S THEN "idle" ELSE modem[h]]

(* NativeAgpsHandler::processATLRequestRelease: answers on the adapter's   *)
(* queue before the state machine's own handler returns.                   *)
NativeAnswer(cmd) ==
  [kind |-> IF cmd = "RELEASE" THEN "closed"
            ELSE IF connected THEN "open" ELSE "failed",
   nif  |-> Internet]

(* requestOrReleaseDataConn: machine n hands cmd to its provider.  Here    *)
(* and below q is what is left on the adapter's queue, f what is left for  *)
(* the framework to serve, once the step under way took what it handles.   *)
RequestOrReleaseDataConn(n, cmd, q, f) ==
  IF n = Internet
  THEN queue' = Append(q, NativeAnswer(cmd)) /\ fw' = f
  ELSE queue' = q /\ fw' = Append(f, cmd)

NoDataConn(q, f) == queue' = q /\ fw' = f

Become(n, s) == state' = [state EXCEPT ![n] = s]

SetSubscribers(n, act, inact) ==
  /\ active' = [active EXCEPT ![n] = act]
  /\ inactive' = [inactive EXCEPT ![n] = inact]

Listed(n, h) == h \in active[n] \union inactive[n]

-----------------------------------------------------------------------------
(* AgpsStateMachine: one operator per event.                               *)

(* processAgpsEventSubscribe, with addSubscriber's check for a handle that *)
(* is listed already.                                                      *)
Subscribe(n, h, q, f) ==
  /\ IF Listed(n, h) THEN UNCHANGED <<active, inactive>>
     ELSE SetSubscribers(n, active[n] \union {h}, inactive[n])
  /\ \/ /\ state[n] = "RELEASED"
        /\ Become(n, "PENDING")
        /\ RequestOrReleaseDataConn(n, "REQUEST", q, f)
        /\ UNCHANGED modem
     \/ /\ state[n] \in {"PENDING", "RELEASING"}
        /\ NoDataConn(q, f)
        /\ UNCHANGED <<state, modem>>
     \/ /\ state[n] = "ACQUIRED"
        /\ OpenStatus({h}, TRUE)
        /\ NoDataConn(q, f)
        /\ UNCHANGED state

(* A bug to catch: no release is asked for while the request is out.       *)
UnsubscribeAwaitsGrant(n, h, q, f) ==
  /\ SetSubscribers(n, active[n] \ {h}, inactive[n] \union {h})
  /\ IF state[n] \in {"PENDING", "ACQUIRED"} /\ active[n] \subseteq {h}
     THEN Become(n, "RELEASING") ELSE UNCHANGED state
  /\ IF state[n] = "ACQUIRED" /\ active[n] \subseteq {h}
     THEN RequestOrReleaseDataConn(n, "RELEASE", q, f) ELSE NoDataConn(q, f)
  /\ UNCHANGED modem

(* processAgpsEventUnsubscribe: every subscriber is created by requestATL  *)
(* with mWaitForCloseComplete set, so it joins the inactive ones and is    *)
(* told of the close only when the data connection is down.                *)
Unsubscribe(n, h, q, f) ==
  /\ SetSubscribers(n, active[n] \ {h}, inactive[n] \union {h})
  /\ IF state[n] \in {"PENDING", "ACQUIRED"} /\ active[n] \subseteq {h}
     THEN Become(n, "RELEASING") /\ RequestOrReleaseDataConn(n, "RELEASE", q, f)
     ELSE UNCHANGED state /\ NoDataConn(q, f)
  /\ UNCHANGED modem

(* processAgpsEventGranted                                                 *)
Granted(n, q) ==
  /\ IF state[n] = "PENDING"
     THEN Become(n, "ACQUIRED") /\ OpenStatus(active[n], TRUE)
     ELSE UNCHANGED <<state, modem>>
  /\ NoDataConn(q, fw)
  /\ UNCHANGED <<active, inactive>>

(* A bug to catch: the newcomers of a machine that was being released are  *)
(* left waiting, with no connection asked for.                             *)
ReleaseForgetsNewcomers(n, q, f) ==
  /\ CloseStatus(inactive[n])
  /\ SetSubscribers(n, active[n], {})
  /\ Become(n, IF active[n] # {} THEN "PENDING" ELSE "RELEASED")
  /\ NoDataConn(q, f)

(* The RELEASING case of processAgpsEventReleased and ...Denied: inactive  *)
(* subscribers are told and dropped, active ones want the call again.      *)
ReleaseComplete(n, q, f) ==
  /\ CloseStatus(inactive[n])
  /\ SetSubscribers(n, active[n], {})
  /\ IF active[n] # {}
     THEN Become(n, "PENDING") /\ RequestOrReleaseDataConn(n, "REQUEST", q, f)
     ELSE Become(n, "RELEASED") /\ NoDataConn(q, f)

(* processAgpsEventReleased                                                *)
Released(n, q, f) ==
  \/ /\ state[n] = "ACQUIRED"
     /\ Become(n, "RELEASED")
     /\ CloseStatus(active[n] \union inactive[n])
     /\ SetSubscribers(n, {}, {})
     /\ NoDataConn(q, f)
  \/ state[n] = "RELEASING" /\ ReleaseComplete(n, q, f)
  \/ /\ state[n] \in {"RELEASED", "PENDING"}
     /\ NoDataConn(q, f)
     /\ UNCHANGED <<smVars, modem>>

(* A bug to catch: only the active subscribers are told and dropped.       *)
DeniedActiveOnly(n, q) ==
  \/ /\ state[n] = "PENDING"
     /\ Become(n, "RELEASED")
     /\ OpenStatus(active[n], FALSE)
     /\ SetSubscribers(n, {}, inactive[n])
     /\ NoDataConn(q, fw)
  \/ state[n] = "RELEASING" /\ ReleaseComplete(n, q, fw)
  \/ /\ state[n] \in {"RELEASED", "ACQUIRED"}
     /\ NoDataConn(q, fw)
     /\ UNCHANGED <<smVars, modem>>

(* processAgpsEventDenied                                                  *)
Denied(n, q) ==
  \/ /\ state[n] = "PENDING"
     /\ Become(n, "RELEASED")
     /\ OpenStatus(active[n] \union inactive[n], FALSE)
     /\ SetSubscribers(n, {}, {})
     /\ NoDataConn(q, fw)
  \/ state[n] = "RELEASING" /\ ReleaseComplete(n, q, fw)
  \/ /\ state[n] \in {"RELEASED", "ACQUIRED"}
     /\ NoDataConn(q, fw)
     /\ UNCHANGED <<smVars, modem>>

-----------------------------------------------------------------------------
(* The adapter's thread: each message at the head of the queue.            *)

Receives(kind) == queue # <<>> /\ Head(queue).kind = kind

(* createAgpsStateMachines, on agpsInit (AGnss::setCallback) for the SUPL  *)
(* machine and on initDefaultAgps for the internet one.                    *)
CreateStateMachine(n) ==
  /\ n \notin created
  /\ created' = created \union {n}
  /\ UNCHANGED <<smVars, queue, wds, fw, envVars, modem>>

(* AgpsManager::requestATL                                                 *)
RequestATL ==
  /\ Receives("request")
  /\ LET n == Head(queue).nif
         h == Head(queue).handle
     IN  IF n \in created
         THEN Subscribe(n, h, Tail(queue), fw)
         ELSE /\ OpenStatus({h}, FALSE)
              /\ NoDataConn(Tail(queue), fw)
              /\ UNCHANGED smVars
  /\ UNCHANGED <<created, wds, envVars>>

(* AgpsManager::releaseATL: the SUPL machine is searched first.            *)
ReleaseATL ==
  /\ Receives("release")
  /\ LET h == Head(queue).handle
     IN  \/ Listed(Agnss, h) /\ Unsubscribe(Agnss, h, Tail(queue), fw)
         \/ /\ ~Listed(Agnss, h) /\ Listed(Internet, h)
            /\ Unsubscribe(Internet, h, Tail(queue), fw)
         \/ /\ ~Listed(Agnss, h) /\ ~Listed(Internet, h)
            /\ NoDataConn(Tail(queue), fw)
            /\ UNCHANGED <<smVars, modem>>
  /\ UNCHANGED <<created, wds, envVars>>

(* AgpsMsgAtlOpenSuccess: the PDN type is asked of libloc_api_wds.so,      *)
(* where there is one, and the grant waits for its answer.                 *)
AtlOpenSuccess ==
  /\ Receives("open")
  /\ IF Wds
     THEN /\ wds' = Append(wds, Head(queue).nif)
          /\ NoDataConn(Tail(queue), fw)
          /\ UNCHANGED <<smVars, modem>>
     ELSE /\ Granted(Head(queue).nif, Tail(queue))
          /\ UNCHANGED wds
  /\ UNCHANGED <<created, envVars>>

(* reportPdnTypeFromWds: the query's answer, on the library's thread.      *)
ReportPdnTypeFromWds ==
  /\ wds # <<>>
  /\ queue' = Append(queue, [kind |-> "pdn", nif |-> Head(wds)])
  /\ wds' = Tail(wds)
  /\ UNCHANGED <<created, smVars, fw, envVars, modem>>

(* MsgReportAtlPdn                                                         *)
ReportAtlPdn ==
  /\ Receives("pdn")
  /\ Granted(Head(queue).nif, Tail(queue))
  /\ UNCHANGED <<created, wds, envVars>>

(* AgpsManager::reportAtlOpenFailed                                        *)
ReportAtlOpenFailed ==
  /\ Receives("failed")
  /\ Denied(Head(queue).nif, Tail(queue))
  /\ UNCHANGED <<created, wds, envVars>>

(* AgpsManager::reportAtlClosed                                            *)
ReportAtlClosed ==
  /\ Receives("closed")
  /\ Released(Head(queue).nif, Tail(queue), fw)
  /\ UNCHANGED <<created, wds, envVars>>

AdapterStep ==
  \/ RequestATL \/ ReleaseATL \/ AtlOpenSuccess \/ ReportAtlPdn
  \/ ReportAtlOpenFailed \/ ReportAtlClosed

-----------------------------------------------------------------------------
(* The modem (external): asks for a call on an idle handle and closes the  *)
(* calls it asked for; GnssAdapter::requestATL and releaseATL queue both.  *)

Backlog == Len(queue) + Len(fw) + Len(wds)

ModemRequest(h, n) ==
  /\ Backlog < MaxBacklog
  /\ modem[h] = "idle"
  /\ modem' = [modem EXCEPT ![h] = "opening"]
  /\ queue' = Append(queue, [kind |-> "request", nif |-> n, handle |-> h])
  /\ UNCHANGED <<created, smVars, wds, fw, envVars>>

ModemRelease(h) ==
  /\ Backlog < MaxBacklog
  /\ modem[h] \in {"opening", "open"}
  /\ modem' = [modem EXCEPT ![h] = "closing"]
  /\ queue' = Append(queue, [kind |-> "release", handle |-> h])
  /\ UNCHANGED <<created, smVars, wds, fw, envVars>>

(* The Android framework (external) behind AGnss::dataConnOpen,            *)
(* dataConnFailed and dataConnClosed: it serves the commands in order.     *)
Serves(cmd) == fw # <<>> /\ Head(fw) = cmd

Answer(kind) == queue' = Append(queue, [kind |-> kind, nif |-> Agnss])

FrameworkOpens ==
  /\ Serves("REQUEST")
  /\ fw' = Tail(fw) /\ fwUp' = TRUE
  /\ Answer("open")
  /\ UNCHANGED <<created, smVars, wds, connected, network, modem>>

FrameworkFails ==
  /\ network = "flaky"
  /\ Serves("REQUEST")
  /\ fw' = Tail(fw) /\ fwUp' = FALSE
  /\ Answer("failed")
  /\ UNCHANGED <<created, smVars, wds, connected, network, modem>>

FrameworkCloses ==
  /\ Serves("RELEASE")
  /\ fw' = Tail(fw) /\ fwUp' = FALSE
  /\ Answer("closed")
  /\ UNCHANGED <<created, smVars, wds, connected, network, modem>>

(* GnssAdapter::dataConnOpenCommand with an APN its check refuses: it      *)
(* calls reportAtlClosed at once, on the caller's thread, ahead of every   *)
(* message on the queue.                                                   *)
FrameworkOpensBadApn ==
  /\ network = "badApn"
  /\ Serves("REQUEST")
  /\ fwUp' = TRUE
  /\ Released(Agnss, queue, Tail(fw))
  /\ UNCHANGED <<created, wds, connected, network>>

FrameworkServes ==
  FrameworkOpens \/ FrameworkFails \/ FrameworkCloses \/ FrameworkOpensBadApn

(* The network is lost under an open connection.                           *)
FrameworkLoses ==
  /\ network = "flaky"
  /\ Backlog < MaxBacklog
  /\ fwUp /\ fwUp' = FALSE
  /\ Answer("closed")
  /\ UNCHANGED <<created, smVars, wds, fw, connected, network, modem>>

(* NativeAgpsHandler::notify: the mobile network comes or goes.            *)
NotifyNetwork ==
  /\ connected' = ~connected
  /\ UNCHANGED <<created, smVars, queue, wds, fw, fwUp, network, modem>>

-----------------------------------------------------------------------------
Next ==
  \/ AdapterStep
  \/ ReportPdnTypeFromWds
  \/ FrameworkServes
  \/ FrameworkLoses
  \/ NotifyNetwork
  \/ \E n \in Nifs : CreateStateMachine(n)
  \/ \E h \in Handles, n \in Nifs : ModemRequest(h, n)
  \/ \E h \in Handles : ModemRelease(h)

Spec == Init /\ [][Next]_vars

(* The adapter's thread handles every message in the end, the WDS library  *)
(* answers its queries and the framework serves every command; the modem   *)
(* and the network owe nothing.                                            *)
FairSpec ==
  /\ Spec
  /\ WF_vars(AdapterStep)
  /\ WF_vars(ReportPdnTypeFromWds)
  /\ WF_vars(FrameworkServes)

-----------------------------------------------------------------------------
TypeOK ==
  /\ created \subseteq Nifs
  /\ state \in [Nifs -> AgpsState]
  /\ active \in [Nifs -> SUBSET Handles]
  /\ inactive \in [Nifs -> SUBSET Handles]
  /\ queue \in Seq(Message)
  /\ wds \in Seq(Nifs)
  /\ fw \in Seq(DataConnCmd)
  /\ fwUp \in BOOLEAN
  /\ connected \in BOOLEAN
  /\ network \in Networks
  /\ modem \in [Handles -> ModemState]

(* A machine holds or seeks a connection exactly for its subscribers: none *)
(* are listed in RELEASED ("Subscriber list should be empty if we are in   *)
(* released state", Agps.cpp:201), one that still wants the call in        *)
(* PENDING and ACQUIRED, one that waits for the close in RELEASING.        *)
SubscribersMatchState ==
  \A n \in Nifs :
    /\ active[n] \intersect inactive[n] = {}
    /\ state[n] = "RELEASED" => active[n] \union inactive[n] = {}
    /\ state[n] \in {"PENDING", "ACQUIRED"} => active[n] # {}
    /\ state[n] = "RELEASING" => inactive[n] # {}

Queued(kind, h) ==
  \E i \in DOMAIN queue : queue[i].kind = kind /\ queue[i].handle = h

(* No handle of the modem is ever lost: an open request is on the queue or *)
(* its subscriber waits for a grant, an open call has an active subscriber *)
(* of a machine in ACQUIRED, a close request is on the queue or its        *)
(* subscriber waits for the release, and an idle handle has none.  So no   *)
(* event (refusal, loss, stale answer) drops a subscriber untold.          *)
ModemViewMatches ==
  \A h \in Handles :
    /\ modem[h] = "opening" =>
         \/ Queued("request", h)
         \/ \E n \in Nifs : h \in active[n] /\ state[n] \in {"PENDING", "RELEASING"}
    /\ modem[h] = "open" =>
         \E n \in Nifs : h \in active[n] /\ state[n] = "ACQUIRED"
    /\ modem[h] = "closing" =>
         Queued("release", h) \/ \E n \in Nifs : h \in inactive[n]
    /\ modem[h] = "idle" => \A n \in Nifs : ~Listed(n, h)

(* On a network that neither refuses nor loses connections, once nothing   *)
(* is in flight for the SUPL machine, the framework holds its connection   *)
(* exactly while the machine does: no order of requests, releases and late *)
(* answers leaves a connection up that nobody will release, or a machine   *)
(* in ACQUIRED without one.  (On a flaky network it may: see the README.)  *)
Settled ==
  /\ fw = <<>>
  /\ wds = <<>>
  /\ \A i \in DOMAIN queue : queue[i].kind \in {"open", "pdn", "failed", "closed"}
                               => queue[i].nif # Agnss

ConnectionMatchesState ==
  network = "steady" /\ Settled => (fwUp <=> state[Agnss] = "ACQUIRED")

(* Neither a handle of the modem nor a connection of the framework is ever *)
(* lost between the adapter's queue, the machines and the network.         *)
NothingIsLost == ModemViewMatches /\ ConnectionMatchesState

(* Every open request of the modem is answered, unless the framework names *)
(* an APN of the wrong length.                                             *)
EveryOpenAnswered ==
  \A h \in Handles :
    network # "badApn" => (modem[h] = "opening" ~> modem[h] # "opening")

(* Every close request of the modem completes, or some other handle has an *)
(* open call: the close waits for the connection to go down, and the       *)
(* machine keeps it up for whoever else uses it.                           *)
EveryCloseCompletes ==
  \A h \in Handles :
    network # "badApn" =>
      (modem[h] = "closing" ~> \/ modem[h] = "idle"
                               \/ \E g \in Handles \ {h} : modem[g] = "open")

(* The modem waits for ever neither for a connection nor for its end.      *)
EveryCallEnds == EveryOpenAnswered /\ EveryCloseCompletes

=============================================================================
