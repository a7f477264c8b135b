----------------------------- MODULE NiSession -----------------------------
(* Network-initiated requests in GnssAdapter: the modem asks for a position,  *)
(* the user is asked, a thread per request waits for the answer or its        *)
(* timeout and has the modem informed.  There are two session records, one    *)
(* for emergency SUPL (sessionEs) and one for the rest; the adapter's thread  *)
(* and the waiting threads share them, under tLock only in part.              *)
EXTENDS Naturals, Sequences, FiniteSets

CONSTANTS MaxRequests,  \* bound: requests of the modem
          MaxBacklog,   \* bound: messages waiting when the modem or a client adds one
          Worlds        \* "preempted": any interleaving; "prompt": a thread that can end
                        \* does so before the adapter goes on, and no deadline falls
                        \* between the adapter's look-up and its write

ASSUME BoundsAssumption == MaxRequests \in Nat /\ MaxBacklog \in Nat
ASSUME WorldsAssumption == Worlds \subseteq {"prompt", "preempted"}

VARIABLES queue,        \* messages of the adapter's thread
          session,      \* mNiData.session and mNiData.sessionEs
          reqIDCounter, \* mNiData.reqIDCounter
          thread,       \* niThreadProc of each session id
          writes,       \* what the adapter, past its look-up, has still to write
          callback,     \* a client with gnssNiCb is there
          request,      \* the modem's requests so far, and what became of them
          user,         \* what the client answered for each session id, and was told
          world

adapterVars == <<session, reqIDCounter, writes>>
vars == <<queue, adapterVars, thread, callback, request, user, world>>

None == 0
Requests == 1..MaxRequests
Sessions == {"es", "nonEs"}
Answers == {"accept", "deny"}
Response == Answers \cup {"noResponse", "ignore"}
Session == [rawRequest: Requests \cup {None}, reqID: Requests \cup {None},
            resp: Response, respRecvd: BOOLEAN]
(* A thread waits, or has let go of the lock, or is gone. *)
Thread == [phase: {"none", "starting", "waiting", "unlocked", "ended"},
           session: Sessions, raw: Requests \cup {None}, resp: Response]
NoThread == [phase |-> "none", session |-> "nonEs", raw |-> None, resp |-> "noResponse"]
Message ==
  [kind: {"notify"}, r: Requests]
    \cup [kind: {"answer"}, id: Requests, resp: Answers]
    \cup [kind: {"inform"}, r: Requests, resp: Response]
    \cup [kind: {"client"}]

(* Emergency SUPL requests are for sessionEs, the others for session.           *)
(* "became": what was told to the modem, or that the data was freed. *)
Request == [for: Sessions, became: Response \cup {"open", "freed", "dropped"},
            ends: Nat, asked: Requests \cup {None}, superseded: BOOLEAN]

Init ==
  /\ queue = <<>>
  /\ session = [s \in Sessions |-> [rawRequest |-> None, reqID |-> None,
                                    resp |-> "noResponse", respRecvd |-> FALSE]]
  /\ reqIDCounter = 0
  /\ thread = [i \in Requests |-> NoThread]
  /\ writes = <<>>
  /\ callback = TRUE
  /\ request = <<>>
  /\ user = [i \in Requests |-> [answered |-> "none", told |-> "none"]]
  /\ world \in Worlds

----------------------------------------------------------------------------
InProgress(s) == session[s].rawRequest # None

(* A thread that has all it needs to go on. *)
Runnable(i) ==
  \/ thread[i].phase = "unlocked"
  \/ thread[i].phase \in {"starting", "waiting"} /\ session[thread[i].session].respRecvd

AdapterRuns == world = "prompt" => \A i \in Requests : ~Runnable(i)

Take(kind) ==
  /\ AdapterRuns /\ writes = <<>>
  /\ queue # <<>> /\ Head(queue).kind = kind /\ queue' = Tail(queue)
Msg == Head(queue)

(* The modem is told, or the request's data is freed: its end. *)
End(reqs, r, how) == [reqs EXCEPT ![r].became = how, ![r].ends = @ + 1]

(* Ignore the non-emergency session: the look-up is here, the write follows. *)
IgnoreNonEs == IF InProgress("nonEs") THEN <<[session |-> "nonEs", resp |-> "ignore"]>> ELSE <<>>
Supersede(reqs) ==
  IF InProgress("nonEs") THEN [reqs EXCEPT ![session["nonEs"].rawRequest].superseded = TRUE] ELSE reqs

(* requestNiNotifyEvent answers some requests itself: emergency and other SUPL *)
(* requests may be denied, control-plane ones accepted in an emergency.        *)
NotifyDecided ==
  /\ Take("notify")
  /\ \/ request' = End(request, Msg.r, "deny")
     \/ request[Msg.r].for = "nonEs" /\ request' = End(request, Msg.r, "accept")
  /\ UNCHANGED <<adapterVars, thread, callback, user, world>>

(* requestNiNotify with nobody to ask: emergency requests are accepted, others *)
(* get no answer at all.                                                       *)
NotifyNobody ==
  /\ Take("notify")
  /\ ~callback
  /\ IF request[Msg.r].for = "es"
     THEN /\ request' = Supersede(End(request, Msg.r, "accept"))
          /\ writes' = IgnoreNonEs
     ELSE request' = End(request, Msg.r, "dropped") /\ UNCHANGED writes
  /\ UNCHANGED <<session, reqIDCounter, thread, callback, user, world>>

Busy(s) == InProgress("es") \/ (s = "nonEs" /\ InProgress("nonEs"))

NotifyBusy ==
  /\ Take("notify")
  /\ callback /\ Busy(request[Msg.r].for)
  /\ request' = End(request, Msg.r, "freed")
  /\ UNCHANGED <<adapterVars, thread, callback, user, world>>

(* A session begins: neither resp nor respRecvd is touched. *)
NotifyAsks ==
  /\ Take("notify")
  /\ callback /\ ~Busy(request[Msg.r].for)
  /\ LET s == request[Msg.r].for
         id == reqIDCounter + 1
     IN /\ reqIDCounter' = id
        /\ session' = [session EXCEPT ![s].rawRequest = Msg.r, ![s].reqID = id]
        /\ thread' = [thread EXCEPT ![id].phase = "starting", ![id].session = s, ![id].raw = Msg.r]
        /\ request' = [request EXCEPT ![Msg.r].asked = id]
  /\ UNCHANGED <<writes, callback, user, world>>

(* Mutant: any session in progress will do. *)
AnswerAnySession ==
  /\ Take("answer")
  /\ LET in == {s \in Sessions : InProgress(s)} IN
     /\ writes' = IF ~callback \/ in = {} THEN <<>>
                  ELSE <<[session |-> CHOOSE s \in in : TRUE, resp |-> Msg.resp]>>
     /\ user' = [user EXCEPT ![Msg.id].told = IF callback /\ in # {} THEN "success" ELSE "id_unknown"]
  /\ UNCHANGED <<session, reqIDCounter, thread, callback, request, world>>

(* gnssNiResponseCommand: the session is looked up without its lock. *)
AnswerLookedUp ==
  /\ Take("answer")
  /\ LET active(s) == session[s].reqID = Msg.id /\ InProgress(s)
         write(s) == <<[session |-> s, resp |-> Msg.resp]>>
         found == callback /\ \E s \in Sessions : active(s)
     IN /\ writes' = IF ~found THEN <<>>
                     ELSE IF active("es")
                     THEN (IF Msg.resp = "accept" THEN IgnoreNonEs ELSE <<>>) \o write("es")
                     ELSE write("nonEs")
        /\ request' = IF found /\ active("es") /\ Msg.resp = "accept" THEN Supersede(request) ELSE request
        /\ user' = [user EXCEPT ![Msg.id].told = IF found THEN "success" ELSE "id_unknown"]
  /\ UNCHANGED <<session, reqIDCounter, thread, callback, world>>

(* The write, under the session's lock, which a waiting thread does not hold. *)
AnswerWritten ==
  /\ writes # <<>> /\ AdapterRuns
  /\ session' = [session EXCEPT ![Head(writes).session].resp = Head(writes).resp,
                                ![Head(writes).session].respRecvd = TRUE]
  /\ writes' = Tail(writes)
  /\ UNCHANGED <<queue, reqIDCounter, thread, callback, request, user, world>>

(* informNiResponse, for a thread that has posted it. *)
Inform ==
  /\ Take("inform")
  /\ request' = End(request, Msg.r, Msg.resp)
  /\ UNCHANGED <<adapterVars, thread, callback, user, world>>

(* A client with a gnssNiCb comes or goes. *)
ClientChanges ==
  /\ Take("client")
  /\ callback' = ~callback
  /\ UNCHANGED <<adapterVars, thread, request, user, world>>

----------------------------------------------------------------------------
(* niThreadProc. *)

(* Mutants: an ignored request is passed on as well; the flag stays set. *)
LeaveInformsIgnored(i, resp) ==
  LET s == thread[i].session
      raw == session[s].rawRequest
  IN /\ session' = [session EXCEPT ![s].resp = resp, ![s].respRecvd = FALSE, ![s].rawRequest = None]
     /\ thread' = [thread EXCEPT ![i].phase = "unlocked", ![i].resp = resp, ![i].raw = raw]
     /\ request' = IF raw # None /\ resp = "ignore" THEN End(request, raw, "ignore") ELSE request
     /\ UNCHANGED <<queue, reqIDCounter, writes, callback, user, world>>

(* The loop is left: the flag is reset, the request taken, the lock let go.    *)
Leave(i, resp) ==
  LET s == thread[i].session
      raw == session[s].rawRequest
  IN /\ session' = [session EXCEPT ![s].resp = resp, ![s].respRecvd = FALSE, ![s].rawRequest = None]
     /\ thread' = [thread EXCEPT ![i].phase = "unlocked", ![i].resp = resp,
                                 ![i].raw = IF resp = "ignore" THEN None ELSE raw]
     /\ request' = IF raw # None /\ resp = "ignore" THEN End(request, raw, "ignore") ELSE request
     /\ UNCHANGED <<queue, reqIDCounter, writes, callback, user, world>>

ThreadWaits(i) ==
  /\ thread[i].phase = "starting" /\ ~session[thread[i].session].respRecvd
  /\ thread' = [thread EXCEPT ![i].phase = "waiting"]
  /\ UNCHANGED <<queue, adapterVars, callback, request, user, world>>

ThreadAnswered(i) ==
  /\ thread[i].phase \in {"starting", "waiting"} /\ session[thread[i].session].respRecvd
  /\ Leave(i, session[thread[i].session].resp)

(* The time is over, whether or not an answer was written in the meantime. *)
ThreadTimesOut(i) ==
  /\ thread[i].phase = "waiting"
  /\ world = "prompt" => writes = <<>> /\ ~session[thread[i].session].respRecvd
  /\ Leave(i, "noResponse")

(* respTimeLeft and reqID are cleared without the lock, then the modem is told. *)
ThreadEnds(i) ==
  /\ thread[i].phase = "unlocked"
  /\ session' = [session EXCEPT ![thread[i].session].reqID = None]
  /\ thread' = [thread EXCEPT ![i] = [NoThread EXCEPT !.phase = "ended"]]
  /\ queue' = IF thread[i].raw # None
              THEN Append(queue, [kind |-> "inform", r |-> thread[i].raw, resp |-> thread[i].resp])
              ELSE queue
  /\ UNCHANGED <<reqIDCounter, writes, callback, request, user, world>>

----------------------------------------------------------------------------
(* The modem's and the clients' threads. *)

Room == Len(queue) < MaxBacklog

(* requestNiNotifyEvent *)
RequestNi ==
  /\ Room /\ Len(request) < MaxRequests
  /\ \E s \in Sessions :
       request' = Append(request, [for |-> s, became |-> "open", ends |-> 0, asked |-> None,
                                   superseded |-> FALSE])
  /\ queue' = Append(queue, [kind |-> "notify", r |-> Len(request) + 1])
  /\ UNCHANGED <<adapterVars, thread, callback, user, world>>

(* A client answers what it was asked, once. *)
ClientAnswers ==
  /\ Room
  /\ \E i \in 1..reqIDCounter, a \in Answers :
       /\ user[i].answered = "none"
       /\ user' = [user EXCEPT ![i].answered = a]
       /\ queue' = Append(queue, [kind |-> "answer", id |-> i, resp |-> a])
  /\ UNCHANGED <<adapterVars, thread, callback, request, world>>

ClientComesOrGoes ==
  /\ Room /\ ~\E i \in DOMAIN queue : queue[i].kind = "client"
  /\ Len(request) < MaxRequests
  /\ queue' = Append(queue, [kind |-> "client"])
  /\ UNCHANGED <<adapterVars, thread, callback, request, user, world>>

----------------------------------------------------------------------------
AdapterStep ==
  \/ NotifyDecided \/ NotifyNobody \/ NotifyBusy \/ NotifyAsks
  \/ AnswerLookedUp \/ AnswerWritten \/ Inform \/ ClientChanges

ThreadStep(i) == ThreadWaits(i) \/ ThreadAnswered(i) \/ ThreadTimesOut(i) \/ ThreadEnds(i)

Next ==
  \/ AdapterStep
  \/ \E i \in Requests : ThreadStep(i)
  \/ RequestNi \/ ClientAnswers \/ ClientComesOrGoes

Spec == Init /\ [][Next]_vars

(* The adapter's thread and every NI thread run; the modem and the clients     *)
(* need not do anything more.                                                  *)
FairSpec == Spec /\ WF_vars(AdapterStep) /\ \A i \in Requests : WF_vars(ThreadStep(i))

----------------------------------------------------------------------------
(* Properties. *)

TypeOK ==
  /\ queue \in Seq(Message)
  /\ session \in [Sessions -> Session]
  /\ reqIDCounter \in 0..MaxRequests
  /\ thread \in [Requests -> Thread]
  /\ writes \in Seq([session: Sessions, resp: Response])
  /\ callback \in BOOLEAN
  /\ request \in Seq(Request)
  /\ user \in [Requests -> [answered: Answers \cup {"none"}, told: {"none", "success", "id_unknown"}]]
  /\ world \in Worlds

(* No request is answered twice, nor its data freed twice or freed after it    *)
(* was passed to the modem: in any interleaving.                               *)
EndsOnce == \A r \in DOMAIN request : request[r].ends <= 1

(* However threads, answers and deadlines interleave, no request ends twice    *)
(* and none stays open: once the modem has made its last one (the bound), all  *)
(* end, or are dropped because there is nobody to ask.                         *)
EveryRequestEndsOnce ==
  /\ [](TypeOK /\ EndsOnce)
  /\ <>[](\A r \in DOMAIN request : request[r].ends = 1)

(* What the modem is told of a request the user was asked about is what the    *)
(* user answered to that very request, and it is told if the client was told   *)
(* SUCCESS.                                                                    *)
AnswersAreTheUsers ==
  \A r \in DOMAIN request : LET i == request[r].asked IN i # None =>
    /\ request[r].became \in Answers => request[r].became = user[i].answered
    /\ user[i].told = "success" /\ request[r].ends > 0 => request[r].became = user[i].answered

(* An answer to a request that is still being waited for finds its session.    *)
AnswersFindTheirSessions ==
  \A i \in Requests : thread[i].phase = "waiting" =>
    session[thread[i].session].reqID = i /\ session[thread[i].session].rawRequest = thread[i].raw

(* "ignore any SUPL NI non-Es session if a SUPL NI ES is accepted": such a     *)
(* session is not accepted any more.                                           *)
EsAcceptedComesFirst ==
  \A r \in DOMAIN request : request[r].superseded => request[r].became # "accept"

(* When no thread is preempted while it ends, the user decides on each request *)
(* asked about, and an emergency it accepts comes first.  (A preempted thread  *)
(* can leave an old answer, or lose the id, for the session begun after it.)   *)
UserDecides ==
  world = "prompt" => AnswersAreTheUsers /\ AnswersFindTheirSessions /\ EsAcceptedComesFirst

=============================================================================
