--------------------------- MODULE NiSessionProofs ---------------------------
(* Proofs about NiSession for any number of requests, any backlog and any kind *)
(* of interleaving: no request of the modem ends twice; and where no thread is *)
(* preempted while it ends, the user decides.                                  *)
EXTENDS NiSession, Integers, TLAPS

----------------------------------------------------------------------------
(* Where a request that has not ended can be: in a message to notify of it or  *)
(* to inform the modem, in a session record, or with a thread that has left    *)
(* its loop and will post its answer.                                          *)

Carries(m) == m.kind \in {"notify", "inform"}
Passes(i)  == thread[i].phase = "unlocked" /\ thread[i].raw # None
Waits(i)   == thread[i].phase \in {"starting", "waiting"}
Open(r)    == r \in DOMAIN request /\ request[r].ends = 0

OnlyOpenAreHeld ==
  /\ \A k \in DOMAIN queue : Carries(queue[k]) => Open(queue[k].r)
  /\ \A s \in Sessions : InProgress(s) => Open(session[s].rawRequest)
  /\ \A i \in Requests : Passes(i) => Open(thread[i].raw)

HeldOnce ==
  /\ \A k, l \in DOMAIN queue :
       k # l /\ Carries(queue[k]) /\ Carries(queue[l]) => queue[k].r # queue[l].r
  /\ \A s, t \in Sessions :
       s # t /\ InProgress(s) => session[s].rawRequest # session[t].rawRequest
  /\ \A i, j \in Requests : i # j /\ Passes(i) /\ Passes(j) => thread[i].raw # thread[j].raw
  /\ \A k \in DOMAIN queue, s \in Sessions :
       Carries(queue[k]) => queue[k].r # session[s].rawRequest
  /\ \A k \in DOMAIN queue, i \in Requests :
       Carries(queue[k]) /\ Passes(i) => queue[k].r # thread[i].raw
  /\ \A s \in Sessions, i \in Requests : Passes(i) => session[s].rawRequest # thread[i].raw

(* The id of a new session is fresh and within the bound: requests are looked  *)
(* at in the order they came in.                                               *)
IdsAreFresh ==
  /\ reqIDCounter <= Len(request) /\ Len(request) <= MaxRequests
  /\ \A i \in Requests : thread[i].phase = "none" <=> i > reqIDCounter
  /\ \A k \in DOMAIN queue : queue[k].kind = "notify" => reqIDCounter < queue[k].r
  /\ \A k, l \in DOMAIN queue :
       k < l /\ queue[k].kind = "notify" /\ queue[l].kind = "notify" => queue[k].r < queue[l].r

(* A session in progress belongs to the one thread that waits for its answer.  *)
WaitsForItsOwn ==
  /\ \A i \in Requests : Waits(i) =>
       InProgress(thread[i].session) /\ session[thread[i].session].rawRequest = thread[i].raw
  /\ \A i, j \in Requests : Waits(i) /\ Waits(j) /\ i # j => thread[i].session # thread[j].session
  /\ \A s \in Sessions : InProgress(s) => \E i \in Requests : Waits(i) /\ thread[i].session = s

IInv == TypeOK /\ OnlyOpenAreHeld /\ HeldOnce /\ IdsAreFresh /\ WaitsForItsOwn /\ EndsOnce

----------------------------------------------------------------------------
(* Where no thread is preempted.  What may be told of request r: nothing that  *)
(* its user did not answer, and what the user answered if the client was told  *)
(* SUCCESS; no acceptance of a superseded one.                                 *)
FitsIn(reqs, users, r, resp) ==
  /\ reqs[r].asked # None =>
       /\ resp \in Answers => resp = users[reqs[r].asked].answered
       /\ users[reqs[r].asked].told = "success" => resp = users[reqs[r].asked].answered
  /\ reqs[r].superseded => resp # "accept"
Fits(r, resp) == FitsIn(request, user, r, resp)

SettledIn(reqs, users, r) ==
  \/ reqs[r].superseded
  \/ reqs[r].asked # None /\ users[reqs[r].asked].told = "success"
Settles(r) == SettledIn(request, user, r)

(* Every answer on its way fits the request it is on its way to.               *)
AnswersFit ==
  /\ \A r \in DOMAIN request :
       IF request[r].ends = 0 THEN request[r].became = "open" ELSE Fits(r, request[r].became)
  /\ \A k \in DOMAIN queue :
       /\ queue[k].kind = "inform" => Fits(queue[k].r, queue[k].resp)
       /\ queue[k].kind = "notify" => ~Settles(queue[k].r) /\ request[queue[k].r].asked = None
  /\ \A i \in Requests : Passes(i) => Fits(thread[i].raw, thread[i].resp)
  /\ \A s \in Sessions : InProgress(s) =>
       IF session[s].respRecvd THEN Fits(session[s].rawRequest, session[s].resp)
       ELSE Settles(session[s].rawRequest) => \E k \in DOMAIN writes : writes[k].session = s

(* What is to be written goes to sessions that still wait, each of them once.  *)
WritesAreAwaited ==
  /\ \A k \in DOMAIN writes : LET s == writes[k].session IN
       /\ InProgress(s) /\ ~session[s].respRecvd
       /\ Fits(session[s].rawRequest, writes[k].resp)
  /\ \A k, l \in DOMAIN writes : k # l => writes[k].session # writes[l].session
  /\ \A s \in Sessions : session[s].respRecvd => InProgress(s)

(* Ids lead from requests to threads, sessions and users' answers.             *)
IdsAgree ==
  /\ \A i \in Requests : Waits(i) =>
       session[thread[i].session].reqID = i /\ request[thread[i].raw].asked = i
  /\ \A i, j \in Requests :
       thread[i].phase = "unlocked" /\ Waits(j) => thread[i].session # thread[j].session
  /\ \A r \in DOMAIN request : request[r].asked <= reqIDCounter
  /\ \A r, q \in DOMAIN request :
       r # q /\ request[r].asked # None => request[r].asked # request[q].asked
  /\ \A i \in Requests : i > reqIDCounter => user[i].answered = "none"
  /\ \A i \in Requests : user[i].told # "none" => user[i].answered # "none"
  /\ \A k \in DOMAIN queue :
       queue[k].kind = "answer" => user[queue[k].id].answered = queue[k].resp

PromptInv == world = "prompt" => AnswersFit /\ WritesAreAwaited /\ IdsAgree

----------------------------------------------------------------------------
(* Queues: where the elements of a tail and of an extended queue come from.    *)

LEMMA TailElements ==
  ASSUME NEW S, NEW q \in Seq(S), q # <<>>
  PROVE  /\ Head(q) \in S /\ Tail(q) \in Seq(S)
         /\ 1 \in DOMAIN q /\ q[1] = Head(q) /\ DOMAIN q \subseteq Int
         /\ DOMAIN Tail(q) \subseteq Int
         /\ \A k \in DOMAIN Tail(q) : k + 1 \in DOMAIN q /\ k + 1 # 1 /\ Tail(q)[k] = q[k + 1]
  OBVIOUS

LEMMA AppendElements ==
  ASSUME NEW S, NEW q \in Seq(S), NEW m \in S
  PROVE  /\ Append(q, m) \in Seq(S) /\ Len(q) + 1 \notin DOMAIN q
         /\ DOMAIN q \subseteq Int /\ DOMAIN Append(q, m) = DOMAIN q \cup {Len(q) + 1}
         /\ \A k \in DOMAIN q : k < Len(q) + 1 /\ Append(q, m)[k] = q[k]
         /\ Append(q, m)[Len(q) + 1] = m
  OBVIOUS

LEMMA IInvInit == Init => IInv
<1> SUFFICES ASSUME Init
             PROVE  IInv
  OBVIOUS
<1>1. TypeOK
  <2>1. session \in [Sessions -> Session] /\ thread \in [Requests -> Thread]
    BY DEF Init, Session, Thread, NoThread, Sessions, Response, None
  <2>2. queue \in Seq(Message) /\ request \in Seq(Request) /\ writes \in Seq([session: Sessions, resp: Response])
    BY DEF Init
  <2>3. user \in [Requests -> [answered: Answers \cup {"none"}, told: {"none", "success", "id_unknown"}]]
    BY DEF Init
  <2>4. reqIDCounter \in 0..MaxRequests /\ callback \in BOOLEAN /\ world \in Worlds
    BY BoundsAssumption DEF Init
  <2> QED
    BY <2>1, <2>2, <2>3, <2>4 DEF TypeOK
<1>2. \A i \in Requests : thread[i].phase = "none"
  BY DEF Init, NoThread
<1>3. \A s \in Sessions : ~InProgress(s)
  BY DEF Init, InProgress
<1>4. \A i \in Requests : ~Passes(i) /\ ~Waits(i)
  BY <1>2 DEF Passes, Waits
<1>5. queue = <<>> /\ request = <<>>
  BY DEF Init
<1>6. OnlyOpenAreHeld /\ HeldOnce
  BY <1>3, <1>4, <1>5 DEF OnlyOpenAreHeld, HeldOnce
<1>7. IdsAreFresh
  BY <1>2, <1>5, BoundsAssumption DEF Init, IdsAreFresh, Requests
<1>8. WaitsForItsOwn /\ EndsOnce
  BY <1>3, <1>4, <1>5 DEF WaitsForItsOwn, EndsOnce
<1> QED
  BY <1>1, <1>6, <1>7, <1>8 DEF IInv

(* A message is taken: what was on the queue behind it is there still.         *)
LEMMA TakeFacts ==
  ASSUME IInv, NEW kind, Take(kind)
  PROVE  /\ Msg \in Message /\ Msg.kind = kind /\ queue' \in Seq(Message)
         /\ 1 \in DOMAIN queue /\ queue[1] = Msg /\ DOMAIN queue' \subseteq Int
         /\ \A k \in DOMAIN queue' :
              k + 1 \in DOMAIN queue /\ k + 1 # 1 /\ 1 < k + 1 /\ queue'[k] = queue[k + 1]
  <1>1. queue \in Seq(Message) /\ queue # <<>> /\ queue' = Tail(queue) /\ Msg.kind = kind
    BY DEF IInv, TypeOK, Take, Msg
  <1>2. \A k \in DOMAIN Tail(queue) : 1 < k + 1
    BY <1>1
  <1> QED
    BY <1>1, <1>2, TailElements DEF Msg

Became == Response \cup {"open", "freed", "dropped"}

LEMMA EndFacts ==
  ASSUME NEW reqs \in Seq(Request), NEW r \in DOMAIN reqs, NEW how \in Became
  PROVE  /\ End(reqs, r, how) \in Seq(Request) /\ Len(End(reqs, r, how)) = Len(reqs)
         /\ DOMAIN End(reqs, r, how) = DOMAIN reqs
         /\ End(reqs, r, how)[r].became = how /\ End(reqs, r, how)[r].ends = reqs[r].ends + 1
         /\ \A q \in DOMAIN reqs : /\ End(reqs, r, how)[q].asked = reqs[q].asked
                                  /\ End(reqs, r, how)[q].superseded = reqs[q].superseded
         /\ \A q \in DOMAIN reqs : q # r => End(reqs, r, how)[q] = reqs[q]
<1> DEFINE e == [reqs[r] EXCEPT !.became = how, !.ends = @ + 1]
<1>1. e \in Request
  <2>1. reqs[r] \in Request
    OBVIOUS
  <2> DEFINE y == [reqs[r] EXCEPT !.became = how]
  <2>2. y \in Request /\ reqs[r].ends + 1 \in Nat
    <3>1. \A x \in Request : [x EXCEPT !.became = how] \in Request /\ x.ends + 1 \in Nat
      BY DEF Request, Became
    <3> QED
      BY <2>1, <3>1
  <2>3. e = [y EXCEPT !.ends = reqs[r].ends + 1]
    OBVIOUS
  <2> HIDE DEF y
  <2>4. \A x \in Request, n \in Nat : [x EXCEPT !.ends = n] \in Request
    BY DEF Request
  <2> HIDE DEF e
  <2> QED
    BY <2>2, <2>3, <2>4
<1>2. End(reqs, r, how) = [reqs EXCEPT ![r] = e]
  BY DEF End
<1> HIDE DEF e
<1>3. [reqs EXCEPT ![r] = e] \in Seq(Request)
  BY <1>1
<1>4. Len([reqs EXCEPT ![r] = e]) = Len(reqs) /\ DOMAIN [reqs EXCEPT ![r] = e] = DOMAIN reqs
  OBVIOUS
<1>5. [reqs EXCEPT ![r] = e][r] = e /\ \A q \in DOMAIN reqs : q # r => [reqs EXCEPT ![r] = e][q] = reqs[q]
  OBVIOUS
<1>6. e.became = how /\ e.ends = reqs[r].ends + 1 /\ e.asked = reqs[r].asked /\ e.superseded = reqs[r].superseded
  <2> DEFINE y == [reqs[r] EXCEPT !.became = how]
  <2>1. reqs[r] \in Request
    OBVIOUS
  <2>2. y \in Request /\ y.became = how /\ y.asked = reqs[r].asked /\ y.superseded = reqs[r].superseded
    <3>1. \A x \in Request : LET z == [x EXCEPT !.became = how] IN
             z \in Request /\ z.became = how /\ z.asked = x.asked /\ z.superseded = x.superseded
      BY DEF Request, Became
    <3> QED
      BY <2>1, <3>1
  <2>3. e = [y EXCEPT !.ends = reqs[r].ends + 1]
    BY DEF e
  <2>4. \A x \in Request, n \in Nat : LET z == [x EXCEPT !.ends = n] IN
           z.ends = n /\ z.became = x.became /\ z.asked = x.asked /\ z.superseded = x.superseded
    BY DEF Request
  <2>5. reqs[r].ends + 1 \in Nat
    BY <2>1 DEF Request
  <2> HIDE DEF y
  <2> QED
    BY <2>2, <2>3, <2>4, <2>5
<1> QED
  BY <1>2, <1>3, <1>4, <1>5, <1>6

LEMMA SupersedeFacts ==
  ASSUME NEW reqs \in Seq(Request), InProgress("nonEs") => session["nonEs"].rawRequest \in DOMAIN reqs
  PROVE  /\ Supersede(reqs) \in Seq(Request) /\ Len(Supersede(reqs)) = Len(reqs)
         /\ DOMAIN Supersede(reqs) = DOMAIN reqs
         /\ \A q \in DOMAIN reqs :
              /\ Supersede(reqs)[q].ends = reqs[q].ends /\ Supersede(reqs)[q].became = reqs[q].became
              /\ Supersede(reqs)[q].asked = reqs[q].asked
              /\ InProgress("nonEs") /\ q = session["nonEs"].rawRequest => Supersede(reqs)[q].superseded = TRUE
              /\ ~(InProgress("nonEs") /\ q = session["nonEs"].rawRequest) => Supersede(reqs)[q] = reqs[q]
<1> DEFINE r == session["nonEs"].rawRequest
           e == [reqs[r] EXCEPT !.superseded = TRUE]
<1>1. CASE InProgress("nonEs")
  <2>1. r \in DOMAIN reqs /\ e \in Request
    <3>1. \A x \in Request : [x EXCEPT !.superseded = TRUE] \in Request
      BY DEF Request
    <3>2. r \in DOMAIN reqs /\ reqs[r] \in Request
      BY <1>1
    <3> QED
      BY <3>1, <3>2
  <2>2. Supersede(reqs) = [reqs EXCEPT ![r] = e]
    BY <1>1 DEF Supersede
  <2> HIDE DEF e
  <2>3. [reqs EXCEPT ![r] = e] \in Seq(Request)
    BY <2>1
  <2>4. \A q \in DOMAIN reqs : q # r => Supersede(reqs)[q] = reqs[q]
    BY <2>2
  <2>5. Supersede(reqs)[r] = e
    BY <2>1, <2>2
  <2>6. Len(Supersede(reqs)) = Len(reqs) /\ DOMAIN Supersede(reqs) = DOMAIN reqs
    BY <2>1, <2>2
  <2>7. e.ends = reqs[r].ends /\ e.became = reqs[r].became /\ e.asked = reqs[r].asked /\ e.superseded = TRUE
    <3>1. \A x \in Request : LET z == [x EXCEPT !.superseded = TRUE] IN
             z.ends = x.ends /\ z.became = x.became /\ z.asked = x.asked /\ z.superseded = TRUE
      BY DEF Request
    <3>2. reqs[r] \in Request
      BY <2>1
    <3> QED
      BY <3>1, <3>2 DEF e
  <2>8. Supersede(reqs) \in Seq(Request)
    BY <2>2, <2>3
  <2> QED
    BY <1>1, <2>1, <2>4, <2>5, <2>6, <2>7, <2>8
<1>2. CASE ~InProgress("nonEs")
  BY <1>2 DEF Supersede
<1> QED
  BY <1>1, <1>2

(* The requests in messages and sessions are requests there are.               *)
LEMMA HeldAreRequests ==
  ASSUME IInv
  PROVE  /\ DOMAIN request = 1..Len(request) /\ DOMAIN request \subseteq Requests
         /\ \A m \in Message : Carries(m) => m.r \in Requests
         /\ \A k \in DOMAIN queue : Carries(queue[k]) => queue[k].r \in DOMAIN request
         /\ \A s \in Sessions : session[s].rawRequest \in Requests \cup {None}
         /\ \A s \in Sessions : InProgress(s) => session[s].rawRequest \in DOMAIN request
<1>1. DOMAIN request = 1..Len(request) /\ Len(request) \in Nat
  BY DEF IInv, TypeOK
<1>2. \A m \in Message : Carries(m) => m.r \in Requests
  BY DEF Message, Carries
<1>3. \A s \in Sessions : session[s].rawRequest \in Requests \cup {None}
  BY DEF IInv, TypeOK, Session
<1> QED
  BY <1>1, <1>2, <1>3, BoundsAssumption DEF IInv, IdsAreFresh, OnlyOpenAreHeld, Open, Requests

(* A message that carries a request is taken, and the request ends.            *)
LEMMA EndTakenKeepsIInv ==
  ASSUME IInv, NEW kind \in {"notify", "inform"}, Take(kind),
         UNCHANGED <<session, reqIDCounter, thread, user, world>>, callback' \in BOOLEAN,
         writes' \in Seq([session: Sessions, resp: Response]),
         request' \in Seq(Request), DOMAIN request' = DOMAIN request, Len(request') = Len(request),
         request'[Msg.r].ends = request[Msg.r].ends + 1,
         \A r \in DOMAIN request : r # Msg.r => request'[r].ends = request[r].ends
  PROVE  IInv'
<1> USE DEF IInv
<1>1. /\ Msg.kind = kind /\ queue' \in Seq(Message)
      /\ 1 \in DOMAIN queue /\ queue[1] = Msg /\ DOMAIN queue' \subseteq Int
      /\ \A k \in DOMAIN queue' :
           k + 1 \in DOMAIN queue /\ k + 1 # 1 /\ 1 < k + 1 /\ queue'[k] = queue[k + 1]
  BY TakeFacts
<1>2. Carries(Msg) /\ Open(Msg.r)
  BY <1>1 DEF Carries, OnlyOpenAreHeld
<1>3. TypeOK'
  BY <1>1 DEF TypeOK
<1>4. \A r : Open(r) /\ r # Msg.r => Open(r)'
  BY DEF Open
<1>5. /\ \A s \in Sessions : InProgress(s) => session[s].rawRequest # Msg.r
      /\ \A i \in Requests : Passes(i) => thread[i].raw # Msg.r
      /\ \A k \in DOMAIN queue : k # 1 /\ Carries(queue[k]) => queue[k].r # Msg.r
  BY <1>1, <1>2 DEF HeldOnce
<1>6. OnlyOpenAreHeld'
  BY <1>1, <1>4, <1>5 DEF OnlyOpenAreHeld, InProgress, Passes
<1>7. HeldOnce'
  <2>1. \A k, l \in DOMAIN queue' : k # l => k + 1 # l + 1
    BY <1>1
  <2> QED
    BY <1>1, <2>1 DEF HeldOnce, InProgress, Passes
<1>8. IdsAreFresh'
  <2>1. \A k, l \in DOMAIN queue' : k < l => k + 1 < l + 1
    BY <1>1
  <2> QED
    BY <1>1, <2>1 DEF IdsAreFresh
<1>9. WaitsForItsOwn'
  BY DEF WaitsForItsOwn, Waits, InProgress
<1>10. EndsOnce'
  BY <1>2 DEF EndsOnce, Open
<1> QED
  BY <1>3, <1>6, <1>7, <1>8, <1>9, <1>10

(* Another message is taken, and no request ends.                              *)
LEMMA OtherTakenKeepsIInv ==
  ASSUME IInv, NEW kind \in {"answer", "client"}, Take(kind),
         UNCHANGED <<session, reqIDCounter, thread, world>>, callback' \in BOOLEAN,
         user' \in [Requests -> [answered: Answers \cup {"none"}, told: {"none", "success", "id_unknown"}]],
         writes' \in Seq([session: Sessions, resp: Response]),
         request' \in Seq(Request), DOMAIN request' = DOMAIN request, Len(request') = Len(request),
         \A r \in DOMAIN request : request'[r].ends = request[r].ends
  PROVE  IInv'
<1> USE DEF IInv
<1>1. /\ queue' \in Seq(Message) /\ DOMAIN queue' \subseteq Int
      /\ \A k \in DOMAIN queue' : k + 1 \in DOMAIN queue /\ queue'[k] = queue[k + 1]
  BY TakeFacts
<1>2. \A k, l \in DOMAIN queue' : (k # l => k + 1 # l + 1) /\ (k < l => k + 1 < l + 1)
  BY <1>1
<1>3. TypeOK'
  BY <1>1 DEF TypeOK
<1>4. \A r : Open(r) => Open(r)'
  BY DEF Open
<1>5. OnlyOpenAreHeld'
  BY <1>1, <1>4 DEF OnlyOpenAreHeld, InProgress, Passes
<1>6. HeldOnce'
  BY <1>1, <1>2 DEF HeldOnce, InProgress, Passes
<1>7. IdsAreFresh'
  BY <1>1, <1>2 DEF IdsAreFresh
<1>8. WaitsForItsOwn'
  BY DEF WaitsForItsOwn, Waits, InProgress
<1>9. EndsOnce'
  BY DEF EndsOnce
<1> QED
  BY <1>3, <1>5, <1>6, <1>7, <1>8, <1>9

----------------------------------------------------------------------------
(* The adapter's steps.                                                        *)

Write == [session: Sessions, resp: Response]

LEMMA WriteFacts ==
  /\ IgnoreNonEs \in Seq(Write)
  /\ \A s \in Sessions, a \in Response : <<[session |-> s, resp |-> a]>> \in Seq(Write)
  /\ \A p, q \in Seq(Write) : p \o q \in Seq(Write)
<1>1. \A s \in Sessions, a \in Response : [session |-> s, resp |-> a] \in Write
  BY DEF Write
<1>2. \A w \in Write : <<w>> \in Seq(Write)
  OBVIOUS
<1>3. \A s \in Sessions, a \in Response : <<[session |-> s, resp |-> a]>> \in Seq(Write)
  BY <1>1, <1>2
<1>4. IgnoreNonEs \in Seq(Write)
  <2>1. "nonEs" \in Sessions /\ "ignore" \in Response
    BY DEF Sessions, Response
  <2>2. <<>> \in Seq(Write)
    OBVIOUS
  <2>3. IgnoreNonEs = <<[session |-> "nonEs", resp |-> "ignore"]>> \/ IgnoreNonEs = <<>>
    BY DEF IgnoreNonEs
  <2> QED
    BY <1>3, <2>1, <2>2, <2>3
<1>5. \A p, q \in Seq(Write) : p \o q \in Seq(Write)
  OBVIOUS
<1> QED
  BY <1>3, <1>4, <1>5

LEMMA NotifyEndsKeepIInv == IInv /\ (NotifyDecided \/ NotifyNobody \/ NotifyBusy \/ Inform) => IInv'
<1> SUFFICES ASSUME IInv, NotifyDecided \/ NotifyNobody \/ NotifyBusy \/ Inform
             PROVE  IInv'
  OBVIOUS
<1>1. request \in Seq(Request) /\ callback \in BOOLEAN /\ writes \in Seq([session: Sessions, resp: Response])
  BY DEF IInv, TypeOK
<1>2. \A kind \in {"notify", "inform"} :
        Take(kind) => Msg \in Message /\ Msg.kind = kind /\ Carries(Msg) /\ Msg.r \in DOMAIN request
  BY TakeFacts, HeldAreRequests DEF Carries
<1>3. ASSUME NEW kind \in {"notify", "inform"}, Take(kind),
             UNCHANGED <<session, reqIDCounter, thread, callback, user, world>>,
             writes' \in Seq([session: Sessions, resp: Response]),
             NEW how \in Became, request' = End(request, Msg.r, how)
      PROVE  IInv'
  BY <1>1, <1>2, <1>3, EndFacts, EndTakenKeepsIInv
<1>4. CASE NotifyDecided
  <2>1. PICK how \in {"deny", "accept"} : request' = End(request, Msg.r, how)
    BY <1>4 DEF NotifyDecided
  <2>2. how \in Became
    BY DEF Became, Response, Answers
  <2> QED
    BY <1>1, <1>3, <1>4, <2>1, <2>2 DEF NotifyDecided, adapterVars
<1>5. CASE NotifyNobody
  <2>1. Take("notify") /\ UNCHANGED <<session, reqIDCounter, thread, callback, user, world>>
    BY <1>5 DEF NotifyNobody
  <2>2. CASE request[Msg.r].for = "es"
    <3> DEFINE mid == End(request, Msg.r, "accept")
    <3>1. request' = Supersede(mid) /\ writes' = IgnoreNonEs
      BY <1>5, <2>2 DEF NotifyNobody
    <3>2. "accept" \in Became
      BY DEF Became, Response, Answers
    <3>3. /\ mid \in Seq(Request) /\ Len(mid) = Len(request) /\ DOMAIN mid = DOMAIN request
          /\ mid[Msg.r].ends = request[Msg.r].ends + 1
          /\ \A q \in DOMAIN request : q # Msg.r => mid[q] = request[q]
      BY <1>1, <1>2, <2>1, <3>2, EndFacts
    <3> HIDE DEF mid
    <3>4. /\ Supersede(mid) \in Seq(Request) /\ Len(Supersede(mid)) = Len(mid)
          /\ DOMAIN Supersede(mid) = DOMAIN mid
          /\ \A q \in DOMAIN mid : Supersede(mid)[q].ends = mid[q].ends
      BY <3>3, HeldAreRequests, SupersedeFacts DEF Sessions
    <3>5. IgnoreNonEs \in Seq([session: Sessions, resp: Response])
      BY WriteFacts DEF Write
    <3>6. Msg.r \in DOMAIN request
      BY <1>2, <2>1
    <3> QED
      BY <1>1, <2>1, <3>1, <3>3, <3>4, <3>5, <3>6, EndTakenKeepsIInv
  <2>3. CASE request[Msg.r].for # "es"
    <3>1. request' = End(request, Msg.r, "dropped") /\ writes' = writes
      BY <1>5, <2>3 DEF NotifyNobody
    <3> QED
      BY <1>1, <1>3, <2>1, <3>1 DEF Became
  <2> QED
    BY <2>2, <2>3
<1>6. CASE NotifyBusy
  <2>1. "freed" \in Became
    BY DEF Became
  <2> QED
    BY <1>1, <1>3, <1>6, <2>1 DEF NotifyBusy, adapterVars
<1>7. CASE Inform
  <2>1. Msg.resp \in Became
    BY <1>2, <1>7 DEF Inform, Message, Became
  <2> QED
    BY <1>1, <1>3, <1>7, <2>1 DEF Inform, adapterVars
<1> QED
  BY <1>4, <1>5, <1>6, <1>7

LEMMA AnswerKeepsIInv == IInv /\ (AnswerLookedUp \/ ClientChanges) => IInv'
<1> SUFFICES ASSUME IInv, AnswerLookedUp \/ ClientChanges
             PROVE  IInv'
  OBVIOUS
<1> DEFINE Users == [answered: Answers \cup {"none"}, told: {"none", "success", "id_unknown"}]
<1>1. /\ request \in Seq(Request) /\ callback \in BOOLEAN
      /\ writes \in Seq([session: Sessions, resp: Response])
      /\ user \in [Requests -> Users]
  BY DEF IInv, TypeOK
<1>2. CASE AnswerLookedUp
  <2>1. Take("answer") /\ UNCHANGED <<session, reqIDCounter, thread, callback, world>>
    BY <1>2 DEF AnswerLookedUp
  <2>2. Msg \in Message /\ Msg.kind = "answer"
    BY <2>1, TakeFacts
  <2>3. Msg.resp \in Response
    BY <2>2 DEF Message, Response
  <2>4. writes' \in Seq([session: Sessions, resp: Response])
    <3>1. /\ <<[session |-> "es", resp |-> Msg.resp]>> \in Seq(Write)
          /\ <<[session |-> "nonEs", resp |-> Msg.resp]>> \in Seq(Write)
      BY <2>3, WriteFacts DEF Sessions
    <3>2. <<>> \in Seq(Write) /\ IgnoreNonEs \in Seq(Write)
      BY WriteFacts
    <3>3. \/ writes' = <<>>
          \/ writes' = IgnoreNonEs \o <<[session |-> "es", resp |-> Msg.resp]>>
          \/ writes' = <<>> \o <<[session |-> "es", resp |-> Msg.resp]>>
          \/ writes' = <<[session |-> "nonEs", resp |-> Msg.resp]>>
      BY <1>2 DEF AnswerLookedUp
    <3>4. writes' \in Seq(Write)
      BY <3>1, <3>2, <3>3, WriteFacts
    <3> QED
      BY <3>4 DEF Write
  <2>5. /\ request' \in Seq(Request) /\ DOMAIN request' = DOMAIN request /\ Len(request') = Len(request)
        /\ \A r \in DOMAIN request : request'[r].ends = request[r].ends
    <3>1. request' = Supersede(request) \/ request' = request
      BY <1>2 DEF AnswerLookedUp
    <3>2. InProgress("nonEs") => session["nonEs"].rawRequest \in DOMAIN request
      BY HeldAreRequests DEF Sessions
    <3>3. /\ Supersede(request) \in Seq(Request) /\ Len(Supersede(request)) = Len(request)
          /\ DOMAIN Supersede(request) = DOMAIN request
          /\ \A r \in DOMAIN request : Supersede(request)[r].ends = request[r].ends
      BY <1>1, <3>2, SupersedeFacts
    <3>4. CASE request' = Supersede(request)
      BY <3>3, <3>4
    <3>5. CASE request' = request
      BY <1>1, <3>5
    <3> QED
      BY <3>1, <3>4, <3>5
  <2>6. user' \in [Requests -> Users]
    <3>1. PICK t \in {"success", "id_unknown"} : user' = [user EXCEPT ![Msg.id].told = t]
      BY <1>2 DEF AnswerLookedUp
    <3>2. \A x \in Users : [x EXCEPT !.told = t] \in Users
      BY <3>1
    <3> QED
      BY <1>1, <3>1, <3>2
  <2> QED
    BY <1>1, <2>1, <2>4, <2>5, <2>6, OtherTakenKeepsIInv
<1>3. CASE ClientChanges
  BY <1>1, <1>3, OtherTakenKeepsIInv DEF ClientChanges, adapterVars
<1> QED
  BY <1>2, <1>3

LEMMA WrittenKeepsIInv == IInv /\ AnswerWritten => IInv'
<1> SUFFICES ASSUME IInv, AnswerWritten
             PROVE  IInv'
  OBVIOUS
<1> USE DEF IInv
<1> DEFINE w == Head(writes)
<1>1. w \in Write /\ Tail(writes) \in Seq(Write)
  <2>1. writes \in Seq(Write) /\ writes # <<>>
    BY DEF TypeOK, AnswerWritten, Write
  <2> QED
    BY <2>1, TailElements
<1>2. w.session \in Sessions /\ w.resp \in Response
  <2>1. \A x \in Write : x.session \in Sessions /\ x.resp \in Response
    BY DEF Write
  <2> HIDE DEF w
  <2> QED
    BY <1>1, <2>1
<1>3. /\ session' = [session EXCEPT ![w.session].resp = w.resp, ![w.session].respRecvd = TRUE]
      /\ writes' = Tail(writes)
      /\ UNCHANGED <<queue, reqIDCounter, thread, callback, request, user, world>>
  BY DEF AnswerWritten
<1> HIDE DEF w
<1>4. session' \in [Sessions -> Session] /\ \A s \in Sessions : session'[s].rawRequest = session[s].rawRequest
  <2> DEFINE x == [[session[w.session] EXCEPT !.resp = w.resp] EXCEPT !.respRecvd = TRUE]
  <2>1. session \in [Sessions -> Session] /\ session[w.session] \in Session
    BY <1>2 DEF TypeOK
  <2>2. x \in Session /\ x.rawRequest = session[w.session].rawRequest
    BY <1>2, <2>1 DEF Session
  <2>3. \A s \in Sessions : session'[s] = IF s = w.session THEN x ELSE session[s]
    BY <1>2, <1>3, <2>1
  <2>4. DOMAIN session' = Sessions /\ session' = [s \in Sessions |-> session'[s]]
    BY <1>3, <2>1
  <2> HIDE DEF x
  <2> QED
    BY <2>1, <2>2, <2>3, <2>4
<1>5. TypeOK'
  BY <1>1, <1>3, <1>4 DEF TypeOK, Write
<1>6. \A s \in Sessions : InProgress(s)' <=> InProgress(s)
  BY <1>4 DEF InProgress
<1>7. OnlyOpenAreHeld' /\ HeldOnce'
  BY <1>3, <1>4, <1>6 DEF OnlyOpenAreHeld, HeldOnce, Passes, Open
<1>8. IdsAreFresh' /\ EndsOnce'
  BY <1>3 DEF IdsAreFresh, EndsOnce
<1>9. \A i \in Requests : thread[i].session \in Sessions
  BY DEF TypeOK, Thread
<1>10. WaitsForItsOwn'
  BY <1>3, <1>4, <1>6, <1>9 DEF WaitsForItsOwn, Waits
<1> QED
  BY <1>5, <1>7, <1>8, <1>10

(* A session begins: its request moves from the message to it and its thread.  *)
LEMMA AskFacts ==
  ASSUME IInv, NotifyAsks
  PROVE  LET s == request[Msg.r].for
             id == reqIDCounter + 1
         IN /\ s \in Sessions /\ id \in Requests /\ ~InProgress(s) /\ Msg.r \in DOMAIN request
            /\ Msg.r \in Requests /\ Msg.r # None
            /\ thread[id].phase = "none" /\ thread[id] \in Thread
            /\ session' \in [Sessions -> Session]
            /\ session'[s].rawRequest = Msg.r /\ session'[s].reqID = id
            /\ session'[s].respRecvd = session[s].respRecvd
            /\ \A t \in Sessions : t # s => session'[t] = session[t]
            /\ thread' \in [Requests -> Thread]
            /\ thread'[id].phase = "starting" /\ thread'[id].session = s /\ thread'[id].raw = Msg.r
            /\ \A j \in Requests : j # id => thread'[j] = thread[j]
            /\ request' \in Seq(Request) /\ Len(request') = Len(request) /\ DOMAIN request' = DOMAIN request
            /\ request'[Msg.r].asked = id /\ request'[Msg.r].superseded = request[Msg.r].superseded
            /\ request'[Msg.r].ends = request[Msg.r].ends /\ request'[Msg.r].became = request[Msg.r].became
            /\ \A q \in DOMAIN request : q # Msg.r => request'[q] = request[q]
<1> DEFINE s == request[Msg.r].for
           id == reqIDCounter + 1
<1>1. Take("notify") /\ Msg.kind = "notify" /\ Msg \in Message /\ 1 \in DOMAIN queue /\ queue[1] = Msg
  BY TakeFacts DEF NotifyAsks
<1>2. Msg.r \in Requests /\ Msg.r \in DOMAIN request
  BY <1>1, HeldAreRequests DEF Carries
<1>3. request \in Seq(Request) /\ session \in [Sessions -> Session] /\ thread \in [Requests -> Thread]
      /\ reqIDCounter \in Nat
  BY BoundsAssumption DEF IInv, TypeOK
<1>4. request[Msg.r] \in Request
  BY <1>2, <1>3
<1>5. s \in Sessions
  BY <1>4 DEF Request
<1>6. id \in Requests /\ id \in Nat
  <2>1. reqIDCounter < Msg.r
    BY <1>1 DEF IInv, IdsAreFresh
  <2> QED
    BY <1>2, <1>3, <2>1, BoundsAssumption DEF Requests
<1>7. thread[id].phase = "none"
  <2>1. id > reqIDCounter
    BY <1>3
  <2> QED
    BY <1>6, <2>1 DEF IInv, IdsAreFresh
<1>8. Msg.r # None
  BY <1>2 DEF Requests, None
<1>9. /\ session' = [session EXCEPT ![s].rawRequest = Msg.r, ![s].reqID = id]
      /\ thread' = [thread EXCEPT ![id].phase = "starting", ![id].session = s, ![id].raw = Msg.r]
      /\ request' = [request EXCEPT ![Msg.r].asked = id]
      /\ ~Busy(s)
  BY DEF NotifyAsks
<1>10. ~InProgress(s)
  BY <1>5, <1>9 DEF Busy, Sessions
<1> HIDE DEF s, id
<1>11. /\ session' \in [Sessions -> Session] /\ session'[s].rawRequest = Msg.r /\ session'[s].reqID = id
       /\ session'[s].respRecvd = session[s].respRecvd
       /\ \A t \in Sessions : t # s => session'[t] = session[t]
  BY <1>2, <1>3, <1>5, <1>6, <1>9 DEF Session
<1>12. /\ thread' \in [Requests -> Thread]
       /\ thread'[id].phase = "starting" /\ thread'[id].session = s /\ thread'[id].raw = Msg.r
       /\ \A j \in Requests : j # id => thread'[j] = thread[j]
  <2> DEFINE x == [[[thread[id] EXCEPT !.phase = "starting"] EXCEPT !.session = s] EXCEPT !.raw = Msg.r]
  <2>1. thread[id] \in Thread
    BY <1>3, <1>6
  <2>2. x \in Thread /\ x.phase = "starting" /\ x.session = s /\ x.raw = Msg.r
    BY <1>2, <1>5, <2>1 DEF Thread
  <2>3. \A j \in Requests : thread'[j] = IF j = id THEN x ELSE thread[j]
    BY <1>3, <1>6, <1>9
  <2>4. thread' = [j \in Requests |-> thread'[j]]
    BY <1>3, <1>9
  <2> HIDE DEF x
  <2> QED
    BY <1>3, <1>6, <2>2, <2>3, <2>4
<1> DEFINE r == Msg.r
           e == [request[r] EXCEPT !.asked = id]
<1>13. e \in Request /\ e.asked = id /\ e.superseded = request[r].superseded
       /\ e.ends = request[r].ends /\ e.became = request[r].became
  <2>1. \A x \in Request : LET y == [x EXCEPT !.asked = id] IN
          y \in Request /\ y.asked = id /\ y.superseded = x.superseded /\ y.ends = x.ends /\ y.became = x.became
    BY <1>6 DEF Request
  <2> QED
    BY <1>4, <2>1
<1>14. request' = [request EXCEPT ![r] = e]
  BY <1>9
<1> HIDE DEF e
<1>15. /\ [request EXCEPT ![r] = e] \in Seq(Request) /\ Len([request EXCEPT ![r] = e]) = Len(request)
       /\ DOMAIN [request EXCEPT ![r] = e] = DOMAIN request
       /\ [request EXCEPT ![r] = e][r] = e
       /\ \A q \in DOMAIN request : q # r => [request EXCEPT ![r] = e][q] = request[q]
  BY <1>2, <1>3, <1>13
<1>16. thread[id] \in Thread
  BY <1>3, <1>6
<1> QED
  BY <1>2, <1>5, <1>6, <1>7, <1>8, <1>10, <1>11, <1>12, <1>13, <1>14, <1>15, <1>16 DEF s, id

LEMMA AskKeepsIInv == IInv /\ NotifyAsks => IInv'
<1> SUFFICES ASSUME IInv, NotifyAsks
             PROVE  IInv'
  OBVIOUS
<1> USE DEF IInv
<1> SUFFICES ASSUME NEW s, NEW id, NEW r, s = request[Msg.r].for, id = reqIDCounter + 1, r = Msg.r
             PROVE  IInv'
  OBVIOUS
<1>1. /\ Take("notify") /\ Msg.kind = "notify" /\ queue' \in Seq(Message)
      /\ 1 \in DOMAIN queue /\ queue[1] = Msg /\ DOMAIN queue' \subseteq Int
      /\ \A k \in DOMAIN queue' : k + 1 \in DOMAIN queue /\ k + 1 # 1 /\ 1 < k + 1 /\ queue'[k] = queue[k + 1]
  BY TakeFacts DEF NotifyAsks
<1>2. UNCHANGED <<writes, callback, user, world>> /\ reqIDCounter' = id
  BY DEF NotifyAsks
<1>3. /\ s \in Sessions /\ id \in Requests /\ ~InProgress(s) /\ r \in DOMAIN request
      /\ r # None /\ thread[id].phase = "none"
      /\ session' \in [Sessions -> Session] /\ session'[s].rawRequest = r
      /\ \A t \in Sessions : t # s => session'[t] = session[t]
      /\ thread' \in [Requests -> Thread]
      /\ thread'[id].phase = "starting" /\ thread'[id].session = s /\ thread'[id].raw = r
      /\ \A j \in Requests : j # id => thread'[j] = thread[j]
      /\ request' \in Seq(Request) /\ Len(request') = Len(request) /\ DOMAIN request' = DOMAIN request
      /\ \A q \in DOMAIN request : request'[q].ends = request[q].ends
  BY AskFacts
<1>4. Carries(Msg) /\ Open(r)
  BY <1>1 DEF Carries, OnlyOpenAreHeld
<1>5. /\ \A t \in Sessions : session[t].rawRequest # r
      /\ \A i \in Requests : Passes(i) => thread[i].raw # r
      /\ \A k \in DOMAIN queue : k # 1 /\ Carries(queue[k]) => queue[k].r # r
  BY <1>1, <1>4 DEF HeldOnce
<1>6. reqIDCounter \in Nat /\ id \in 0..MaxRequests
  <2>1. reqIDCounter \in Nat
    BY BoundsAssumption DEF TypeOK
  <2> QED
    BY <1>3, <2>1, BoundsAssumption DEF Requests
<1>7. TypeOK'
  BY <1>1, <1>2, <1>3, <1>6 DEF TypeOK
<1>8. /\ InProgress(s)' /\ \A t \in Sessions : t # s => (InProgress(t)' <=> InProgress(t))
      /\ \A t \in Sessions : t # s => session'[t].rawRequest = session[t].rawRequest
  BY <1>3 DEF InProgress
<1>9. \A i \in Requests : Passes(i)' => i # id /\ Passes(i) /\ thread'[i].raw = thread[i].raw
  BY <1>3 DEF Passes
<1>10. \A q : Open(q) => Open(q)'
  BY <1>3 DEF Open
<1>11. OnlyOpenAreHeld'
  BY <1>1, <1>3, <1>4, <1>8, <1>9, <1>10 DEF OnlyOpenAreHeld
<1>12. \A k, l \in DOMAIN queue' : (k # l => k + 1 # l + 1) /\ (k < l => k + 1 < l + 1)
  BY <1>1
<1>13. HeldOnce'
  <2>1. \A k, l \in DOMAIN queue' :
          k # l /\ Carries(queue'[k]) /\ Carries(queue'[l]) => queue'[k].r # queue'[l].r
    BY <1>1, <1>12 DEF HeldOnce
  <2>2. \A t, u \in Sessions :
          t # u /\ InProgress(t)' => session'[t].rawRequest # session'[u].rawRequest
    BY <1>3, <1>5, <1>8 DEF HeldOnce, InProgress
  <2>3. \A i, j \in Requests : i # j /\ Passes(i)' /\ Passes(j)' => thread'[i].raw # thread'[j].raw
    BY <1>9 DEF HeldOnce
  <2>4. \A k \in DOMAIN queue', t \in Sessions :
          Carries(queue'[k]) => queue'[k].r # session'[t].rawRequest
    BY <1>1, <1>3, <1>5, <1>8 DEF HeldOnce
  <2>5. \A k \in DOMAIN queue', i \in Requests :
          Carries(queue'[k]) /\ Passes(i)' => queue'[k].r # thread'[i].raw
    BY <1>1, <1>9 DEF HeldOnce
  <2>6. \A t \in Sessions, i \in Requests : Passes(i)' => session'[t].rawRequest # thread'[i].raw
    BY <1>3, <1>5, <1>8, <1>9 DEF HeldOnce
  <2> QED
    BY <2>1, <2>2, <2>3, <2>4, <2>5, <2>6 DEF HeldOnce, Carries
<1>14. IdsAreFresh'
  <2>1. id <= Len(request') /\ Len(request') <= MaxRequests
    <3>1. reqIDCounter < Msg.r
      BY <1>1 DEF IdsAreFresh
    <3>2. r \in 1..Len(request) /\ Len(request) \in Nat
      BY <1>3, HeldAreRequests DEF TypeOK
    <3> QED
      BY <1>3, <1>6, <3>1, <3>2 DEF IdsAreFresh
  <2>2. \A i \in Requests : thread'[i].phase = "none" <=> i > id
    BY <1>3, <1>6, BoundsAssumption DEF IdsAreFresh, Requests
  <2>3. \A k \in DOMAIN queue' : queue'[k].kind = "notify" => id < queue'[k].r
    <3> SUFFICES ASSUME NEW k \in DOMAIN queue', queue'[k].kind = "notify"
                 PROVE  id < queue'[k].r
      OBVIOUS
    <3>1. /\ k + 1 \in DOMAIN queue /\ 1 < k + 1 /\ queue'[k] = queue[k + 1] /\ Msg.r < queue[k + 1].r
          /\ reqIDCounter < Msg.r
      BY <1>1 DEF IdsAreFresh
    <3>2. queue[k + 1].r \in Requests /\ Msg.r \in Requests
      BY <1>1, <1>3, <3>1, HeldAreRequests DEF Carries
    <3> QED
      BY <1>6, <3>1, <3>2 DEF Requests
  <2>4. \A k, l \in DOMAIN queue' :
          k < l /\ queue'[k].kind = "notify" /\ queue'[l].kind = "notify" => queue'[k].r < queue'[l].r
    BY <1>1, <1>12 DEF IdsAreFresh
  <2> QED
    BY <1>2, <2>1, <2>2, <2>3, <2>4 DEF IdsAreFresh
<1>15. WaitsForItsOwn'
  <2>1. \A i \in Requests : i # id => (Waits(i)' <=> Waits(i)) /\ thread'[i] = thread[i]
    BY <1>3 DEF Waits
  <2>2. \A i \in Requests : Waits(i) => thread[i].session \in Sessions /\ thread[i].session # s
    BY <1>3 DEF WaitsForItsOwn, TypeOK, Thread
  <2>3. Waits(id)'
    BY <1>3 DEF Waits
  <2>4. \A i \in Requests : Waits(i)' =>
          session'[thread'[i].session].rawRequest # None /\ session'[thread'[i].session].rawRequest = thread'[i].raw
    BY <1>3, <1>8, <2>1, <2>2 DEF WaitsForItsOwn, InProgress
  <2>5. \A i, j \in Requests : Waits(i)' /\ Waits(j)' /\ i # j => thread'[i].session # thread'[j].session
    BY <1>3, <2>1, <2>2 DEF WaitsForItsOwn
  <2>6. \A t \in Sessions : InProgress(t)' => \E i \in Requests : Waits(i)' /\ thread'[i].session = t
    <3> SUFFICES ASSUME NEW t \in Sessions, InProgress(t)'
                 PROVE  \E i \in Requests : Waits(i)' /\ thread'[i].session = t
      OBVIOUS
    <3>1. CASE t = s
      BY <1>3, <2>3, <3>1
    <3>2. CASE t # s
      <4>1. PICK i \in Requests : Waits(i) /\ thread[i].session = t
        BY <1>8, <3>2 DEF WaitsForItsOwn
      <4>2. i # id
        BY <1>3, <4>1 DEF Waits
      <4> QED
        BY <2>1, <4>1, <4>2
    <3> QED
      BY <3>1, <3>2
  <2> QED
    BY <2>4, <2>5, <2>6 DEF WaitsForItsOwn, InProgress
<1>16. EndsOnce'
  BY <1>3 DEF EndsOnce
<1> QED
  BY <1>7, <1>11, <1>13, <1>14, <1>15, <1>16

----------------------------------------------------------------------------
(* The threads' steps.                                                         *)

(* A thread leaves its loop: the request moves from its session to it, or ends. *)
LEMMA LeaveFacts ==
  ASSUME IInv, NEW i \in Requests, Waits(i), NEW resp \in Response, Leave(i, resp)
  PROVE  LET s == thread[i].session
             raw == session[s].rawRequest
         IN /\ s \in Sessions /\ InProgress(s) /\ raw = thread[i].raw
            /\ raw # None /\ raw \in DOMAIN request /\ Open(raw)
            /\ UNCHANGED <<queue, reqIDCounter, writes, callback, user, world>>
            /\ session' \in [Sessions -> Session]
            /\ session'[s].rawRequest = None /\ session'[s].reqID = session[s].reqID
            /\ session'[s].respRecvd = FALSE
            /\ \A t \in Sessions : t # s => session'[t] = session[t]
            /\ thread' \in [Requests -> Thread]
            /\ thread'[i].phase = "unlocked" /\ thread'[i].session = s /\ thread'[i].resp = resp
            /\ thread'[i].raw = (IF resp = "ignore" THEN None ELSE raw)
            /\ \A j \in Requests : j # i => thread'[j] = thread[j]
            /\ request' = (IF resp = "ignore" THEN End(request, raw, "ignore") ELSE request)
<1> DEFINE s == thread[i].session
           raw == session[s].rawRequest
<1>1. session \in [Sessions -> Session] /\ thread \in [Requests -> Thread]
  BY DEF IInv, TypeOK
<1>2. thread[i] \in Thread /\ s \in Sessions
  BY <1>1 DEF Thread
<1>3. InProgress(s) /\ raw = thread[i].raw
  BY DEF IInv, WaitsForItsOwn
<1>4. raw # None
  BY <1>3 DEF InProgress
<1>5. Open(raw) /\ raw \in DOMAIN request
  BY <1>2, <1>3 DEF IInv, OnlyOpenAreHeld, Open
<1>6. session[s] \in Session /\ raw \in Requests \cup {None}
  BY <1>1, <1>2 DEF Session
<1>7. /\ session' = [session EXCEPT ![s].resp = resp, ![s].respRecvd = FALSE, ![s].rawRequest = None]
      /\ thread' = [thread EXCEPT ![i].phase = "unlocked", ![i].resp = resp,
                                  ![i].raw = IF resp = "ignore" THEN None ELSE raw]
      /\ request' = (IF resp = "ignore" THEN End(request, raw, "ignore") ELSE request)
      /\ UNCHANGED <<queue, reqIDCounter, writes, callback, user, world>>
  BY <1>4 DEF Leave
<1> HIDE DEF s, raw
<1>8. /\ session' \in [Sessions -> Session]
      /\ session'[s].rawRequest = None /\ session'[s].reqID = session[s].reqID
      /\ session'[s].respRecvd = FALSE
      /\ \A t \in Sessions : t # s => session'[t] = session[t]
  BY <1>1, <1>2, <1>7 DEF Session
<1>9. /\ thread' \in [Requests -> Thread]
      /\ thread'[i].phase = "unlocked" /\ thread'[i].session = thread[i].session /\ thread'[i].resp = resp
      /\ thread'[i].raw = (IF resp = "ignore" THEN None ELSE raw)
      /\ \A j \in Requests : j # i => thread'[j] = thread[j]
  BY <1>1, <1>6, <1>7 DEF Thread
<1> QED
  BY <1>2, <1>3, <1>4, <1>5, <1>7, <1>8, <1>9 DEF s, raw

LEMMA LeaveKeepsIInv ==
  ASSUME IInv, NEW i \in Requests, Waits(i), NEW resp \in Response, Leave(i, resp)
  PROVE  IInv'
<1> USE DEF IInv
<1> SUFFICES ASSUME NEW s, NEW raw, s = thread[i].session, raw = session[s].rawRequest
             PROVE  IInv'
  OBVIOUS
<1>1. /\ s \in Sessions /\ InProgress(s) /\ raw = thread[i].raw
      /\ raw # None /\ raw \in DOMAIN request /\ Open(raw)
      /\ UNCHANGED <<queue, reqIDCounter, writes, callback, user, world>>
      /\ session' \in [Sessions -> Session] /\ session'[s].rawRequest = None
      /\ \A t \in Sessions : t # s => session'[t] = session[t]
      /\ thread' \in [Requests -> Thread]
      /\ thread'[i].phase = "unlocked" /\ thread'[i].raw = (IF resp = "ignore" THEN None ELSE raw)
      /\ \A j \in Requests : j # i => thread'[j] = thread[j]
      /\ request' = (IF resp = "ignore" THEN End(request, raw, "ignore") ELSE request)
  BY LeaveFacts
<1>2. /\ request' \in Seq(Request) /\ Len(request') = Len(request) /\ DOMAIN request' = DOMAIN request
      /\ \A q \in DOMAIN request : q # raw => request'[q].ends = request[q].ends
      /\ resp # "ignore" => request' = request
      /\ request'[raw].ends = request[raw].ends + (IF resp = "ignore" THEN 1 ELSE 0)
  <2>1. request \in Seq(Request) /\ "ignore" \in Became
    BY DEF TypeOK, Became, Response
  <2>2. CASE resp = "ignore"
    BY <1>1, <2>1, <2>2, EndFacts
  <2>3. CASE resp # "ignore"
    <3>1. request[raw] \in Request
      BY <1>1, <2>1
    <3>2. request[raw].ends \in Nat
      BY <3>1 DEF Request
    <3> QED
      BY <1>1, <2>1, <2>3, <3>2
  <2> QED
    BY <2>2, <2>3
<1>3. TypeOK'
  BY <1>1, <1>2 DEF TypeOK
<1>4. /\ \A k \in DOMAIN queue : Carries(queue[k]) => queue[k].r # raw
      /\ \A t \in Sessions : t # s => session[t].rawRequest # raw
      /\ \A j \in Requests : Passes(j) => thread[j].raw # raw
  <2>1. raw = session[s].rawRequest
    OBVIOUS
  <2>2. \A k \in DOMAIN queue : Carries(queue[k]) => queue[k].r # raw
    BY <1>1, <2>1 DEF HeldOnce
  <2>3. \A t \in Sessions : t # s => session[t].rawRequest # raw
    BY <1>1, <2>1 DEF HeldOnce
  <2>4. \A j \in Requests : Passes(j) => thread[j].raw # raw
    BY <1>1, <2>1 DEF HeldOnce
  <2> QED
    BY <2>2, <2>3, <2>4
<1> DEFINE StaysOpen(q) == q \in DOMAIN request' /\ request'[q].ends = 0
<1>5. \A q : Open(q) /\ q # raw => StaysOpen(q)
  BY <1>2 DEF Open
<1>6. /\ \A t \in Sessions : \/ t # s /\ session'[t] = session[t] /\ session[t].rawRequest # None
                             \/ session'[t].rawRequest = None
      /\ \A j \in Requests : Passes(j)' =>
           \/ j # i /\ Passes(j) /\ thread'[j].raw = thread[j].raw
           \/ j = i /\ resp # "ignore" /\ thread'[j].raw = raw
  BY <1>1 DEF Passes
<1>7. OnlyOpenAreHeld'
  <2>1. \A k \in DOMAIN queue : Carries(queue[k]) => StaysOpen(queue[k].r)
    BY <1>4, <1>5 DEF OnlyOpenAreHeld
  <2>2. \A t \in Sessions : session'[t].rawRequest # None => StaysOpen(session'[t].rawRequest)
    <3> SUFFICES ASSUME NEW t \in Sessions, session'[t].rawRequest # None
                 PROVE  StaysOpen(session'[t].rawRequest)
      OBVIOUS
    <3>1. session'[t] = session[t] /\ t # s /\ session[t].rawRequest # raw
      BY <1>1, <1>4
    <3>2. Open(session[t].rawRequest)
      BY <3>1 DEF OnlyOpenAreHeld, InProgress
    <3> QED
      BY <1>5, <3>1, <3>2
  <2>3. \A j \in Requests : Passes(j)' => StaysOpen(thread'[j].raw)
    <3> SUFFICES ASSUME NEW j \in Requests, Passes(j)'
                 PROVE  StaysOpen(thread'[j].raw)
      OBVIOUS
    <3>1. CASE j # i
      <4>1. Open(thread[j].raw) /\ thread[j].raw # raw /\ thread'[j].raw = thread[j].raw
        BY <1>4, <1>6, <3>1 DEF OnlyOpenAreHeld
      <4> QED
        BY <1>5, <4>1
    <3>2. CASE j = i
      BY <1>1, <1>2, <1>6, <3>2 DEF Open
    <3> QED
      BY <3>1, <3>2
  <2> QED
    BY <1>1, <2>1, <2>2, <2>3 DEF OnlyOpenAreHeld, InProgress, Open
<1>8. HeldOnce'
  <2>1. \A k \in DOMAIN queue, t \in Sessions : Carries(queue[k]) => queue[k].r # session'[t].rawRequest
    <3>1. \A k \in DOMAIN queue : Carries(queue[k]) => queue[k].r # None
      BY HeldAreRequests DEF None, Requests
    <3> QED
      BY <1>6, <3>1 DEF HeldOnce
  <2>2. \A t, u \in Sessions : t # u /\ session'[t].rawRequest # None => session'[t].rawRequest # session'[u].rawRequest
    BY <1>1, <1>6 DEF HeldOnce, InProgress
  <2>3. \A j, l \in Requests : j # l /\ Passes(j)' /\ Passes(l)' => thread'[j].raw # thread'[l].raw
    BY <1>4, <1>6 DEF HeldOnce
  <2>4. \A k \in DOMAIN queue, j \in Requests : Carries(queue[k]) /\ Passes(j)' => queue[k].r # thread'[j].raw
    BY <1>4, <1>6 DEF HeldOnce
  <2>5. \A t \in Sessions, j \in Requests : Passes(j)' => session'[t].rawRequest # thread'[j].raw
    <3>1. \A j \in Requests : Passes(j)' => thread'[j].raw # None
      BY DEF Passes
    <3> QED
      BY <1>4, <1>6, <3>1 DEF HeldOnce
  <2> QED
    BY <1>1, <2>1, <2>2, <2>3, <2>4, <2>5 DEF HeldOnce, InProgress
<1>9. IdsAreFresh'
  <2>1. thread[i].phase # "none"
    BY DEF Waits
  <2> QED
    BY <1>1, <1>2, <2>1 DEF IdsAreFresh
<1>10. WaitsForItsOwn'
  <2>1. \A j \in Requests : Waits(j)' => j # i /\ Waits(j) /\ thread'[j] = thread[j]
    BY <1>1 DEF Waits
  <2>2. \A j \in Requests : Waits(j) /\ j # i => thread[j].session \in Sessions /\ thread[j].session # s
    BY DEF WaitsForItsOwn, TypeOK, Thread
  <2>3. \A j \in Requests : Waits(j)' =>
          session'[thread'[j].session].rawRequest # None /\ session'[thread'[j].session].rawRequest = thread'[j].raw
    BY <1>1, <2>1, <2>2 DEF WaitsForItsOwn, InProgress
  <2>4. \A j, l \in Requests : Waits(j)' /\ Waits(l)' /\ j # l => thread'[j].session # thread'[l].session
    BY <2>1 DEF WaitsForItsOwn
  <2>5. \A t \in Sessions : session'[t].rawRequest # None => \E j \in Requests : Waits(j)' /\ thread'[j].session = t
    <3> SUFFICES ASSUME NEW t \in Sessions, session'[t].rawRequest # None
                 PROVE  \E j \in Requests : Waits(j)' /\ thread'[j].session = t
      OBVIOUS
    <3>1. t # s /\ InProgress(t)
      BY <1>1 DEF InProgress
    <3>2. PICK j \in Requests : Waits(j) /\ thread[j].session = t
      BY <3>1 DEF WaitsForItsOwn
    <3>3. j # i
      BY <3>1, <3>2
    <3> QED
      BY <1>1, <3>2, <3>3 DEF Waits
  <2> QED
    BY <2>3, <2>4, <2>5 DEF WaitsForItsOwn, InProgress
<1>11. EndsOnce'
  BY <1>1, <1>2 DEF EndsOnce, Open
<1> QED
  BY <1>3, <1>7, <1>8, <1>9, <1>10, <1>11

LEMMA ThreadWaitsKeepsIInv ==
  ASSUME IInv, NEW i \in Requests, ThreadWaits(i)
  PROVE  IInv'
<1> USE DEF IInv
<1>1. /\ thread[i].phase = "starting" /\ thread' = [thread EXCEPT ![i].phase = "waiting"]
      /\ UNCHANGED <<queue, session, reqIDCounter, writes, callback, request, user, world>>
  BY DEF ThreadWaits, adapterVars
<1>2. /\ thread' \in [Requests -> Thread] /\ thread'[i].phase = "waiting"
      /\ \A j \in Requests : /\ j # i => thread'[j] = thread[j]
                             /\ thread'[j].session = thread[j].session /\ thread'[j].raw = thread[j].raw
                             /\ thread'[j].resp = thread[j].resp
  BY <1>1 DEF TypeOK, Thread
<1>3. \A j \in Requests : /\ Passes(j)' <=> Passes(j)
                          /\ Waits(j)' <=> Waits(j)
                          /\ thread'[j].phase = "none" <=> thread[j].phase = "none"
  BY <1>1, <1>2 DEF Passes, Waits
<1>4. TypeOK'
  BY <1>1, <1>2 DEF TypeOK
<1>5. OnlyOpenAreHeld' /\ HeldOnce'
  BY <1>1, <1>2, <1>3 DEF OnlyOpenAreHeld, HeldOnce, InProgress, Open
<1>6. IdsAreFresh' /\ EndsOnce'
  BY <1>1, <1>3 DEF IdsAreFresh, EndsOnce
<1>7. WaitsForItsOwn'
  BY <1>1, <1>2, <1>3 DEF WaitsForItsOwn, InProgress
<1> QED
  BY <1>4, <1>5, <1>6, <1>7

LEMMA EndFactsOfThread ==
  ASSUME IInv, NEW i \in Requests, ThreadEnds(i)
  PROVE  LET s == thread[i].session
             m == [kind |-> "inform", r |-> thread[i].raw, resp |-> thread[i].resp]
         IN /\ s \in Sessions /\ thread[i].phase = "unlocked"
            /\ UNCHANGED <<reqIDCounter, writes, callback, request, user, world>>
            /\ session' \in [Sessions -> Session]
            /\ \A t \in Sessions : /\ session'[t].rawRequest = session[t].rawRequest
                                   /\ session'[t].respRecvd = session[t].respRecvd
                                   /\ session'[t].resp = session[t].resp
                                   /\ t # s => session'[t] = session[t]
            /\ thread' \in [Requests -> Thread] /\ thread'[i].phase = "ended"
            /\ \A j \in Requests : j # i => thread'[j] = thread[j]
            /\ IF thread[i].raw = None THEN queue' = queue
               ELSE m \in Message /\ queue' = Append(queue, m)
<1> DEFINE s == thread[i].session
           m == [kind |-> "inform", r |-> thread[i].raw, resp |-> thread[i].resp]
<1>1. session \in [Sessions -> Session] /\ thread \in [Requests -> Thread]
  BY DEF IInv, TypeOK
<1>2. thread[i] \in Thread /\ s \in Sessions /\ thread[i].phase = "unlocked"
  BY <1>1 DEF Thread, ThreadEnds
<1>3. /\ session' = [session EXCEPT ![s].reqID = None]
      /\ thread' = [thread EXCEPT ![i] = [NoThread EXCEPT !.phase = "ended"]]
      /\ queue' = (IF thread[i].raw # None THEN Append(queue, m) ELSE queue)
      /\ UNCHANGED <<reqIDCounter, writes, callback, request, user, world>>
  BY DEF ThreadEnds
<1>4. /\ session' \in [Sessions -> Session]
      /\ \A t \in Sessions : /\ session'[t].rawRequest = session[t].rawRequest
                             /\ session'[t].respRecvd = session[t].respRecvd
                             /\ session'[t].resp = session[t].resp
                             /\ t # s => session'[t] = session[t]
  <2> HIDE DEF s
  <2> QED
    BY <1>1, <1>2, <1>3 DEF Session
<1>5. /\ thread' \in [Requests -> Thread] /\ thread'[i].phase = "ended"
      /\ \A j \in Requests : j # i => thread'[j] = thread[j]
  <2> DEFINE gone == [NoThread EXCEPT !.phase = "ended"]
  <2>1. gone \in Thread /\ gone.phase = "ended"
    BY DEF NoThread, Thread, Sessions, Response
  <2> HIDE DEF gone
  <2> QED
    BY <1>1, <1>3, <2>1 DEF gone
<1>6. thread[i].raw # None => m \in Message
  BY <1>2 DEF Thread, Message
<1> QED
  BY <1>2, <1>3, <1>4, <1>5, <1>6

LEMMA ThreadEndsKeepsIInv ==
  ASSUME IInv, NEW i \in Requests, ThreadEnds(i)
  PROVE  IInv'
<1> USE DEF IInv
<1> SUFFICES ASSUME NEW m, m = [kind |-> "inform", r |-> thread[i].raw, resp |-> thread[i].resp]
             PROVE  IInv'
  OBVIOUS
<1>1. /\ thread[i].phase = "unlocked"
      /\ UNCHANGED <<reqIDCounter, writes, callback, request, user, world>>
      /\ session' \in [Sessions -> Session]
      /\ \A t \in Sessions : session'[t].rawRequest = session[t].rawRequest
      /\ thread' \in [Requests -> Thread] /\ thread'[i].phase = "ended"
      /\ \A j \in Requests : j # i => thread'[j] = thread[j]
      /\ IF thread[i].raw = None THEN queue' = queue
         ELSE m \in Message /\ queue' = Append(queue, m)
  BY EndFactsOfThread
<1>2. m.kind = "inform" /\ m.r = thread[i].raw
  OBVIOUS
<1>3. /\ \A j \in Requests : /\ Passes(j)' => j # i /\ Passes(j) /\ thread'[j].raw = thread[j].raw
                             /\ Waits(j)' <=> j # i /\ Waits(j)
                             /\ thread'[j].phase = "none" <=> thread[j].phase = "none"
      /\ ~Waits(i)
      /\ thread[i].raw # None => Passes(i)
  BY <1>1 DEF Passes, Waits
<1>4. queue \in Seq(Message)
  BY DEF TypeOK
<1>5. /\ queue' \in Seq(Message) /\ DOMAIN queue' \subseteq Int
      /\ \A k \in DOMAIN queue' : \/ k \in DOMAIN queue /\ queue'[k] = queue[k]
                                  \/ k = Len(queue) + 1 /\ queue'[k] = m /\ thread[i].raw # None
      /\ \A k \in DOMAIN queue : k < Len(queue) + 1 /\ k # Len(queue) + 1
  <2>1. CASE thread[i].raw = None
    BY <1>1, <1>4, <2>1
  <2>2. CASE thread[i].raw # None
    <3>1. /\ Append(queue, m) \in Seq(Message) /\ Len(queue) + 1 \notin DOMAIN queue
          /\ DOMAIN queue \subseteq Int /\ DOMAIN Append(queue, m) = DOMAIN queue \cup {Len(queue) + 1}
          /\ \A k \in DOMAIN queue : k < Len(queue) + 1 /\ Append(queue, m)[k] = queue[k]
          /\ Append(queue, m)[Len(queue) + 1] = m
      BY <1>1, <1>4, <2>2, AppendElements
    <3>2. Len(queue) + 1 \in Int
      BY <1>4
    <3> QED
      BY <1>1, <2>2, <3>1, <3>2
  <2> QED
    BY <2>1, <2>2
<1>6. TypeOK'
  BY <1>1, <1>5 DEF TypeOK
<1>7. OnlyOpenAreHeld'
  <2>1. \A k \in DOMAIN queue' : Carries(queue'[k]) => Open(queue'[k].r)
    BY <1>2, <1>3, <1>5 DEF OnlyOpenAreHeld
  <2>2. \A j \in Requests : Passes(j)' => Open(thread'[j].raw)
    BY <1>3 DEF OnlyOpenAreHeld
  <2> QED
    BY <1>1, <2>1, <2>2 DEF OnlyOpenAreHeld, InProgress, Open, Carries
<1>8. HeldOnce'
  <2>1. \A k, l \in DOMAIN queue' :
          k # l /\ Carries(queue'[k]) /\ Carries(queue'[l]) => queue'[k].r # queue'[l].r
    BY <1>2, <1>3, <1>5 DEF HeldOnce
  <2>2. \A j, l \in Requests : j # l /\ Passes(j)' /\ Passes(l)' => thread'[j].raw # thread'[l].raw
    BY <1>3 DEF HeldOnce
  <2>3. \A k \in DOMAIN queue', t \in Sessions : Carries(queue'[k]) => queue'[k].r # session'[t].rawRequest
    BY <1>1, <1>2, <1>3, <1>5 DEF HeldOnce
  <2>4. \A k \in DOMAIN queue', j \in Requests : Carries(queue'[k]) /\ Passes(j)' => queue'[k].r # thread'[j].raw
    BY <1>2, <1>3, <1>5 DEF HeldOnce
  <2>5. \A t \in Sessions, j \in Requests : Passes(j)' => session'[t].rawRequest # thread'[j].raw
    BY <1>1, <1>3 DEF HeldOnce
  <2>6. \A t, u \in Sessions : t # u /\ session'[t].rawRequest # None => session'[t].rawRequest # session'[u].rawRequest
    BY <1>1 DEF HeldOnce, InProgress
  <2> QED
    BY <2>1, <2>2, <2>3, <2>4, <2>5, <2>6 DEF HeldOnce, InProgress, Carries
<1>9. IdsAreFresh'
  BY <1>1, <1>2, <1>3, <1>5 DEF IdsAreFresh
<1>10. WaitsForItsOwn'
  <2>1. \A j \in Requests : Waits(j) => thread[j].session \in Sessions
    BY DEF TypeOK, Thread
  <2>2. \A t \in Sessions : InProgress(t)' <=> InProgress(t)
    BY <1>1 DEF InProgress
  <2>3. \A j \in Requests : Waits(j)' =>
          session'[thread'[j].session].rawRequest # None /\ session'[thread'[j].session].rawRequest = thread'[j].raw
    BY <1>1, <1>3, <2>1 DEF WaitsForItsOwn, InProgress
  <2>4. \A j, l \in Requests : Waits(j)' /\ Waits(l)' /\ j # l => thread'[j].session # thread'[l].session
    BY <1>1, <1>3 DEF WaitsForItsOwn
  <2>5. \A t \in Sessions : InProgress(t) => \E j \in Requests : Waits(j)' /\ thread'[j].session = t
    BY <1>1, <1>3 DEF WaitsForItsOwn
  <2> QED
    BY <2>2, <2>3, <2>4, <2>5 DEF WaitsForItsOwn, InProgress
<1>11. EndsOnce'
  BY <1>1 DEF EndsOnce
<1> QED
  BY <1>6, <1>7, <1>8, <1>9, <1>10, <1>11

----------------------------------------------------------------------------
(* The modem's and the clients' steps add a message.                           *)

LEMMA ClientsKeepIInv == IInv /\ (ClientAnswers \/ ClientComesOrGoes) => IInv'
<1> SUFFICES ASSUME IInv, ClientAnswers \/ ClientComesOrGoes
             PROVE  IInv'
  OBVIOUS
<1> USE DEF IInv
<1> DEFINE Users == [answered: Answers \cup {"none"}, told: {"none", "success", "id_unknown"}]
<1>1. queue \in Seq(Message) /\ user \in [Requests -> Users] /\ reqIDCounter \in 0..MaxRequests
  BY DEF TypeOK
<1>2. PICK m \in Message : /\ queue' = Append(queue, m) /\ ~Carries(m) /\ m.kind # "notify"
                           /\ user' \in [Requests -> Users]
  <2>1. CASE ClientAnswers
    <3>1. PICK i \in 1..reqIDCounter, a \in Answers :
            /\ user' = [user EXCEPT ![i].answered = a]
            /\ queue' = Append(queue, [kind |-> "answer", id |-> i, resp |-> a])
      BY <2>1 DEF ClientAnswers
    <3>2. i \in Requests
      BY <1>1, BoundsAssumption DEF Requests
    <3>3. [kind |-> "answer", id |-> i, resp |-> a] \in Message
      BY <3>2 DEF Message
    <3>4. user' \in [Requests -> Users]
      BY <1>1, <3>1, <3>2
    <3> QED
      BY <3>1, <3>3, <3>4 DEF Carries
  <2>2. CASE ClientComesOrGoes
    <3>1. [kind |-> "client"] \in Message
      BY DEF Message
    <3> QED
      BY <1>1, <2>2, <3>1 DEF ClientComesOrGoes, Carries
  <2> QED
    BY <2>1, <2>2
<1>3. UNCHANGED <<session, reqIDCounter, writes, thread, callback, request, world>>
  BY DEF ClientAnswers, ClientComesOrGoes, adapterVars
<1>4. /\ queue' \in Seq(Message)
      /\ \A k \in DOMAIN queue' : \/ k \in DOMAIN queue /\ queue'[k] = queue[k]
                                  \/ ~Carries(queue'[k]) /\ queue'[k].kind # "notify"
  BY <1>1, <1>2, AppendElements
<1>5. TypeOK'
  BY <1>2, <1>3, <1>4 DEF TypeOK
<1>6. OnlyOpenAreHeld'
  BY <1>3, <1>4 DEF OnlyOpenAreHeld, InProgress, Passes, Open, Carries
<1>7. HeldOnce'
  BY <1>3, <1>4 DEF HeldOnce, InProgress, Passes, Carries
<1>8. IdsAreFresh' /\ EndsOnce'
  BY <1>3, <1>4 DEF IdsAreFresh, EndsOnce
<1>9. WaitsForItsOwn'
  BY <1>3 DEF WaitsForItsOwn, Waits, InProgress
<1> QED
  BY <1>5, <1>6, <1>7, <1>8, <1>9

LEMMA RequestFacts ==
  ASSUME IInv, RequestNi
  PROVE  LET r == Len(request) + 1
             m == [kind |-> "notify", r |-> r]
         IN /\ r \in Requests /\ r \notin DOMAIN request /\ \A q \in DOMAIN request : q < r
            /\ m \in Message /\ queue' = Append(queue, m)
            /\ request' \in Seq(Request) /\ Len(request') = r /\ DOMAIN request' = DOMAIN request \cup {r}
            /\ \A q \in DOMAIN request : request'[q] = request[q]
            /\ request'[r].ends = 0 /\ request'[r].became = "open" /\ request'[r].asked = None
            /\ request'[r].superseded = FALSE
            /\ UNCHANGED <<session, reqIDCounter, writes, thread, callback, user, world>>
<1> DEFINE r == Len(request) + 1
<1>1. request \in Seq(Request) /\ Len(request) \in Nat /\ Len(request) < MaxRequests
  BY DEF IInv, TypeOK, RequestNi
<1>2. r \in Requests
  BY <1>1, BoundsAssumption DEF Requests
<1>3. PICK s \in Sessions : request' = Append(request, [for |-> s, became |-> "open", ends |-> 0, asked |-> None,
                                                        superseded |-> FALSE])
  BY DEF RequestNi
<1> DEFINE e == [for |-> s, became |-> "open", ends |-> 0, asked |-> None, superseded |-> FALSE]
<1>4. e \in Request
  BY DEF Request, None
<1>5. e.ends = 0 /\ e.became = "open" /\ e.asked = None /\ e.superseded = FALSE
  OBVIOUS
<1> HIDE DEF e
<1>6. request' = Append(request, e)
  BY <1>3 DEF e
<1>7. request' \in Seq(Request) /\ Len(request') = r /\ DOMAIN request' = DOMAIN request \cup {r}
      /\ r \notin DOMAIN request /\ \A q \in DOMAIN request : q < r /\ request'[q] = request[q]
  BY <1>1, <1>4, <1>6, AppendElements
<1>8. request'[r] = e
  BY <1>1, <1>4, <1>6
<1>9. [kind |-> "notify", r |-> r] \in Message
  BY <1>2 DEF Message
<1> QED
  BY <1>2, <1>5, <1>7, <1>8, <1>9 DEF RequestNi, adapterVars

LEMMA RequestKeepsIInv == IInv /\ RequestNi => IInv'
<1> SUFFICES ASSUME IInv, RequestNi
             PROVE  IInv'
  OBVIOUS
<1> USE DEF IInv
<1> SUFFICES ASSUME NEW r, NEW m, r = Len(request) + 1, m = [kind |-> "notify", r |-> r]
             PROVE  IInv'
  OBVIOUS
<1>1. /\ r \in Requests /\ r \notin DOMAIN request /\ \A q \in DOMAIN request : q < r
      /\ m \in Message /\ queue' = Append(queue, m)
      /\ request' \in Seq(Request) /\ Len(request') = r /\ DOMAIN request' = DOMAIN request \cup {r}
      /\ \A q \in DOMAIN request : request'[q] = request[q]
      /\ request'[r].ends = 0
      /\ UNCHANGED <<session, reqIDCounter, writes, thread, callback, user, world>>
  BY RequestFacts
<1>2. m.kind = "notify" /\ m.r = r
  OBVIOUS
<1>3. queue \in Seq(Message) /\ Len(queue) \in Int
  BY DEF TypeOK
<1> DEFINE l == Len(queue) + 1
<1>4. /\ queue' \in Seq(Message) /\ DOMAIN queue' = DOMAIN queue \cup {l} /\ l \notin DOMAIN queue
      /\ queue'[l] = m /\ \A k \in DOMAIN queue : k < l /\ queue'[k] = queue[k]
      /\ DOMAIN queue \subseteq Int
  BY <1>1, <1>3, AppendElements
<1>5. l \in Int
  BY <1>3
<1> HIDE DEF l
<1>6. TypeOK'
  BY <1>1, <1>4 DEF TypeOK
<1>7. \A q : Open(q) => q \in DOMAIN request' /\ request'[q].ends = 0 /\ q # r
  BY <1>1 DEF Open
<1>8. OnlyOpenAreHeld'
  <2>1. \A k \in DOMAIN queue' : Carries(queue'[k]) => queue'[k].r \in DOMAIN request' /\ request'[queue'[k].r].ends = 0
    BY <1>1, <1>2, <1>4, <1>7 DEF OnlyOpenAreHeld
  <2>2. /\ \A s \in Sessions : InProgress(s) =>
             session[s].rawRequest \in DOMAIN request' /\ request'[session[s].rawRequest].ends = 0
        /\ \A i \in Requests : Passes(i) => thread[i].raw \in DOMAIN request' /\ request'[thread[i].raw].ends = 0
    BY <1>7 DEF OnlyOpenAreHeld
  <2> QED
    BY <1>1, <2>1, <2>2 DEF OnlyOpenAreHeld, Open, InProgress, Passes
<1>9. /\ \A k \in DOMAIN queue : Carries(queue[k]) => queue[k].r # r
      /\ \A s \in Sessions : session[s].rawRequest # r
      /\ \A i \in Requests : Passes(i) => thread[i].raw # r
  <2>1. r # None
    BY <1>1 DEF Requests, None
  <2> QED
    BY <1>7, <2>1 DEF OnlyOpenAreHeld, InProgress
<1>10. HeldOnce'
  <2>1. \A k, n \in DOMAIN queue' :
          k # n /\ Carries(queue'[k]) /\ Carries(queue'[n]) => queue'[k].r # queue'[n].r
    BY <1>2, <1>4, <1>9 DEF HeldOnce
  <2>2. \A k \in DOMAIN queue', s \in Sessions : Carries(queue'[k]) => queue'[k].r # session[s].rawRequest
    BY <1>2, <1>4, <1>9 DEF HeldOnce
  <2>3. \A k \in DOMAIN queue', i \in Requests : Carries(queue'[k]) /\ Passes(i) => queue'[k].r # thread[i].raw
    BY <1>2, <1>4, <1>9 DEF HeldOnce
  <2> QED
    BY <1>1, <2>1, <2>2, <2>3 DEF HeldOnce, InProgress, Passes, Carries
<1>11. IdsAreFresh'
  <2>1. reqIDCounter \in Nat /\ Len(request) \in Nat /\ reqIDCounter <= Len(request)
    BY BoundsAssumption DEF TypeOK, IdsAreFresh
  <2>2. reqIDCounter < r /\ reqIDCounter <= r /\ r <= MaxRequests
    BY <1>1, <2>1, BoundsAssumption DEF Requests
  <2>3. \A k \in DOMAIN queue' : queue'[k].kind = "notify" => reqIDCounter < queue'[k].r
    BY <1>2, <1>4, <2>2 DEF IdsAreFresh
  <2>4. \A k, n \in DOMAIN queue' :
          k < n /\ queue'[k].kind = "notify" /\ queue'[n].kind = "notify" => queue'[k].r < queue'[n].r
    <3>1. \A k \in DOMAIN queue : queue[k].kind = "notify" => queue[k].r < r
      BY <1>1, HeldAreRequests DEF Carries
    <3>2. \A k \in DOMAIN queue' : k \in Int /\ ~(l < k) /\ ~(l < l)
      BY <1>4, <1>5
    <3> QED
      BY <1>2, <1>4, <3>1, <3>2 DEF IdsAreFresh
  <2> QED
    BY <1>1, <2>2, <2>3, <2>4 DEF IdsAreFresh
<1>12. WaitsForItsOwn'
  BY <1>1 DEF WaitsForItsOwn, Waits, InProgress
<1>13. EndsOnce'
  BY <1>1 DEF EndsOnce
<1> QED
  BY <1>6, <1>8, <1>10, <1>11, <1>12, <1>13

LEMMA IInvStep == IInv /\ [Next]_vars => IInv'
<1> SUFFICES ASSUME IInv, [Next]_vars
             PROVE  IInv'
  OBVIOUS
<1>1. CASE AdapterStep
  BY <1>1, NotifyEndsKeepIInv, AskKeepsIInv, AnswerKeepsIInv, WrittenKeepsIInv DEF AdapterStep
<1>2. ASSUME NEW i \in Requests, ThreadStep(i)
      PROVE  IInv'
  <2>1. CASE ThreadWaits(i)
    BY <2>1, ThreadWaitsKeepsIInv
  <2>2. CASE ThreadAnswered(i)
    <3>1. Waits(i) /\ thread[i].session \in Sessions
      BY <2>2 DEF ThreadAnswered, Waits, IInv, TypeOK, Thread
    <3>2. session[thread[i].session].resp \in Response
      BY <3>1 DEF IInv, TypeOK, Session
    <3> QED
      BY <2>2, <3>1, <3>2, LeaveKeepsIInv DEF ThreadAnswered
  <2>3. CASE ThreadTimesOut(i)
    <3>1. Waits(i) /\ "noResponse" \in Response
      BY <2>3 DEF ThreadTimesOut, Waits, Response
    <3> QED
      BY <2>3, <3>1, LeaveKeepsIInv DEF ThreadTimesOut
  <2>4. CASE ThreadEnds(i)
    BY <2>4, ThreadEndsKeepsIInv
  <2> QED
    BY <1>2, <2>1, <2>2, <2>3, <2>4 DEF ThreadStep
<1>3. CASE RequestNi \/ ClientAnswers \/ ClientComesOrGoes
  BY <1>3, RequestKeepsIInv, ClientsKeepIInv
<1>4. CASE UNCHANGED vars
  <2>1. TypeOK'
    BY <1>4 DEF IInv, TypeOK, vars, adapterVars
  <2>2. OnlyOpenAreHeld' /\ HeldOnce'
    BY <1>4 DEF IInv, OnlyOpenAreHeld, HeldOnce, vars, adapterVars, InProgress, Passes, Open
  <2>3. IdsAreFresh' /\ EndsOnce'
    BY <1>4 DEF IInv, IdsAreFresh, EndsOnce, vars, adapterVars
  <2>4. WaitsForItsOwn'
    BY <1>4 DEF IInv, WaitsForItsOwn, vars, adapterVars, Waits, InProgress
  <2> QED
    BY <2>1, <2>2, <2>3, <2>4 DEF IInv
<1> QED
  BY <1>1, <1>2, <1>3, <1>4 DEF Next

LEMMA IInvHolds == Spec => []IInv
<1> QED
  BY IInvInit, IInvStep, PTL DEF Spec

(* No request of the modem ends twice, however threads, answers and deadlines  *)
(* interleave: the safety part of EveryRequestEndsOnce, for any number of      *)
(* requests (requestNiNotify, niThreadProc, informNiResponse).                 *)
THEOREM NoRequestEndsTwice == Spec => [](TypeOK /\ EndsOnce)
<1>1. IInv => TypeOK /\ EndsOnce
  BY DEF IInv
<1> QED
  BY <1>1, IInvHolds, PTL

----------------------------------------------------------------------------
(* Where no thread is preempted.                                               *)

Prompt == AnswersFit /\ WritesAreAwaited /\ IdsAgree

(* When the adapter goes on, no thread has an answer that is not yet passed on, *)
(* and when it has nothing to write, no session's request is settled.          *)
LEMMA QuietFacts ==
  ASSUME IInv, Prompt, world = "prompt", AdapterRuns
  PROVE  /\ \A s \in Sessions : ~session[s].respRecvd
         /\ \A i \in Requests : thread[i].phase # "unlocked" /\ ~Passes(i)
         /\ writes = <<>> => \A s \in Sessions : InProgress(s) => ~Settles(session[s].rawRequest)
<1>1. \A i \in Requests : ~Runnable(i)
  BY DEF AdapterRuns
<1>2. \A i \in Requests : thread[i].phase # "unlocked" /\ ~Passes(i)
  BY <1>1 DEF Runnable, Passes
<1>3. \A s \in Sessions : ~session[s].respRecvd
  <2> SUFFICES ASSUME NEW s \in Sessions, session[s].respRecvd
               PROVE  FALSE
    OBVIOUS
  <2>1. PICK i \in Requests : Waits(i) /\ thread[i].session = s
    BY DEF Prompt, WritesAreAwaited, IInv, WaitsForItsOwn
  <2> QED
    BY <1>1, <2>1 DEF Runnable, Waits
<1>4. ASSUME writes = <<>>, NEW s \in Sessions, InProgress(s)
      PROVE  ~Settles(session[s].rawRequest)
  BY <1>3, <1>4 DEF Prompt, AnswersFit
<1> QED
  BY <1>2, <1>3, <1>4

(* The thread that waits for session s has the session's id, and the request   *)
(* in it was asked under that id and no other.                                 *)
LEMMA SessionIds ==
  ASSUME IInv, Prompt, NEW s \in Sessions, InProgress(s)
  PROVE  /\ session[s].rawRequest \in DOMAIN request /\ Open(session[s].rawRequest)
         /\ request[session[s].rawRequest].asked = session[s].reqID
         /\ session[s].reqID \in Requests /\ session[s].reqID # None
         /\ \A q \in DOMAIN request :
              request[q].asked = session[s].reqID => q = session[s].rawRequest
<1>1. PICK i \in Requests : Waits(i) /\ thread[i].session = s
  BY DEF IInv, WaitsForItsOwn
<1>2. session[s].reqID = i /\ request[thread[i].raw].asked = i /\ session[s].rawRequest = thread[i].raw
  BY <1>1 DEF Prompt, IdsAgree, IInv, WaitsForItsOwn
<1>3. i # None
  BY DEF Requests, None
<1>4. Open(session[s].rawRequest) /\ session[s].rawRequest \in DOMAIN request
  BY DEF IInv, OnlyOpenAreHeld, Open
<1> QED
  BY <1>2, <1>3, <1>4 DEF Prompt, IdsAgree

LEMMA PromptInit == Init => PromptInv
<1> SUFFICES ASSUME Init
             PROVE  Prompt
  BY DEF PromptInv, Prompt
<1>1. \A i \in Requests : thread[i].phase = "none" /\ user[i].answered = "none" /\ user[i].told = "none"
  BY DEF Init, NoThread
<1>2. \A s \in Sessions : ~InProgress(s) /\ ~session[s].respRecvd
  BY DEF Init, InProgress
<1>3. queue = <<>> /\ request = <<>> /\ writes = <<>>
  BY DEF Init
<1>4. AnswersFit
  BY <1>1, <1>2, <1>3 DEF AnswersFit, Passes
<1>5. WritesAreAwaited
  BY <1>2, <1>3 DEF WritesAreAwaited
<1>6. IdsAgree
  BY <1>1, <1>3 DEF IdsAgree, Waits
<1> QED
  BY <1>4, <1>5, <1>6 DEF Prompt

(* A message is taken and the request in it may end with what fits it; and to  *)
(* some of the sessions in progress something is to be written: their requests *)
(* may be superseded, or their client be told SUCCESS.                         *)
Touched(W, q) == \E s \in W : q = session[s].rawRequest

RequestsAfter(W) ==
  /\ DOMAIN request' = DOMAIN request
  /\ \A q \in DOMAIN request :
       /\ request'[q].asked = request[q].asked
       /\ request'[q].superseded => request[q].superseded \/ Touched(W, q)
       /\ \/ request'[q].ends = request[q].ends /\ request'[q].became = request[q].became
          \/ request'[q].ends # 0 /\ Fits(q, request'[q].became) /\ ~Touched(W, q)

UsersAfter(W) ==
  \A i \in Requests :
    /\ user'[i].answered = user[i].answered
    /\ user'[i].told # "none" => user'[i].answered # "none"
    /\ user'[i].told = "success" => user[i].told = "success" \/ \E s \in W : i = session[s].reqID

WritesAfter(W) ==
  /\ \A k \in DOMAIN writes' :
       /\ writes'[k].session \in W
       /\ FitsIn(request', user', session[writes'[k].session].rawRequest, writes'[k].resp)
  /\ \A k, l \in DOMAIN writes' : k # l => writes'[k].session # writes'[l].session
  /\ \A s \in W : \E k \in DOMAIN writes' : writes'[k].session = s

LEMMA TakenKeepsPrompt ==
  ASSUME IInv, Prompt, world = "prompt", NEW kind, Take(kind),
         UNCHANGED <<session, reqIDCounter, thread>>,
         NEW W \in SUBSET Sessions, \A s \in W : InProgress(s),
         RequestsAfter(W), UsersAfter(W), WritesAfter(W)
  PROVE  Prompt'
<1>1. /\ \A k \in DOMAIN queue' : k + 1 \in DOMAIN queue /\ queue'[k] = queue[k + 1]
      /\ queue \in Seq(Message) /\ writes = <<>> /\ AdapterRuns
  BY TakeFacts DEF Take, IInv, TypeOK
<1>2. /\ \A s \in Sessions : ~session[s].respRecvd
      /\ \A i \in Requests : thread[i].phase # "unlocked" /\ ~Passes(i)
      /\ \A s \in Sessions : InProgress(s) => ~Settles(session[s].rawRequest)
  BY <1>1, QuietFacts
<1>3. \A q \in DOMAIN request : \A s \in W : request[q].asked = session[s].reqID => Touched(W, q)
  BY SessionIds DEF Touched
<1>4. \A q \in DOMAIN request : request[q].asked \in Requests \cup {None}
  <2>1. \A q \in DOMAIN request : request[q] \in Request
    BY DEF IInv, TypeOK
  <2> QED
    BY <2>1 DEF Request
<1>5. ASSUME NEW q \in DOMAIN request, ~Touched(W, q)
      PROVE  /\ SettledIn(request', user', q) => Settles(q)
             /\ \A resp : Fits(q, resp) => FitsIn(request', user', q, resp)
  <2>1. request[q].asked # None /\ user'[request[q].asked].told = "success" => user[request[q].asked].told = "success"
    BY <1>3, <1>4, <1>5 DEF UsersAfter
  <2>2. request'[q].asked = request[q].asked /\ (request'[q].superseded => request[q].superseded)
    BY <1>5 DEF RequestsAfter
  <2>3. request[q].asked # None => user'[request[q].asked].answered = user[request[q].asked].answered
    BY <1>4 DEF UsersAfter
  <2> QED
    BY <2>1, <2>2, <2>3 DEF Settles, Fits, SettledIn, FitsIn
<1>6. /\ \A k \in DOMAIN queue : Carries(queue[k]) => queue[k].r \in DOMAIN request /\ ~Touched(W, queue[k].r)
      /\ \A s \in Sessions \ W : InProgress(s) =>
           session[s].rawRequest \in DOMAIN request /\ ~Touched(W, session[s].rawRequest)
      /\ \A q \in DOMAIN request : Touched(W, q) => request[q].ends = 0
  <2>1. \A k \in DOMAIN queue : Carries(queue[k]) => queue[k].r \in DOMAIN request /\ ~Touched(W, queue[k].r)
    BY HeldAreRequests DEF IInv, HeldOnce, Touched
  <2>2. \A s \in Sessions \ W : InProgress(s) =>
          session[s].rawRequest \in DOMAIN request /\ ~Touched(W, session[s].rawRequest)
    BY HeldAreRequests DEF IInv, HeldOnce, Touched
  <2>3. \A q \in DOMAIN request : Touched(W, q) => request[q].ends = 0
    BY SessionIds DEF Open, Touched
  <2> QED
    BY <2>1, <2>2, <2>3
<1>7. AnswersFit'
  <2>1. ASSUME NEW q \in DOMAIN request
        PROVE  IF request'[q].ends = 0 THEN request'[q].became = "open"
               ELSE FitsIn(request', user', q, request'[q].became)
    <3>1. IF request[q].ends = 0 THEN request[q].became = "open" ELSE Fits(q, request[q].became)
      BY DEF Prompt, AnswersFit
    <3>2. CASE Touched(W, q)
      BY <1>6, <3>1, <3>2 DEF RequestsAfter
    <3>3. CASE ~Touched(W, q)
      BY <1>5, <3>1, <3>3 DEF RequestsAfter
    <3> QED
      BY <3>2, <3>3
  <2>2. ASSUME NEW k \in DOMAIN queue'
        PROVE  /\ queue'[k].kind = "inform" => FitsIn(request', user', queue'[k].r, queue'[k].resp)
               /\ queue'[k].kind = "notify" =>
                    ~SettledIn(request', user', queue'[k].r) /\ request'[queue'[k].r].asked = None
    <3>1. k + 1 \in DOMAIN queue /\ queue'[k] = queue[k + 1]
      BY <1>1
    <3> SUFFICES ASSUME NEW m, m = queue[k + 1]
                 PROVE  /\ m.kind = "inform" => FitsIn(request', user', m.r, m.resp)
                        /\ m.kind = "notify" =>
                             ~SettledIn(request', user', m.r) /\ request'[m.r].asked = None
      BY <3>1
    <3>2. Carries(m) => m.r \in DOMAIN request /\ ~Touched(W, m.r)
      BY <1>6, <3>1
    <3>3. /\ m.kind = "inform" => Fits(m.r, m.resp)
          /\ m.kind = "notify" => ~Settles(m.r) /\ request[m.r].asked = None
      BY <3>1 DEF Prompt, AnswersFit
    <3> QED
      BY <1>5, <3>2, <3>3 DEF Carries, RequestsAfter
  <2>3. ASSUME NEW s \in Sessions, InProgress(s), SettledIn(request', user', session[s].rawRequest)
        PROVE  \E k \in DOMAIN writes' : writes'[k].session = s
    <3>1. CASE s \in W
      BY <3>1 DEF WritesAfter
    <3>2. CASE s \notin W
      BY <1>2, <1>5, <1>6, <2>3, <3>2
    <3> QED
      BY <3>1, <3>2
  <2>4. \A i \in Requests : ~Passes(i)'
    BY <1>2 DEF Passes
  <2>5. DOMAIN request' = DOMAIN request
    BY DEF RequestsAfter
  <2> QED
    BY <1>2, <2>1, <2>2, <2>3, <2>4, <2>5 DEF AnswersFit, InProgress, Fits, Settles
<1>8. WritesAreAwaited'
  <2>1. \A k \in DOMAIN writes' : writes'[k].session \in Sessions /\ session[writes'[k].session].rawRequest # None
    BY DEF WritesAfter, InProgress
  <2> QED
    BY <1>2, <2>1 DEF WritesAreAwaited, WritesAfter, InProgress, Fits
<1>9. IdsAgree'
  <2>1. \A i \in Requests : Waits(i) => thread[i].raw \in DOMAIN request
    <3>1. \A i \in Requests : thread[i].session \in Sessions
      BY DEF IInv, TypeOK, Thread
    <3> QED
      BY <3>1, HeldAreRequests DEF IInv, WaitsForItsOwn
  <2>2. \A i \in Requests : Waits(i)' <=> Waits(i)
    BY DEF Waits
  <2>3. \A k \in DOMAIN queue' : queue'[k].kind = "answer" => user'[queue'[k].id].answered = queue'[k].resp
    <3>1. \A m \in Message : m.kind = "answer" => m.id \in Requests
      BY DEF Message
    <3>2. \A k \in DOMAIN queue : queue[k] \in Message
      BY <1>1
    <3> QED
      BY <1>1, <3>1, <3>2 DEF Prompt, IdsAgree, UsersAfter
  <2> QED
    BY <1>2, <2>1, <2>2, <2>3 DEF Prompt, IdsAgree, RequestsAfter, UsersAfter
<1> QED
  BY <1>7, <1>8, <1>9 DEF Prompt

LEMMA NotifyEndsKeepPrompt ==
  IInv /\ Prompt /\ world = "prompt" /\ (NotifyDecided \/ NotifyNobody \/ NotifyBusy \/ Inform) => Prompt'
<1> SUFFICES ASSUME IInv, Prompt, world = "prompt", NotifyDecided \/ NotifyNobody \/ NotifyBusy \/ Inform
             PROVE  Prompt'
  OBVIOUS
<1>1. request \in Seq(Request)
  BY DEF IInv, TypeOK
<1>2. ASSUME NEW kind \in {"notify", "inform"}, Take(kind)
      PROVE  /\ Msg \in Message /\ Msg.kind = kind /\ Msg.r \in DOMAIN request /\ request[Msg.r].ends = 0
             /\ kind = "notify" => \A how : Fits(Msg.r, how)
             /\ kind = "inform" => Fits(Msg.r, Msg.resp)
             /\ \A s \in Sessions : InProgress(s) => session[s].rawRequest # Msg.r
  <2>1. Msg \in Message /\ Msg.kind = kind /\ 1 \in DOMAIN queue /\ queue[1] = Msg
    BY <1>2, TakeFacts
  <2>2. Open(Msg.r) /\ \A s \in Sessions : session[s].rawRequest # Msg.r
    BY <2>1 DEF IInv, OnlyOpenAreHeld, HeldOnce, Carries
  <2>3. /\ kind = "notify" => ~Settles(Msg.r) /\ request[Msg.r].asked = None
        /\ kind = "inform" => Fits(Msg.r, Msg.resp)
    BY <2>1 DEF Prompt, AnswersFit
  <2> QED
    BY <2>1, <2>2, <2>3 DEF Open, Fits, FitsIn, Settles, SettledIn
<1>3. UsersAfter({}) /\ UNCHANGED <<session, reqIDCounter, thread, user>>
  BY DEF NotifyDecided, NotifyNobody, NotifyBusy, Inform, adapterVars, UsersAfter, Prompt, IdsAgree
<1>4. ASSUME NEW kind \in {"notify", "inform"}, Take(kind), writes' = <<>>,
             NEW how \in Became, Fits(Msg.r, how), request' = End(request, Msg.r, how)
      PROVE  Prompt'
  <2>1. RequestsAfter({})
    <3>1. request[Msg.r].ends = 0 /\ Msg.r \in DOMAIN request
      BY <1>2, <1>4
    <3> QED
      BY <1>1, <1>4, <3>1, EndFacts DEF RequestsAfter, Touched
  <2>2. WritesAfter({})
    BY <1>4 DEF WritesAfter
  <2> QED
    BY <1>3, <1>4, <2>1, <2>2, TakenKeepsPrompt
<1>5. CASE NotifyDecided
  <2>1. PICK how \in {"deny", "accept"} : request' = End(request, Msg.r, how)
    BY <1>5 DEF NotifyDecided
  <2>2. how \in Became
    BY DEF Became, Response, Answers
  <2>3. Take("notify") /\ writes' = <<>>
    BY <1>5 DEF NotifyDecided, Take, adapterVars
  <2> QED
    BY <1>2, <1>4, <2>1, <2>2, <2>3
<1>6. CASE NotifyBusy
  <2>1. Take("notify") /\ writes' = <<>> /\ request' = End(request, Msg.r, "freed") /\ "freed" \in Became
    BY <1>6 DEF NotifyBusy, Take, adapterVars, Became
  <2> QED
    BY <1>2, <1>4, <2>1
<1>7. CASE Inform
  <2>1. Take("inform") /\ writes' = <<>> /\ request' = End(request, Msg.r, Msg.resp)
    BY <1>7 DEF Inform, Take, adapterVars
  <2>2. Msg.resp \in Became
    BY <1>2, <2>1 DEF Message, Became
  <2> QED
    BY <1>2, <1>4, <2>1, <2>2
<1>8. CASE NotifyNobody
  <2>1. Take("notify") /\ writes = <<>> /\ AdapterRuns
    BY <1>8 DEF NotifyNobody, Take
  <2>2. CASE request[Msg.r].for # "es"
    <3>1. request' = End(request, Msg.r, "dropped") /\ writes' = <<>> /\ "dropped" \in Became
      BY <1>8, <2>1, <2>2 DEF NotifyNobody, Became
    <3> QED
      BY <1>2, <1>4, <2>1, <3>1
  <2>3. CASE request[Msg.r].for = "es"
    <3> DEFINE mid == End(request, Msg.r, "accept")
               W == IF InProgress("nonEs") THEN {"nonEs"} ELSE {}
               raw == session["nonEs"].rawRequest
    <3>1. request' = Supersede(mid) /\ writes' = IgnoreNonEs
      BY <1>8, <2>3 DEF NotifyNobody
    <3>2. "accept" \in Became
      BY DEF Became, Response, Answers
    <3>3. Msg.r \in DOMAIN request /\ request[Msg.r].ends = 0 /\ Fits(Msg.r, "accept")
          /\ \A s \in Sessions : InProgress(s) => session[s].rawRequest # Msg.r
      BY <1>2, <2>1
    <3>4. /\ mid \in Seq(Request) /\ DOMAIN mid = DOMAIN request
          /\ mid[Msg.r].became = "accept" /\ mid[Msg.r].ends = request[Msg.r].ends + 1
          /\ \A q \in DOMAIN request : mid[q].asked = request[q].asked /\ mid[q].superseded = request[q].superseded
          /\ \A q \in DOMAIN request : q # Msg.r => mid[q] = request[q]
      BY <1>1, <3>2, <3>3, EndFacts
    <3> HIDE DEF mid
    <3>5. /\ DOMAIN Supersede(mid) = DOMAIN mid
          /\ \A q \in DOMAIN mid :
               /\ Supersede(mid)[q].ends = mid[q].ends /\ Supersede(mid)[q].became = mid[q].became
               /\ Supersede(mid)[q].asked = mid[q].asked
               /\ ~(InProgress("nonEs") /\ q = raw) => Supersede(mid)[q] = mid[q]
      BY <3>4, HeldAreRequests, SupersedeFacts DEF Sessions
    <3>6. W \in SUBSET Sessions /\ \A s \in W : InProgress(s)
      BY DEF Sessions
    <3>7. \A q : Touched(W, q) <=> InProgress("nonEs") /\ q = raw
      BY DEF Touched
    <3>8. RequestsAfter(W)
      <4> SUFFICES ASSUME NEW q \in DOMAIN request
                   PROVE  /\ request'[q].asked = request[q].asked
                          /\ request'[q].superseded => request[q].superseded \/ Touched(W, q)
                          /\ \/ request'[q].ends = request[q].ends /\ request'[q].became = request[q].became
                             \/ request'[q].ends # 0 /\ Fits(q, request'[q].became) /\ ~Touched(W, q)
        BY <3>1, <3>4, <3>5 DEF RequestsAfter
      <4>1. request'[q].asked = request[q].asked
        BY <3>1, <3>4, <3>5
      <4>2. request'[q].superseded => request[q].superseded \/ Touched(W, q)
        BY <3>1, <3>4, <3>5, <3>7
      <4>3. CASE q = Msg.r
        <5>1. ~Touched(W, q)
          BY <3>3, <3>7, <4>3 DEF Sessions
        <5> QED
          BY <3>1, <3>3, <3>4, <3>5, <4>1, <4>2, <4>3, <5>1
      <4>4. CASE q # Msg.r
        BY <3>1, <3>4, <3>5, <4>1, <4>2, <4>4
      <4> QED
        BY <4>3, <4>4
    <3>9. WritesAfter(W)
      <4>1. CASE InProgress("nonEs")
        <5>1. writes' = <<[session |-> "nonEs", resp |-> "ignore"]>> /\ W = {"nonEs"}
          BY <3>1, <4>1 DEF IgnoreNonEs
        <5>2. FitsIn(request', user', raw, "ignore")
          <6>1. ~Settles(raw) /\ raw \in DOMAIN request
            BY <2>1, <4>1, QuietFacts, HeldAreRequests DEF Sessions
          <6>2. request'[raw].asked = request[raw].asked /\ user' = user
            BY <1>3, <3>1, <3>4, <3>5, <6>1
          <6> QED
            BY <6>1, <6>2 DEF FitsIn, Settles, SettledIn, Answers
        <5> QED
          BY <5>1, <5>2 DEF WritesAfter
      <4>2. CASE ~InProgress("nonEs")
        BY <3>1, <4>2 DEF IgnoreNonEs, WritesAfter
      <4> QED
        BY <4>1, <4>2
    <3>10. UsersAfter(W)
      BY <1>3 DEF UsersAfter
    <3> HIDE DEF W
    <3> QED
      BY <1>3, <2>1, <3>6, <3>8, <3>9, <3>10, TakenKeepsPrompt
  <2> QED
    BY <2>2, <2>3
<1> QED
  BY <1>5, <1>6, <1>7, <1>8

LEMMA ConcatElements ==
  ASSUME NEW x, NEW y
  PROVE  /\ DOMAIN (<<x>> \o <<y>>) = {1, 2} /\ (<<x>> \o <<y>>)[1] = x /\ (<<x>> \o <<y>>)[2] = y
         /\ DOMAIN (<<>> \o <<y>>) = {1} /\ (<<>> \o <<y>>)[1] = y
<1>1. <<x>> \in Seq({x, y}) /\ <<y>> \in Seq({x, y}) /\ <<>> \in Seq({x, y})
  OBVIOUS
<1>2. \A p, q \in Seq({x, y}) : /\ p \o q \in Seq({x, y}) /\ Len(p \o q) = Len(p) + Len(q)
                                /\ DOMAIN (p \o q) = 1..(Len(p) + Len(q))
                                /\ \A k \in 1..(Len(p) + Len(q)) :
                                     (p \o q)[k] = IF k <= Len(p) THEN p[k] ELSE q[k - Len(p)]
  OBVIOUS
<1>3. Len(<<x>>) = 1 /\ Len(<<y>>) = 1 /\ <<x>>[1] = x /\ <<y>>[1] = y /\ Len(<<>>) = 0
  OBVIOUS
<1>4. 1..(1 + 1) = {1, 2} /\ 1..(0 + 1) = {1} /\ 2 - 1 = 1 /\ 1 - 0 = 1
  OBVIOUS
<1>5. DOMAIN (<<x>> \o <<y>>) = {1, 2} /\ (<<x>> \o <<y>>)[1] = x /\ (<<x>> \o <<y>>)[2] = y
  BY <1>1, <1>2, <1>3, <1>4
<1>6. DOMAIN (<<>> \o <<y>>) = {1} /\ (<<>> \o <<y>>)[1] = y
  BY <1>1, <1>2, <1>3, <1>4
<1> QED
  BY <1>5, <1>6

LEMMA ClientChangesKeepsPrompt == IInv /\ Prompt /\ world = "prompt" /\ ClientChanges => Prompt'
<1> SUFFICES ASSUME IInv, Prompt, world = "prompt", ClientChanges
             PROVE  Prompt'
  OBVIOUS
<1>1. Take("client") /\ writes' = <<>> /\ UNCHANGED <<session, reqIDCounter, thread, request, user>>
  BY DEF ClientChanges, adapterVars, Take
<1>2. RequestsAfter({}) /\ UsersAfter({}) /\ WritesAfter({})
  BY <1>1 DEF RequestsAfter, UsersAfter, WritesAfter, Prompt, IdsAgree
<1> QED
  BY <1>1, <1>2, TakenKeepsPrompt

(* The answer goes to the one session with its id, and "ignore" to the other   *)
(* session if that is to be superseded.                                        *)
LEMMA AnswerKeepsPrompt == IInv /\ Prompt /\ world = "prompt" /\ AnswerLookedUp => Prompt'
<1> SUFFICES ASSUME IInv, Prompt, world = "prompt", AnswerLookedUp
             PROVE  Prompt'
  OBVIOUS
<1>1. /\ Take("answer") /\ writes = <<>> /\ AdapterRuns
      /\ UNCHANGED <<session, reqIDCounter, thread, callback, world>>
  BY DEF AnswerLookedUp, Take
<1>2. Msg.kind = "answer" /\ Msg.id \in Requests /\ Msg.resp \in Answers /\ user[Msg.id].answered = Msg.resp
  <2>1. Msg \in Message /\ Msg.kind = "answer" /\ 1 \in DOMAIN queue /\ queue[1] = Msg
    BY <1>1, TakeFacts
  <2>2. user[Msg.id].answered = Msg.resp
    BY <2>1 DEF Prompt, IdsAgree
  <2> QED
    BY <2>1, <2>2 DEF Message
<1>3. \A s \in Sessions : InProgress(s) => ~Settles(session[s].rawRequest)
  BY <1>1, QuietFacts
<1>4. "es" \in Sessions /\ "nonEs" \in Sessions /\ request \in Seq(Request)
  BY DEF Sessions, IInv, TypeOK
<1> DEFINE Active(s) == session[s].reqID = Msg.id /\ InProgress(s)
           found == callback /\ \E s \in Sessions : Active(s)
           both == found /\ Active("es") /\ Msg.resp = "accept" /\ InProgress("nonEs")
           own == IF Active("es") THEN "es" ELSE "nonEs"
           W == IF ~found THEN {} ELSE IF both THEN {own, "nonEs"} ELSE {own}
           rawN == session["nonEs"].rawRequest
           answer == [session |-> own, resp |-> Msg.resp]
           ignore == [session |-> "nonEs", resp |-> "ignore"]
<1>5. /\ ~found => DOMAIN writes' = {}
      /\ found /\ ~both => DOMAIN writes' = {1} /\ writes'[1] = answer
      /\ found /\ both => DOMAIN writes' = {1, 2} /\ writes'[1] = ignore /\ writes'[2] = answer
  <2>1. writes' = IF ~found THEN <<>>
                  ELSE IF Active("es")
                  THEN (IF Msg.resp = "accept" THEN IgnoreNonEs ELSE <<>>) \o <<answer>>
                  ELSE <<answer>>
    BY DEF AnswerLookedUp
  <2>2. IgnoreNonEs = IF InProgress("nonEs") THEN <<ignore>> ELSE <<>>
    BY DEF IgnoreNonEs
  <2>3. DOMAIN <<answer>> = {1} /\ <<answer>>[1] = answer /\ DOMAIN <<>> = {}
    <3> HIDE DEF answer
    <3> QED
      OBVIOUS
  <2>4. /\ DOMAIN (<<ignore>> \o <<answer>>) = {1, 2}
        /\ (<<ignore>> \o <<answer>>)[1] = ignore /\ (<<ignore>> \o <<answer>>)[2] = answer
        /\ DOMAIN (<<>> \o <<answer>>) = {1} /\ (<<>> \o <<answer>>)[1] = answer
    <3> HIDE DEF ignore, answer
    <3> QED
      BY ConcatElements
  <2>5. found /\ both => writes' = <<ignore>> \o <<answer>>
    BY <2>1, <2>2
  <2>6. found /\ ~both => writes' = <<>> \o <<answer>> \/ writes' = <<answer>>
    BY <2>1, <2>2
  <2>7. ~found => writes' = <<>>
    BY <2>1
  <2> HIDE DEF ignore, answer, found, both
  <2> QED
    BY <2>3, <2>4, <2>5, <2>6, <2>7
<1>6. user' = [user EXCEPT ![Msg.id].told = IF found THEN "success" ELSE "id_unknown"]
  BY DEF AnswerLookedUp
<1>7. /\ DOMAIN request' = DOMAIN request
      /\ \A q \in DOMAIN request :
           /\ request'[q].ends = request[q].ends /\ request'[q].became = request[q].became
           /\ request'[q].asked = request[q].asked
           /\ ~(both /\ q = rawN) => request'[q].superseded = request[q].superseded
  <2>1. InProgress("nonEs") => rawN \in DOMAIN request
    BY <1>4, HeldAreRequests
  <2>2. /\ DOMAIN Supersede(request) = DOMAIN request
        /\ \A q \in DOMAIN request :
             /\ Supersede(request)[q].ends = request[q].ends /\ Supersede(request)[q].became = request[q].became
             /\ Supersede(request)[q].asked = request[q].asked
             /\ ~(InProgress("nonEs") /\ q = rawN) => Supersede(request)[q] = request[q]
    BY <1>4, <2>1, SupersedeFacts
  <2>3. request' = IF found /\ Active("es") /\ Msg.resp = "accept" THEN Supersede(request) ELSE request
    BY DEF AnswerLookedUp
  <2>4. CASE found /\ Active("es") /\ Msg.resp = "accept"
    BY <2>2, <2>3, <2>4
  <2>5. CASE ~(found /\ Active("es") /\ Msg.resp = "accept")
    BY <2>3, <2>5
  <2> QED
    BY <2>4, <2>5
<1>8. found => own \in Sessions /\ Active(own)
  BY DEF Sessions
<1>9. both => own = "es" /\ InProgress("nonEs") /\ "es" # "nonEs"
  OBVIOUS
<1>10. answer.session = own /\ answer.resp = Msg.resp /\ ignore.session = "nonEs" /\ ignore.resp = "ignore"
  OBVIOUS
<1> HIDE DEF found, both, own, answer, ignore
<1>11. W \in SUBSET Sessions /\ \A s \in W : InProgress(s)
  BY <1>4, <1>8, <1>9 DEF W
<1>12. RequestsAfter(W)
  <2>1. both => found
    BY DEF both
  <2>2. \A q : both /\ q = rawN => Touched(W, q)
    BY <2>1 DEF Touched
  <2> QED
    BY <1>7, <2>2 DEF RequestsAfter
<1>13. UsersAfter(W)
  <2>1. user \in [Requests -> [answered: Answers \cup {"none"}, told: {"none", "success", "id_unknown"}]]
    BY DEF IInv, TypeOK
  <2>2. \A i \in Requests : /\ user'[i].answered = user[i].answered
                            /\ i # Msg.id => user'[i] = user[i]
                            /\ i = Msg.id => user'[i].told = IF found THEN "success" ELSE "id_unknown"
    BY <1>2, <1>6, <2>1
  <2>3. found => \E s \in W : Msg.id = session[s].reqID
    BY <1>8
  <2>4. user[Msg.id].answered # "none"
    BY <1>2 DEF Answers
  <2> QED
    BY <1>2, <2>2, <2>3, <2>4 DEF UsersAfter, Prompt, IdsAgree
<1>14. WritesAfter(W)
  <2>1. found => FitsIn(request', user', session[own].rawRequest, Msg.resp)
    <3> SUFFICES ASSUME found
                 PROVE  FitsIn(request', user', session[own].rawRequest, Msg.resp)
      OBVIOUS
    <3> DEFINE r == session[own].rawRequest
    <3>1. r \in DOMAIN request /\ request[r].asked = Msg.id /\ ~Settles(r)
      BY <1>3, <1>8, SessionIds
    <3>2. request'[r].asked = Msg.id /\ user'[Msg.id].answered = Msg.resp
      BY <1>2, <1>7, <1>13, <3>1 DEF UsersAfter
    <3>3. request'[r].superseded => Msg.resp # "accept"
      <4>1. both => r # rawN
        BY <1>4, <1>8, <1>9 DEF IInv, HeldOnce
      <4>2. request'[r].superseded = request[r].superseded
        BY <1>7, <3>1, <4>1
      <4> QED
        BY <3>1, <4>2 DEF Settles, SettledIn
    <3> QED
      BY <3>2, <3>3 DEF FitsIn
  <2>2. both => FitsIn(request', user', rawN, "ignore")
    <3> SUFFICES ASSUME both
                 PROVE  FitsIn(request', user', rawN, "ignore")
      OBVIOUS
    <3>1. /\ rawN \in DOMAIN request /\ ~Settles(rawN) /\ request[rawN].asked = session["nonEs"].reqID
          /\ request[rawN].asked \in Requests
      BY <1>3, <1>4, <1>9, SessionIds
    <3>2. request[rawN].asked # Msg.id
      <4>1. request[session[own].rawRequest].asked = Msg.id /\ session[own].rawRequest # rawN
        <5>1. found
          BY DEF both
        <5> QED
          BY <1>4, <1>8, <1>9, <5>1, SessionIds DEF IInv, HeldOnce
      <4>2. \A q \in DOMAIN request : request[q].asked = session["nonEs"].reqID => q = rawN
        BY <1>4, <1>9, SessionIds
      <4>3. session[own].rawRequest \in DOMAIN request
        BY <1>8, SessionIds DEF both
      <4> QED
        BY <3>1, <4>1, <4>2, <4>3
    <3>3. user'[request[rawN].asked] = user[request[rawN].asked]
      BY <1>6, <3>1, <3>2 DEF IInv, TypeOK
    <3>4. request'[rawN].asked = request[rawN].asked
      BY <1>7, <3>1
    <3> QED
      BY <3>1, <3>3, <3>4 DEF FitsIn, Settles, SettledIn, Answers
  <2>3. CASE ~found
    BY <1>5, <2>3 DEF WritesAfter
  <2>4. CASE found /\ ~both
    BY <1>5, <1>10, <2>1, <2>4 DEF WritesAfter
  <2>5. CASE found /\ both
    <3>1. DOMAIN writes' = {1, 2} /\ writes'[1] = ignore /\ writes'[2] = answer /\ W = {own, "nonEs"} /\ own # "nonEs"
      BY <1>5, <1>9, <2>5
    <3> QED
      BY <1>10, <2>1, <2>2, <2>5, <3>1 DEF WritesAfter
  <2> QED
    BY <2>3, <2>4, <2>5
<1> HIDE DEF W
<1> QED
  BY <1>1, <1>11, <1>12, <1>13, <1>14, TakenKeepsPrompt

LEMMA TailKeepsElements ==
  ASSUME NEW S, NEW q \in Seq(S), q # <<>>
  PROVE  /\ \A k \in DOMAIN q : k # 1 => k - 1 \in DOMAIN Tail(q) /\ Tail(q)[k - 1] = q[k]
         /\ \A k, l \in DOMAIN Tail(q) : k # l => k + 1 # l + 1
  OBVIOUS

LEMMA WrittenKeepsPrompt == IInv /\ Prompt /\ world = "prompt" /\ AnswerWritten => Prompt'
<1> SUFFICES ASSUME IInv, Prompt, world = "prompt", AnswerWritten
             PROVE  Prompt'
  OBVIOUS
<1> SUFFICES ASSUME NEW w, w = Head(writes), NEW s, s = w.session
             PROVE  Prompt'
  OBVIOUS
<1>1. writes # <<>> /\ AdapterRuns /\ writes' = Tail(writes)
      /\ UNCHANGED <<queue, reqIDCounter, thread, callback, request, user, world>>
      /\ session' = [session EXCEPT ![s].resp = w.resp, ![s].respRecvd = TRUE]
  BY DEF AnswerWritten
<1>2. writes \in Seq(Write)
  BY DEF IInv, TypeOK, Write
<1>3. /\ w \in Write /\ 1 \in DOMAIN writes /\ writes[1] = w
      /\ \A k \in DOMAIN writes' : k + 1 \in DOMAIN writes /\ k + 1 # 1 /\ writes'[k] = writes[k + 1]
      /\ \A k, l \in DOMAIN writes' : k # l => k + 1 # l + 1
      /\ \A k \in DOMAIN writes : k # 1 => k - 1 \in DOMAIN writes' /\ writes'[k - 1] = writes[k]
  BY <1>1, <1>2, TailElements, TailKeepsElements
<1>4. s \in Sessions /\ w.resp \in Response
  BY <1>3 DEF Write
<1>5. InProgress(s) /\ Fits(session[s].rawRequest, w.resp)
  BY <1>3 DEF Prompt, WritesAreAwaited
<1>6. /\ \A t \in Sessions : session'[t].rawRequest = session[t].rawRequest /\ session'[t].reqID = session[t].reqID
      /\ session'[s].resp = w.resp /\ session'[s].respRecvd = TRUE
      /\ \A t \in Sessions : t # s => session'[t] = session[t]
  BY <1>1, <1>4 DEF IInv, TypeOK, Session
<1>7. \A k \in DOMAIN writes' : writes'[k].session # s
  BY <1>3 DEF Prompt, WritesAreAwaited
<1>8. AnswersFit'
  <2>1. ASSUME NEW t \in Sessions, session[t].rawRequest # None
        PROVE  IF session'[t].respRecvd THEN Fits(session[t].rawRequest, session'[t].resp)
               ELSE Settles(session[t].rawRequest) => \E k \in DOMAIN writes' : writes'[k].session = t
    <3>1. CASE t = s
      BY <1>5, <1>6, <3>1
    <3>2. CASE t # s
      <4>1. IF session[t].respRecvd THEN Fits(session[t].rawRequest, session[t].resp)
            ELSE Settles(session[t].rawRequest) => \E k \in DOMAIN writes : writes[k].session = t
        BY <2>1 DEF Prompt, AnswersFit, InProgress
      <4>2. ASSUME NEW k \in DOMAIN writes, writes[k].session = t
            PROVE  \E l \in DOMAIN writes' : writes'[l].session = t
        <5>1. k # 1
          BY <1>3, <3>2, <4>2
        <5> QED
          BY <1>3, <4>2, <5>1
      <4> QED
        BY <1>6, <3>2, <4>1, <4>2
    <3> QED
      BY <3>1, <3>2
  <2>2. /\ \A q \in DOMAIN request :
             IF request[q].ends = 0 THEN request[q].became = "open" ELSE Fits(q, request[q].became)
        /\ \A k \in DOMAIN queue :
             /\ queue[k].kind = "inform" => Fits(queue[k].r, queue[k].resp)
             /\ queue[k].kind = "notify" => ~Settles(queue[k].r) /\ request[queue[k].r].asked = None
        /\ \A i \in Requests : Passes(i) => Fits(thread[i].raw, thread[i].resp)
    BY DEF Prompt, AnswersFit
  <2>3. \A t \in Sessions : session'[t].rawRequest # None =>
          IF session'[t].respRecvd THEN Fits(session'[t].rawRequest, session'[t].resp)
          ELSE Settles(session'[t].rawRequest) => \E k \in DOMAIN writes' : writes'[k].session = t
    BY <1>6, <2>1
  <2> QED
    BY <1>1, <2>2, <2>3 DEF AnswersFit, InProgress, Passes, Fits, Settles
<1>9. WritesAreAwaited'
  <2>1. \A k \in DOMAIN writes' : /\ writes'[k].session \in Sessions /\ writes'[k].session # s
                                  /\ session[writes'[k].session].rawRequest # None
                                  /\ ~session[writes'[k].session].respRecvd
                                  /\ Fits(session[writes'[k].session].rawRequest, writes'[k].resp)
    <3>1. \A k \in DOMAIN writes : writes[k] \in Write
      BY <1>2
    <3>2. \A k \in DOMAIN writes : writes[k].session \in Sessions
      BY <3>1 DEF Write
    <3>3. \A k \in DOMAIN writes : LET t == writes[k].session IN
            /\ session[t].rawRequest # None /\ ~session[t].respRecvd /\ Fits(session[t].rawRequest, writes[k].resp)
      BY DEF Prompt, WritesAreAwaited, InProgress
    <3> QED
      BY <1>3, <1>7, <3>2, <3>3
  <2>2. \A k, l \in DOMAIN writes' : k # l => writes'[k].session # writes'[l].session
    BY <1>3 DEF Prompt, WritesAreAwaited
  <2>3. \A t \in Sessions : session'[t].respRecvd => session'[t].rawRequest # None
    BY <1>5, <1>6 DEF Prompt, WritesAreAwaited, InProgress
  <2>4. \A k \in DOMAIN writes' : session'[writes'[k].session] = session[writes'[k].session]
    BY <1>6, <2>1
  <2> QED
    BY <1>1, <2>1, <2>2, <2>3, <2>4 DEF WritesAreAwaited, InProgress, Fits
<1>10. IdsAgree'
  <2>1. \A i \in Requests : thread[i].session \in Sessions
    BY DEF IInv, TypeOK, Thread
  <2>2. IdsAgree
    BY DEF Prompt
  <2>3. \A i \in Requests : Waits(i)' <=> Waits(i)
    BY <1>1 DEF Waits
  <2>4. \A i \in Requests : Waits(i) =>
          session'[thread[i].session].reqID = i /\ request[thread[i].raw].asked = i
    BY <1>6, <2>1, <2>2 DEF IdsAgree
  <2>5. UNCHANGED <<queue, reqIDCounter, thread, request, user>>
    BY <1>1
  <2> QED
    BY <2>2, <2>3, <2>4, <2>5 DEF IdsAgree
<1> QED
  BY <1>8, <1>9, <1>10 DEF Prompt

LEMMA AskKeepsPrompt == IInv /\ Prompt /\ world = "prompt" /\ NotifyAsks => Prompt'
<1> SUFFICES ASSUME IInv, Prompt, world = "prompt", NotifyAsks
             PROVE  Prompt'
  OBVIOUS
<1> SUFFICES ASSUME NEW s, NEW id, NEW r, s = request[Msg.r].for, id = reqIDCounter + 1, r = Msg.r
             PROVE  Prompt'
  OBVIOUS
<1>1. /\ 1 \in DOMAIN queue /\ queue[1] = Msg /\ Msg.kind = "notify" /\ writes = <<>> /\ AdapterRuns
      /\ \A k \in DOMAIN queue' : k + 1 \in DOMAIN queue /\ k + 1 # 1 /\ queue'[k] = queue[k + 1]
  BY TakeFacts DEF NotifyAsks, Take
<1>2. UNCHANGED <<writes, callback, user, world>> /\ reqIDCounter' = id /\ reqIDCounter \in Nat
  <2>1. UNCHANGED <<writes, callback, user, world>> /\ reqIDCounter' = reqIDCounter + 1
    BY DEF NotifyAsks
  <2>2. reqIDCounter \in Nat
    BY BoundsAssumption DEF IInv, TypeOK
  <2> QED
    BY <2>1, <2>2
<1>3. /\ s \in Sessions /\ id \in Requests /\ ~InProgress(s) /\ r \in DOMAIN request
      /\ r # None /\ thread[id].phase = "none"
      /\ session'[s].rawRequest = r /\ session'[s].reqID = id /\ session'[s].respRecvd = session[s].respRecvd
      /\ \A t \in Sessions : t # s => session'[t] = session[t]
      /\ thread'[id].phase = "starting" /\ thread'[id].session = s /\ thread'[id].raw = r
      /\ \A j \in Requests : j # id => thread'[j] = thread[j]
      /\ DOMAIN request' = DOMAIN request
      /\ request'[r].asked = id /\ request'[r].superseded = request[r].superseded
      /\ request'[r].ends = request[r].ends /\ request'[r].became = request[r].became
      /\ \A q \in DOMAIN request : q # r => request'[q] = request[q]
  BY AskFacts
<1>4. /\ \A t \in Sessions : ~session[t].respRecvd
      /\ \A i \in Requests : thread[i].phase # "unlocked" /\ ~Passes(i)
      /\ \A t \in Sessions : InProgress(t) => ~Settles(session[t].rawRequest)
  BY <1>1, QuietFacts
<1>5. ~Settles(r) /\ request[r].asked = None /\ request[r].ends = 0
  <2>1. Carries(Msg)
    BY <1>1 DEF Carries
  <2> QED
    BY <1>1, <2>1 DEF Prompt, AnswersFit, IInv, OnlyOpenAreHeld, Open
<1>6. user[id].answered = "none" /\ user[id].told # "success"
  BY <1>2, <1>3 DEF Prompt, IdsAgree
<1>7. /\ \A q \in DOMAIN request : q # r =>
           /\ SettledIn(request', user', q) => Settles(q)
           /\ \A resp : Fits(q, resp) => FitsIn(request', user', q, resp)
      /\ ~SettledIn(request', user', r)
  BY <1>2, <1>3, <1>5, <1>6 DEF Settles, Fits, SettledIn, FitsIn
<1>8. /\ \A k \in DOMAIN queue : k # 1 /\ Carries(queue[k]) => queue[k].r # r /\ queue[k].r \in DOMAIN request
      /\ \A t \in Sessions : t # s /\ InProgress(t) =>
           session[t].rawRequest # r /\ session[t].rawRequest \in DOMAIN request
  BY <1>1, HeldAreRequests DEF IInv, HeldOnce, Carries
<1>9. AnswersFit'
  <2>1. \A q \in DOMAIN request : IF request'[q].ends = 0 THEN request'[q].became = "open"
                                  ELSE FitsIn(request', user', q, request'[q].became)
    BY <1>3, <1>5, <1>7 DEF Prompt, AnswersFit
  <2>2. ASSUME NEW k \in DOMAIN queue'
        PROVE  /\ queue'[k].kind = "inform" => FitsIn(request', user', queue'[k].r, queue'[k].resp)
               /\ queue'[k].kind = "notify" =>
                    ~SettledIn(request', user', queue'[k].r) /\ request'[queue'[k].r].asked = None
    <3>1. k + 1 \in DOMAIN queue /\ k + 1 # 1 /\ queue'[k] = queue[k + 1]
      BY <1>1
    <3> SUFFICES ASSUME NEW m, m = queue[k + 1]
                 PROVE  /\ m.kind = "inform" => FitsIn(request', user', m.r, m.resp)
                        /\ m.kind = "notify" =>
                             ~SettledIn(request', user', m.r) /\ request'[m.r].asked = None
      BY <3>1
    <3>2. Carries(m) => m.r # r /\ m.r \in DOMAIN request
      BY <1>8, <3>1
    <3>3. /\ m.kind = "inform" => Fits(m.r, m.resp)
          /\ m.kind = "notify" => ~Settles(m.r) /\ request[m.r].asked = None
      BY <3>1 DEF Prompt, AnswersFit
    <3> QED
      BY <1>3, <1>7, <3>2, <3>3 DEF Carries
  <2>3. \A i \in Requests : ~Passes(i)'
    BY <1>3, <1>4 DEF Passes
  <2>4. \A t \in Sessions : ~session'[t].respRecvd
    BY <1>3, <1>4
  <2>5. \A t \in Sessions : session'[t].rawRequest # None => ~SettledIn(request', user', session'[t].rawRequest)
    BY <1>3, <1>4, <1>7, <1>8 DEF InProgress
  <2> QED
    BY <1>3, <2>1, <2>2, <2>3, <2>4, <2>5 DEF AnswersFit, Fits, Settles, InProgress
<1>10. WritesAreAwaited'
  <2>1. writes' = <<>> /\ \A t \in Sessions : ~session'[t].respRecvd
    BY <1>1, <1>2, <1>3, <1>4
  <2> QED
    BY <2>1 DEF WritesAreAwaited
<1>11. IdsAgree'
  <2>1. \A i \in Requests : Waits(i) => /\ thread[i].session \in Sessions /\ thread[i].session # s
                                        /\ thread[i].raw \in DOMAIN request /\ thread[i].raw # r
    <3>1. \A i \in Requests : thread[i].session \in Sessions
      BY DEF IInv, TypeOK, Thread
    <3> QED
      BY <1>3, <1>8, <3>1 DEF IInv, WaitsForItsOwn
  <2>2. \A i \in Requests : Waits(i)' => i = id \/ (i # id /\ Waits(i))
    BY <1>3 DEF Waits
  <2>3. \A i \in Requests : Waits(i)' =>
          session'[thread'[i].session].reqID = i /\ request'[thread'[i].raw].asked = i
    BY <1>3, <2>1, <2>2 DEF Prompt, IdsAgree
  <2>4. \A i \in Requests : thread'[i].phase # "unlocked"
    BY <1>3, <1>4
  <2>5. \A q \in DOMAIN request : request[q].asked \in Nat /\ request[q].asked <= reqIDCounter
    <3>1. \A q \in DOMAIN request : request[q] \in Request
      BY DEF IInv, TypeOK
    <3> QED
      BY <3>1 DEF Request, Requests, None, Prompt, IdsAgree
  <2>6. /\ \A q \in DOMAIN request : request'[q].asked <= id
        /\ \A q \in DOMAIN request : q # r => request'[q].asked # id
    BY <1>2, <1>3, <2>5
  <2>7. \A q, p \in DOMAIN request : q # p /\ request'[q].asked # None => request'[q].asked # request'[p].asked
    BY <1>3, <2>6 DEF Prompt, IdsAgree
  <2>8. \A i \in Requests : i > id => user[i].answered = "none"
    BY <1>2 DEF Prompt, IdsAgree, Requests
  <2>9. \A k \in DOMAIN queue' : queue'[k].kind = "answer" => user[queue'[k].id].answered = queue'[k].resp
    BY <1>1 DEF Prompt, IdsAgree
  <2>10. \A i \in Requests : user[i].told # "none" => user[i].answered # "none"
    BY DEF Prompt, IdsAgree
  <2> QED
    BY <1>2, <1>3, <2>3, <2>4, <2>6, <2>7, <2>8, <2>9, <2>10 DEF IdsAgree
<1> QED
  BY <1>9, <1>10, <1>11 DEF Prompt

LEMMA LeaveKeepsPrompt ==
  ASSUME IInv, Prompt, NEW i \in Requests, Waits(i), NEW resp \in Response, Leave(i, resp),
         Fits(session[thread[i].session].rawRequest, resp),
         \A k \in DOMAIN writes : writes[k].session # thread[i].session
  PROVE  Prompt'
<1> SUFFICES ASSUME NEW s, NEW raw, s = thread[i].session, raw = session[s].rawRequest
             PROVE  Prompt'
  OBVIOUS
<1>1. /\ s \in Sessions /\ InProgress(s) /\ raw = thread[i].raw
      /\ raw # None /\ raw \in DOMAIN request /\ Open(raw)
      /\ UNCHANGED <<queue, reqIDCounter, writes, callback, user, world>>
      /\ session'[s].rawRequest = None /\ session'[s].reqID = session[s].reqID
      /\ session'[s].respRecvd = FALSE
      /\ \A t \in Sessions : t # s => session'[t] = session[t]
      /\ thread'[i].phase = "unlocked" /\ thread'[i].session = s /\ thread'[i].resp = resp
      /\ thread'[i].raw = (IF resp = "ignore" THEN None ELSE raw)
      /\ \A j \in Requests : j # i => thread'[j] = thread[j]
      /\ request' = (IF resp = "ignore" THEN End(request, raw, "ignore") ELSE request)
  BY LeaveFacts
<1>2. Fits(raw, resp) /\ \A k \in DOMAIN writes : writes[k].session # s
  OBVIOUS
<1>3. /\ DOMAIN request' = DOMAIN request
      /\ \A q \in DOMAIN request : /\ request'[q].asked = request[q].asked
                                   /\ request'[q].superseded = request[q].superseded
                                   /\ q # raw => request'[q] = request[q]
      /\ \/ request'[raw] = request[raw]
         \/ request'[raw].ends # 0 /\ request'[raw].became = resp
  <2>1. request \in Seq(Request) /\ "ignore" \in Became
    BY DEF IInv, TypeOK, Became, Response
  <2>2. CASE resp = "ignore"
    <3>1. request[raw].ends = 0
      BY <1>1 DEF Open
    <3> QED
      BY <1>1, <2>1, <2>2, <3>1, EndFacts
  <2>3. CASE resp # "ignore"
    BY <1>1, <2>3
  <2> QED
    BY <2>2, <2>3
<1>4. \A q \in DOMAIN request : /\ SettledIn(request', user', q) => Settles(q)
                                /\ \A how : Fits(q, how) => FitsIn(request', user', q, how)
  BY <1>1, <1>3 DEF Settles, Fits, SettledIn, FitsIn
<1>5. /\ \A k \in DOMAIN queue : Carries(queue[k]) => queue[k].r \in DOMAIN request
      /\ \A t \in Sessions : InProgress(t) => session[t].rawRequest \in DOMAIN request
      /\ \A j \in Requests : Passes(j) => thread[j].raw \in DOMAIN request
  BY HeldAreRequests DEF IInv, OnlyOpenAreHeld, Open
<1>6. AnswersFit'
  <2>1. \A q \in DOMAIN request : IF request'[q].ends = 0 THEN request'[q].became = "open"
                                  ELSE FitsIn(request', user', q, request'[q].became)
    <3> SUFFICES ASSUME NEW q \in DOMAIN request
                 PROVE  IF request'[q].ends = 0 THEN request'[q].became = "open"
                        ELSE FitsIn(request', user', q, request'[q].became)
      OBVIOUS
    <3>1. IF request[q].ends = 0 THEN request[q].became = "open" ELSE Fits(q, request[q].became)
      BY DEF Prompt, AnswersFit
    <3>2. CASE request'[q] = request[q]
      BY <1>4, <3>1, <3>2
    <3>3. CASE q = raw /\ request'[raw].ends # 0 /\ request'[raw].became = resp
      BY <1>2, <1>4, <3>3
    <3> QED
      BY <1>3, <3>2, <3>3
  <2>2. \A k \in DOMAIN queue : /\ queue[k].kind = "inform" => FitsIn(request', user', queue[k].r, queue[k].resp)
                                /\ queue[k].kind = "notify" =>
                                     ~SettledIn(request', user', queue[k].r) /\ request'[queue[k].r].asked = None
    <3> SUFFICES ASSUME NEW k \in DOMAIN queue
                 PROVE  /\ queue[k].kind = "inform" => FitsIn(request', user', queue[k].r, queue[k].resp)
                        /\ queue[k].kind = "notify" =>
                             ~SettledIn(request', user', queue[k].r) /\ request'[queue[k].r].asked = None
      OBVIOUS
    <3>1. Carries(queue[k]) => queue[k].r \in DOMAIN request
      BY <1>5
    <3>2. /\ queue[k].kind = "inform" => Fits(queue[k].r, queue[k].resp)
          /\ queue[k].kind = "notify" => ~Settles(queue[k].r) /\ request[queue[k].r].asked = None
      BY DEF Prompt, AnswersFit
    <3> QED
      BY <1>3, <1>4, <3>1, <3>2 DEF Carries
  <2>3. \A j \in Requests : thread'[j].phase = "unlocked" /\ thread'[j].raw # None =>
          FitsIn(request', user', thread'[j].raw, thread'[j].resp)
    <3> SUFFICES ASSUME NEW j \in Requests, thread'[j].phase = "unlocked", thread'[j].raw # None
                 PROVE  FitsIn(request', user', thread'[j].raw, thread'[j].resp)
      OBVIOUS
    <3>1. CASE j = i
      BY <1>1, <1>2, <1>4, <3>1
    <3>2. CASE j # i
      <4>1. thread'[j] = thread[j] /\ Passes(j)
        BY <1>1, <3>2 DEF Passes
      <4> QED
        BY <1>4, <1>5, <4>1 DEF Prompt, AnswersFit
    <3> QED
      BY <3>1, <3>2
  <2>4. \A t \in Sessions : session'[t].rawRequest # None =>
          IF session'[t].respRecvd THEN FitsIn(request', user', session'[t].rawRequest, session'[t].resp)
          ELSE SettledIn(request', user', session'[t].rawRequest) => \E k \in DOMAIN writes : writes[k].session = t
    <3> SUFFICES ASSUME NEW t \in Sessions, session'[t].rawRequest # None
                 PROVE  IF session'[t].respRecvd THEN FitsIn(request', user', session'[t].rawRequest, session'[t].resp)
                        ELSE SettledIn(request', user', session'[t].rawRequest) =>
                               \E k \in DOMAIN writes : writes[k].session = t
      OBVIOUS
    <3>1. session'[t] = session[t] /\ InProgress(t) /\ session[t].rawRequest \in DOMAIN request
      BY <1>1, <1>5 DEF InProgress
    <3>2. IF session[t].respRecvd THEN Fits(session[t].rawRequest, session[t].resp)
          ELSE Settles(session[t].rawRequest) => \E k \in DOMAIN writes : writes[k].session = t
      BY <3>1 DEF Prompt, AnswersFit
    <3> QED
      BY <1>4, <3>1, <3>2
  <2> QED
    BY <1>1, <1>3, <2>1, <2>2, <2>3, <2>4 DEF AnswersFit, Fits, Settles, InProgress, Passes
<1>7. WritesAreAwaited'
  <2>1. \A k \in DOMAIN writes : /\ writes[k].session \in Sessions
                                 /\ session'[writes[k].session] = session[writes[k].session]
    <3>1. writes \in Seq(Write)
      BY DEF IInv, TypeOK, Write
    <3>2. \A k \in DOMAIN writes : writes[k] \in Write
      BY <3>1
    <3> QED
      BY <1>1, <1>2, <3>2 DEF Write
  <2>2. \A k \in DOMAIN writes : /\ session[writes[k].session].rawRequest # None
                                 /\ ~session[writes[k].session].respRecvd
                                 /\ FitsIn(request', user', session[writes[k].session].rawRequest, writes[k].resp)
    BY <1>4, <1>5, <2>1 DEF Prompt, WritesAreAwaited, InProgress
  <2>3. \A t \in Sessions : session'[t].respRecvd => session'[t].rawRequest # None
    BY <1>1 DEF Prompt, WritesAreAwaited, InProgress
  <2> QED
    BY <1>1, <2>1, <2>2, <2>3 DEF Prompt, WritesAreAwaited, InProgress, Fits
<1>8. IdsAgree'
  <2>1. \A j \in Requests : Waits(j) => thread[j].session \in Sessions /\ thread[j].raw \in DOMAIN request
    <3>1. \A j \in Requests : thread[j].session \in Sessions
      BY DEF IInv, TypeOK, Thread
    <3> QED
      BY <1>5, <3>1 DEF IInv, WaitsForItsOwn
  <2>2. \A j \in Requests : Waits(j)' => j # i /\ Waits(j) /\ thread'[j] = thread[j] /\ thread[j].session # s
    BY <1>1 DEF Waits, IInv, WaitsForItsOwn
  <2>3. \A j \in Requests : Waits(j)' =>
          session'[thread'[j].session].reqID = j /\ request'[thread'[j].raw].asked = j
    BY <1>1, <1>3, <2>1, <2>2 DEF Prompt, IdsAgree
  <2>4. \A j, l \in Requests : thread'[j].phase = "unlocked" /\ Waits(l)' => thread'[j].session # thread'[l].session
    <3> SUFFICES ASSUME NEW j \in Requests, NEW l \in Requests,
                        thread'[j].phase = "unlocked", Waits(l)'
                 PROVE  thread'[j].session # thread'[l].session
      OBVIOUS
    <3>1. Waits(l) /\ thread'[l] = thread[l] /\ thread[l].session # s
      BY <2>2
    <3>2. CASE j = i
      BY <1>1, <3>1, <3>2
    <3>3. CASE j # i
      <4>1. thread'[j] = thread[j]
        BY <1>1, <3>3
      <4> QED
        BY <3>1, <4>1 DEF Prompt, IdsAgree
    <3> QED
      BY <3>2, <3>3
  <2>5. /\ \A r \in DOMAIN request' : request'[r].asked <= reqIDCounter'
        /\ \A r, q \in DOMAIN request' :
             r # q /\ request'[r].asked # None => request'[r].asked # request'[q].asked
    <3>1. \A r \in DOMAIN request : request'[r].asked = request[r].asked
      BY <1>3
    <3>2. /\ \A r \in DOMAIN request : request[r].asked <= reqIDCounter
          /\ \A r, q \in DOMAIN request : r # q /\ request[r].asked # None => request[r].asked # request[q].asked
      BY DEF Prompt, IdsAgree
    <3>3. DOMAIN request' = DOMAIN request /\ reqIDCounter' = reqIDCounter
      BY <1>1, <1>3

    <3> QED
      BY <3>1, <3>2, <3>3
  <2>6. /\ \A j \in Requests : j > reqIDCounter' => user'[j].answered = "none"
        /\ \A j \in Requests : user'[j].told # "none" => user'[j].answered # "none"
        /\ \A k \in DOMAIN queue' :
             queue'[k].kind = "answer" => user'[queue'[k].id].answered = queue'[k].resp
    BY <1>1 DEF Prompt, IdsAgree
  <2> QED
    BY <2>3, <2>4, <2>5, <2>6 DEF IdsAgree
<1> QED
  BY <1>6, <1>7, <1>8 DEF Prompt

LEMMA AnsweredKeepsPrompt ==
  ASSUME IInv, Prompt, NEW i \in Requests, ThreadAnswered(i)
  PROVE  Prompt'
<1> DEFINE s == thread[i].session
<1>1. Waits(i) /\ s \in Sessions /\ session[s].respRecvd /\ Leave(i, session[s].resp)
  BY DEF ThreadAnswered, Waits, IInv, TypeOK, Thread
<1>2. session[s].resp \in Response
  BY <1>1 DEF IInv, TypeOK, Session
<1>3. InProgress(s)
  BY <1>1 DEF IInv, WaitsForItsOwn
<1>4. Fits(session[s].rawRequest, session[s].resp)
  BY <1>1, <1>3 DEF Prompt, AnswersFit
<1>5. \A k \in DOMAIN writes : writes[k].session # s
  BY <1>1 DEF Prompt, WritesAreAwaited
<1> QED
  BY <1>1, <1>2, <1>4, <1>5, LeaveKeepsPrompt

LEMMA TimesOutKeepsPrompt ==
  ASSUME IInv, Prompt, world = "prompt", NEW i \in Requests, ThreadTimesOut(i)
  PROVE  Prompt'
<1> DEFINE s == thread[i].session
<1>1. Waits(i) /\ s \in Sessions /\ writes = <<>> /\ ~session[s].respRecvd /\ Leave(i, "noResponse")
  BY DEF ThreadTimesOut, Waits, IInv, TypeOK, Thread
<1>2. InProgress(s)
  BY <1>1 DEF IInv, WaitsForItsOwn
<1>3. ~Settles(session[s].rawRequest)
  BY <1>1, <1>2 DEF Prompt, AnswersFit
<1>4. Fits(session[s].rawRequest, "noResponse") /\ "noResponse" \in Response
  BY <1>3 DEF Fits, FitsIn, Settles, SettledIn, Answers, Response
<1> QED
  BY <1>1, <1>4, LeaveKeepsPrompt

LEMMA ThreadWaitsKeepsPrompt ==
  ASSUME IInv, Prompt, NEW i \in Requests, ThreadWaits(i)
  PROVE  Prompt'
<1>1. /\ thread[i].phase = "starting" /\ thread' = [thread EXCEPT ![i].phase = "waiting"]
      /\ UNCHANGED <<queue, session, reqIDCounter, writes, callback, request, user, world>>
  BY DEF ThreadWaits, adapterVars
<1>2. \A j \in Requests : /\ thread'[j].session = thread[j].session /\ thread'[j].raw = thread[j].raw
                          /\ thread'[j].resp = thread[j].resp
                          /\ thread'[j].phase = "unlocked" <=> thread[j].phase = "unlocked"
                          /\ Waits(j)' <=> Waits(j)
  BY <1>1 DEF IInv, TypeOK, Thread, Waits
<1>3. AnswersFit'
  BY <1>1, <1>2 DEF Prompt, AnswersFit, InProgress, Passes, Fits, Settles
<1>4. WritesAreAwaited'
  BY <1>1 DEF Prompt, WritesAreAwaited, InProgress, Fits
<1>5. IdsAgree'
  BY <1>1, <1>2 DEF Prompt, IdsAgree
<1> QED
  BY <1>3, <1>4, <1>5 DEF Prompt

LEMMA ThreadEndsKeepsPrompt ==
  ASSUME IInv, Prompt, NEW i \in Requests, ThreadEnds(i)
  PROVE  Prompt'
<1> SUFFICES ASSUME NEW s, s = thread[i].session,
                    NEW m, m = [kind |-> "inform", r |-> thread[i].raw, resp |-> thread[i].resp]
             PROVE  Prompt'
  OBVIOUS
<1>1. /\ s \in Sessions /\ thread[i].phase = "unlocked"
      /\ UNCHANGED <<reqIDCounter, writes, callback, request, user, world>>
      /\ \A t \in Sessions : /\ session'[t].rawRequest = session[t].rawRequest
                             /\ session'[t].respRecvd = session[t].respRecvd
                             /\ session'[t].resp = session[t].resp
                             /\ t # s => session'[t] = session[t]
      /\ thread'[i].phase = "ended"
      /\ \A j \in Requests : j # i => thread'[j] = thread[j]
      /\ IF thread[i].raw = None THEN queue' = queue
         ELSE m \in Message /\ queue' = Append(queue, m)
  BY EndFactsOfThread
<1>2. m.kind = "inform" /\ m.r = thread[i].raw /\ m.resp = thread[i].resp
  OBVIOUS
<1>3. queue \in Seq(Message)
  BY DEF IInv, TypeOK
<1>4. \A k \in DOMAIN queue' : \/ k \in DOMAIN queue /\ queue'[k] = queue[k]
                               \/ queue'[k] = m /\ Passes(i)
  <2>1. CASE thread[i].raw = None
    BY <1>1, <2>1
  <2>2. CASE thread[i].raw # None
    BY <1>1, <1>3, <2>2, AppendElements DEF Passes
  <2> QED
    BY <2>1, <2>2
<1>5. /\ \A k \in DOMAIN queue : /\ queue[k].kind = "inform" => Fits(queue[k].r, queue[k].resp)
                                 /\ queue[k].kind = "notify" => ~Settles(queue[k].r) /\ request[queue[k].r].asked = None
                                 /\ queue[k].kind = "answer" => user[queue[k].id].answered = queue[k].resp
      /\ Passes(i) => Fits(m.r, m.resp)
  BY <1>2 DEF Prompt, AnswersFit, IdsAgree
<1>6. AnswersFit'
  <2>1. \A k \in DOMAIN queue' : /\ queue'[k].kind = "inform" => Fits(queue'[k].r, queue'[k].resp)
                                 /\ queue'[k].kind = "notify" =>
                                      ~Settles(queue'[k].r) /\ request[queue'[k].r].asked = None
    BY <1>2, <1>4, <1>5
  <2>2. \A j \in Requests : Passes(j)' => Passes(j) /\ thread'[j] = thread[j]
    BY <1>1 DEF Passes
  <2>3. \A t \in Sessions : InProgress(t)' <=> InProgress(t)
    BY <1>1 DEF InProgress
  <2> QED
    BY <1>1, <2>1, <2>2, <2>3 DEF Prompt, AnswersFit, Fits, Settles
<1>7. WritesAreAwaited'
  <2>1. \A k \in DOMAIN writes : writes[k].session \in Sessions
    <3>1. writes \in Seq(Write)
      BY DEF IInv, TypeOK, Write
    <3>2. \A k \in DOMAIN writes : writes[k] \in Write
      BY <3>1
    <3> QED
      BY <3>2 DEF Write
  <2> QED
    BY <1>1, <2>1 DEF Prompt, WritesAreAwaited, InProgress, Fits
<1>8. IdsAgree'
  <2>1. \A j \in Requests : Waits(j) => thread[j].session \in Sessions /\ thread[j].session # s
    <3>1. \A j \in Requests : thread[j].session \in Sessions
      BY DEF IInv, TypeOK, Thread
    <3> QED
      BY <1>1, <3>1 DEF Prompt, IdsAgree
  <2>2. \A j \in Requests : Waits(j)' => Waits(j) /\ thread'[j] = thread[j]
    BY <1>1 DEF Waits
  <2>3. \A j \in Requests : Waits(j)' =>
          session'[thread'[j].session].reqID = j /\ request[thread'[j].raw].asked = j
    BY <1>1, <2>1, <2>2 DEF Prompt, IdsAgree
  <2>4. \A j, l \in Requests : thread'[j].phase = "unlocked" /\ Waits(l)' => thread'[j].session # thread'[l].session
    BY <1>1, <2>2 DEF Prompt, IdsAgree
  <2>5. \A k \in DOMAIN queue' : queue'[k].kind = "answer" => user[queue'[k].id].answered = queue'[k].resp
    BY <1>2, <1>4, <1>5
  <2> QED
    BY <1>1, <2>3, <2>4, <2>5 DEF Prompt, IdsAgree
<1> QED
  BY <1>6, <1>7, <1>8 DEF Prompt

LEMMA RequestKeepsPrompt == IInv /\ Prompt /\ RequestNi => Prompt'
<1> SUFFICES ASSUME IInv, Prompt, RequestNi
             PROVE  Prompt'
  OBVIOUS
<1> SUFFICES ASSUME NEW r, NEW m, r = Len(request) + 1, m = [kind |-> "notify", r |-> r]
             PROVE  Prompt'
  OBVIOUS
<1>1. /\ r \in Requests /\ r \notin DOMAIN request
      /\ m \in Message /\ queue' = Append(queue, m)
      /\ DOMAIN request' = DOMAIN request \cup {r}
      /\ \A q \in DOMAIN request : request'[q] = request[q]
      /\ request'[r].ends = 0 /\ request'[r].became = "open" /\ request'[r].asked = None
      /\ request'[r].superseded = FALSE
      /\ UNCHANGED <<session, reqIDCounter, writes, thread, callback, user, world>>
  BY RequestFacts
<1>2. m.kind = "notify" /\ m.r = r
  OBVIOUS
<1>3. \A k \in DOMAIN queue' : \/ k \in DOMAIN queue /\ queue'[k] = queue[k]
                               \/ queue'[k] = m
  BY <1>1, AppendElements DEF IInv, TypeOK
<1>4. /\ \A q \in DOMAIN request : /\ SettledIn(request', user', q) => Settles(q)
                                   /\ \A how : Fits(q, how) => FitsIn(request', user', q, how)
      /\ ~SettledIn(request', user', r)
  BY <1>1 DEF Settles, Fits, SettledIn, FitsIn
<1>5. /\ \A k \in DOMAIN queue : Carries(queue[k]) => queue[k].r \in DOMAIN request
      /\ \A t \in Sessions : InProgress(t) => session[t].rawRequest \in DOMAIN request
      /\ \A j \in Requests : Passes(j) => thread[j].raw \in DOMAIN request
  BY HeldAreRequests DEF IInv, OnlyOpenAreHeld, Open
<1>6. AnswersFit'
  <2>1. \A q \in DOMAIN request' : IF request'[q].ends = 0 THEN request'[q].became = "open"
                                   ELSE FitsIn(request', user', q, request'[q].became)
    BY <1>1, <1>4 DEF Prompt, AnswersFit
  <2>2. \A k \in DOMAIN queue : /\ queue[k].kind = "inform" => FitsIn(request', user', queue[k].r, queue[k].resp)
                                /\ queue[k].kind = "notify" =>
                                     ~SettledIn(request', user', queue[k].r) /\ request'[queue[k].r].asked = None
    BY <1>1, <1>4, <1>5 DEF Prompt, AnswersFit, Carries
  <2>3. \A k \in DOMAIN queue' : /\ queue'[k].kind = "inform" => FitsIn(request', user', queue'[k].r, queue'[k].resp)
                                 /\ queue'[k].kind = "notify" =>
                                      ~SettledIn(request', user', queue'[k].r) /\ request'[queue'[k].r].asked = None
    BY <1>1, <1>2, <1>3, <1>4, <2>2
  <2>4. \A j \in Requests : Passes(j) => FitsIn(request', user', thread[j].raw, thread[j].resp)
    BY <1>4, <1>5 DEF Prompt, AnswersFit
  <2>5. \A t \in Sessions : InProgress(t) =>
          IF session[t].respRecvd THEN FitsIn(request', user', session[t].rawRequest, session[t].resp)
          ELSE SettledIn(request', user', session[t].rawRequest) => \E k \in DOMAIN writes : writes[k].session = t
    BY <1>4, <1>5 DEF Prompt, AnswersFit
  <2> QED
    BY <1>1, <2>1, <2>3, <2>4, <2>5 DEF AnswersFit, Fits, Settles, InProgress, Passes
<1>7. WritesAreAwaited'
  <2>1. \A k \in DOMAIN writes : writes[k].session \in Sessions
    <3>1. writes \in Seq(Write)
      BY DEF IInv, TypeOK, Write
    <3>2. \A k \in DOMAIN writes : writes[k] \in Write
      BY <3>1
    <3> QED
      BY <3>2 DEF Write
  <2>2. \A k \in DOMAIN writes : FitsIn(request', user', session[writes[k].session].rawRequest, writes[k].resp)
    BY <1>4, <1>5, <2>1 DEF Prompt, WritesAreAwaited
  <2> QED
    BY <1>1, <2>2 DEF Prompt, WritesAreAwaited, InProgress, Fits
<1>8. IdsAgree'
  <2>1. \A j \in Requests : Waits(j) => thread[j].raw \in DOMAIN request
    <3>1. \A j \in Requests : thread[j].session \in Sessions
      BY DEF IInv, TypeOK, Thread
    <3> QED
      BY <1>5, <3>1 DEF IInv, WaitsForItsOwn
  <2>2. \A j \in Requests : Waits(j)' <=> Waits(j)
    BY <1>1 DEF Waits
  <2>3. request'[r].asked <= reqIDCounter
    BY <1>1, BoundsAssumption DEF None, IInv, TypeOK
  <2>4. \A k \in DOMAIN queue' : queue'[k].kind = "answer" => user[queue'[k].id].answered = queue'[k].resp
    BY <1>2, <1>3 DEF Prompt, IdsAgree
  <2> QED
    BY <1>1, <2>1, <2>2, <2>3, <2>4 DEF Prompt, IdsAgree
<1> QED
  BY <1>6, <1>7, <1>8 DEF Prompt

LEMMA ClientsKeepPrompt == IInv /\ Prompt /\ (ClientAnswers \/ ClientComesOrGoes) => Prompt'
<1> SUFFICES ASSUME IInv, Prompt, ClientAnswers \/ ClientComesOrGoes
             PROVE  Prompt'
  OBVIOUS
<1>1. queue \in Seq(Message) /\ UNCHANGED <<session, reqIDCounter, writes, thread, request>>
  BY DEF IInv, TypeOK, ClientAnswers, ClientComesOrGoes, adapterVars
<1>2. /\ \A i \in Requests : /\ user'[i].told = user[i].told
                             /\ user'[i].answered # user[i].answered =>
                                  i <= reqIDCounter /\ user[i].answered = "none" /\ user'[i].answered # "none"
      /\ \A k \in DOMAIN queue' : \/ k \in DOMAIN queue /\ queue'[k] = queue[k]
                                  \/ ~Carries(queue'[k]) /\ (queue'[k].kind = "answer" =>
                                                               user'[queue'[k].id].answered = queue'[k].resp)
  <2>1. CASE ClientAnswers
    <3>1. PICK i \in 1..reqIDCounter, a \in Answers :
            /\ user[i].answered = "none" /\ user' = [user EXCEPT ![i].answered = a]
            /\ queue' = Append(queue, [kind |-> "answer", id |-> i, resp |-> a])
      BY <2>1 DEF ClientAnswers
    <3>2. i \in Requests /\ i <= reqIDCounter
      <4>1. reqIDCounter \in 0..MaxRequests
        BY DEF IInv, TypeOK
      <4> QED
        BY <4>1, BoundsAssumption DEF Requests
    <3>3. \A j \in Requests : /\ user'[j].told = user[j].told
                              /\ j # i => user'[j] = user[j]
                              /\ j = i => user'[j].answered = a
      BY <3>1, <3>2 DEF IInv, TypeOK
    <3> DEFINE m == [kind |-> "answer", id |-> i, resp |-> a]
    <3>4. m \in Message /\ m.kind = "answer" /\ m.id = i /\ m.resp = a
      BY <3>2 DEF Message
    <3> HIDE DEF m
    <3>5. \A k \in DOMAIN queue' : (k \in DOMAIN queue /\ queue'[k] = queue[k]) \/ queue'[k] = m
      BY <1>1, <3>1, <3>4, AppendElements DEF m
    <3>6. a # "none" /\ ~Carries(m)
      BY <3>4 DEF Answers, Carries
    <3> QED
      BY <3>1, <3>2, <3>3, <3>4, <3>5, <3>6
  <2>2. CASE ClientComesOrGoes
    <3> DEFINE m == [kind |-> "client"]
    <3>1. m \in Message /\ m.kind = "client"
      BY DEF Message
    <3>2. queue' = Append(queue, m) /\ user' = user
      BY <2>2 DEF ClientComesOrGoes
    <3> HIDE DEF m
    <3> QED
      BY <1>1, <3>1, <3>2, AppendElements DEF Carries
  <2> QED
    BY <2>1, <2>2
<1>3. \A q \in DOMAIN request : request[q].asked \in Requests \cup {None}
  <2>1. \A q \in DOMAIN request : request[q] \in Request
    BY DEF IInv, TypeOK
  <2> QED
    BY <2>1 DEF Request
<1>4. \A q \in DOMAIN request : /\ SettledIn(request', user', q) => Settles(q)
                                /\ \A how : Fits(q, how) => FitsIn(request', user', q, how)
  <2> SUFFICES ASSUME NEW q \in DOMAIN request, NEW how
               PROVE  /\ SettledIn(request', user', q) => Settles(q)
                      /\ Fits(q, how) => FitsIn(request', user', q, how)
    OBVIOUS
  <2>1. CASE request[q].asked = None
    BY <1>1, <2>1 DEF Settles, Fits, SettledIn, FitsIn
  <2>2. CASE request[q].asked \in Requests /\ user'[request[q].asked].answered = user[request[q].asked].answered
    BY <1>1, <1>2, <2>2 DEF Settles, Fits, SettledIn, FitsIn
  <2>3. CASE request[q].asked \in Requests /\ user'[request[q].asked].answered # user[request[q].asked].answered
    <3>1. user[request[q].asked].told # "success" /\ user[request[q].asked].answered \notin Answers
      BY <1>2, <2>3 DEF Prompt, IdsAgree, Answers
    <3> QED
      BY <1>1, <1>2, <2>3, <3>1 DEF Settles, Fits, SettledIn, FitsIn
  <2> QED
    BY <1>3, <2>1, <2>2, <2>3
<1>5. /\ \A k \in DOMAIN queue : Carries(queue[k]) => queue[k].r \in DOMAIN request
      /\ \A t \in Sessions : InProgress(t) => session[t].rawRequest \in DOMAIN request
      /\ \A j \in Requests : Passes(j) => thread[j].raw \in DOMAIN request
  BY HeldAreRequests DEF IInv, OnlyOpenAreHeld, Open
<1>6. AnswersFit'
  <2>1. \A q \in DOMAIN request : IF request[q].ends = 0 THEN request[q].became = "open"
                                  ELSE FitsIn(request', user', q, request[q].became)
    BY <1>4 DEF Prompt, AnswersFit
  <2>2. \A k \in DOMAIN queue : /\ queue[k].kind = "inform" => FitsIn(request', user', queue[k].r, queue[k].resp)
                                /\ queue[k].kind = "notify" =>
                                     ~SettledIn(request', user', queue[k].r) /\ request[queue[k].r].asked = None
    BY <1>4, <1>5 DEF Prompt, AnswersFit, Carries
  <2>3. \A k \in DOMAIN queue' : /\ queue'[k].kind = "inform" => FitsIn(request', user', queue'[k].r, queue'[k].resp)
                                 /\ queue'[k].kind = "notify" =>
                                      ~SettledIn(request', user', queue'[k].r) /\ request[queue'[k].r].asked = None
    BY <1>2, <2>2 DEF Carries
  <2>4. \A j \in Requests : Passes(j) => FitsIn(request', user', thread[j].raw, thread[j].resp)
    BY <1>4, <1>5 DEF Prompt, AnswersFit
  <2>5. \A t \in Sessions : InProgress(t) =>
          IF session[t].respRecvd THEN FitsIn(request', user', session[t].rawRequest, session[t].resp)
          ELSE SettledIn(request', user', session[t].rawRequest) => \E k \in DOMAIN writes : writes[k].session = t
    BY <1>4, <1>5 DEF Prompt, AnswersFit
  <2> QED
    BY <1>1, <2>1, <2>3, <2>4, <2>5 DEF AnswersFit, Fits, Settles, InProgress, Passes
<1>7. WritesAreAwaited'
  <2>1. \A k \in DOMAIN writes : writes[k].session \in Sessions
    <3>1. writes \in Seq(Write)
      BY DEF IInv, TypeOK, Write
    <3>2. \A k \in DOMAIN writes : writes[k] \in Write
      BY <3>1
    <3> QED
      BY <3>2 DEF Write
  <2>2. \A k \in DOMAIN writes : FitsIn(request', user', session[writes[k].session].rawRequest, writes[k].resp)
    BY <1>4, <1>5, <2>1 DEF Prompt, WritesAreAwaited
  <2> QED
    BY <1>1, <2>2 DEF Prompt, WritesAreAwaited, InProgress, Fits
<1>8. IdsAgree'
  <2>1. \A i \in Requests : i > reqIDCounter => user'[i].answered = "none"
    <3>1. reqIDCounter \in Nat
      BY BoundsAssumption DEF IInv, TypeOK
    <3> QED
      BY <1>2, <3>1 DEF Prompt, IdsAgree, Requests
  <2>2. \A i \in Requests : user'[i].told # "none" => user'[i].answered # "none"
    BY <1>2 DEF Prompt, IdsAgree
  <2>3. \A k \in DOMAIN queue' : queue'[k].kind = "answer" => user'[queue'[k].id].answered = queue'[k].resp
    <3>1. \A m \in Message : m.kind = "answer" => m.id \in Requests /\ m.resp # "none"
      BY DEF Message, Answers
    <3>2. \A k \in DOMAIN queue : queue[k] \in Message
      BY <1>1
    <3>3. \A k \in DOMAIN queue : queue[k].kind = "answer" => user'[queue[k].id].answered = queue[k].resp
      BY <1>2, <3>1, <3>2 DEF Prompt, IdsAgree
    <3> QED
      BY <1>2, <3>3
  <2> QED
    BY <1>1, <2>1, <2>2, <2>3 DEF Prompt, IdsAgree, Waits
<1> QED
  BY <1>6, <1>7, <1>8 DEF Prompt

LEMMA PromptStep == IInv /\ PromptInv /\ [Next]_vars => PromptInv'
<1> SUFFICES ASSUME IInv, PromptInv, [Next]_vars, world' = "prompt"
             PROVE  Prompt'
  BY DEF PromptInv, Prompt
<1>1. world' = world
  BY DEF Next, AdapterStep, NotifyDecided, NotifyNobody, NotifyBusy, NotifyAsks, AnswerLookedUp, AnswerWritten,
         Inform, ClientChanges, ThreadStep, ThreadWaits, ThreadAnswered, ThreadTimesOut, Leave, ThreadEnds,
         RequestNi, ClientAnswers, ClientComesOrGoes, vars
<1>2. world = "prompt" /\ Prompt
  BY <1>1 DEF PromptInv, Prompt
<1>3. CASE AdapterStep
  BY <1>2, <1>3, NotifyEndsKeepPrompt, AskKeepsPrompt, AnswerKeepsPrompt, WrittenKeepsPrompt,
     ClientChangesKeepsPrompt DEF AdapterStep
<1>4. ASSUME NEW i \in Requests, ThreadStep(i)
      PROVE  Prompt'
  BY <1>2, <1>4, ThreadWaitsKeepsPrompt, AnsweredKeepsPrompt, TimesOutKeepsPrompt, ThreadEndsKeepsPrompt
     DEF ThreadStep
<1>5. CASE RequestNi \/ ClientAnswers \/ ClientComesOrGoes
  BY <1>2, <1>5, RequestKeepsPrompt, ClientsKeepPrompt
<1>6. CASE UNCHANGED vars
  <2>1. UNCHANGED <<queue, session, reqIDCounter, writes, thread, callback, request, user, world>>
    BY <1>6 DEF vars, adapterVars
  <2>2. AnswersFit'
    BY <1>2, <2>1 DEF Prompt, AnswersFit, InProgress, Passes, Fits, Settles
  <2>3. WritesAreAwaited'
    BY <1>2, <2>1 DEF Prompt, WritesAreAwaited, InProgress, Fits
  <2>4. IdsAgree'
    BY <1>2, <2>1 DEF Prompt, IdsAgree, Waits
  <2> QED
    BY <2>2, <2>3, <2>4 DEF Prompt
<1> QED
  BY <1>3, <1>4, <1>5, <1>6 DEF Next

LEMMA PromptImplies == IInv /\ PromptInv => UserDecides
<1> SUFFICES ASSUME IInv, Prompt
             PROVE  AnswersAreTheUsers /\ AnswersFindTheirSessions /\ EsAcceptedComesFirst
  BY DEF PromptInv, Prompt, UserDecides
<1>1. \A r \in DOMAIN request : IF request[r].ends = 0 THEN request[r].became = "open" ELSE Fits(r, request[r].became)
  BY DEF Prompt, AnswersFit
<1>2. \A r \in DOMAIN request : request[r].ends \in Nat
  <2>1. \A r \in DOMAIN request : request[r] \in Request
    BY DEF IInv, TypeOK
  <2> QED
    BY <2>1 DEF Request
<1>3. AnswersAreTheUsers
  BY <1>1, <1>2 DEF AnswersAreTheUsers, Fits, FitsIn, Answers
<1>4. AnswersFindTheirSessions
  BY DEF AnswersFindTheirSessions, IInv, WaitsForItsOwn, Prompt, IdsAgree, Waits
<1>5. EsAcceptedComesFirst
  BY <1>1 DEF EsAcceptedComesFirst, Fits, FitsIn
<1> QED
  BY <1>3, <1>4, <1>5

(* When no thread is preempted while it ends, what the modem is told of a      *)
(* request is what its user answered, an answer finds the session that waits   *)
(* for it, and a session superseded by an emergency is not accepted any more:  *)
(* for any number of requests (gnssNiResponseCommand, niThreadProc).           *)
THEOREM TheUserDecides == Spec => []UserDecides
<1>1. Init => IInv /\ PromptInv
  BY IInvInit, PromptInit
<1>2. (IInv /\ PromptInv) /\ [Next]_vars => (IInv /\ PromptInv)'
  BY IInvStep, PromptStep
<1> QED
  BY <1>1, <1>2, PromptImplies, PTL DEF Spec

=============================================================================
