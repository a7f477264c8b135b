---------------------------- MODULE OdcpiProofs ----------------------------
(***************************************************************************)
(* Proofs about Odcpi, and LocApi below it, for any adapters, masks, calls *)
(* and events, and any bounds.                                             *)
(***************************************************************************)
EXTENDS Odcpi, FiniteSetTheorems, TLAPS

-----------------------------------------------------------------------------
(* Sequences: the elements of Append(q, m), Tail(q) and q \o p.            *)

LEMMA AppendElements ==
  ASSUME NEW M, NEW q \in Seq(M), NEW m \in M
  PROVE  /\ Append(q, m) \in Seq(M)
         /\ DOMAIN Append(q, m) = DOMAIN q \cup {Len(q) + 1}
         /\ \A i \in DOMAIN q : Append(q, m)[i] = q[i] /\ i \in Nat /\ i < Len(q) + 1
         /\ Append(q, m)[Len(q) + 1] = m
         /\ Len(q) \in Nat
  OBVIOUS

LEMMA TailElements ==
  ASSUME NEW M, NEW q \in Seq(M), q # <<>>
  PROVE  /\ Tail(q) \in Seq(M) /\ Head(q) = q[1] /\ q[1] \in M /\ 1 \in DOMAIN q
         /\ \A i \in DOMAIN Tail(q) : /\ i \in Nat /\ i > 0
                                      /\ i + 1 \in DOMAIN q /\ Tail(q)[i] = q[i + 1]
         /\ \A i \in DOMAIN q : /\ i \in Nat
                                /\ i # 1 => i - 1 \in DOMAIN Tail(q) /\ Tail(q)[i - 1] = q[i]
  OBVIOUS

LEMMA ConcatElements ==
  ASSUME NEW M, NEW q \in Seq(M), NEW p \in Seq(M)
  PROVE  /\ q \o p \in Seq(M)
         /\ \A i \in DOMAIN q : i \in DOMAIN (q \o p) /\ (q \o p)[i] = q[i] /\ i \in Nat /\ i <= Len(q)
         /\ \A i \in DOMAIN p : /\ Len(q) + i \in DOMAIN (q \o p) /\ (q \o p)[Len(q) + i] = p[i]
                                /\ i \in Nat /\ i > 0
         /\ \A i \in DOMAIN (q \o p) : /\ i \in Nat
                                       /\ i \notin DOMAIN q => i - Len(q) \in DOMAIN p /\ i > Len(q)
         /\ Len(q) \in Nat
  OBVIOUS

-----------------------------------------------------------------------------
(* Types.                                                                  *)
Calls == Answering \cup Silent \cup Direct \cup DefaultCalls
Data  == [type : {None}] \cup OdcpiRequestInfo
Dids  == {"done", "refused", "absent"}
Errs  == {"SUCCESS", "GENERAL_FAILURE", "NOT_SUPPORTED", "CALLBACK_MISSING"}

ApiMessage ==
  [type : {"open"}, adapter : Names \cup {None}]
  \cup [type : {"close", "ssr"}]
  \cup [type : {"call"}, call : Calls, id : Nat]

EngineUp   == [type : {"engineUp"}, adapter : Names]
AnswerMsg  == [type : {"answer"}, id : Nat, did : Dids, err : Errs]
RequestMsg == [type : Requests, data : Data]
InitMsg    == [type : {"initOdcpi"}, priority : Priorities]
ExpireMsg  == [type : {"odcpiTimerExpire"}]
AdapterMessage == EngineUp \cup AnswerMsg \cup RequestMsg \cup InitMsg \cup ExpireMsg

Walking == [event : Reports \cup Requests \cup {None}, at : Nat, met : Seq(Names),
            handled : BOOLEAN, present : SUBSET Names, data : Data]

TypeOK ==
  /\ mLocAdapters \in Seq(Names)
  /\ mEvtMask = [a \in Names |-> mEvtMask[a]]
  /\ apiMsgs \in Seq(ApiMessage)
  /\ msgs \in Seq(AdapterMessage)
  /\ known \subseteq Names
  /\ walk \in Walking /\ (walk # Idle => walk.at > 0)
  /\ asked \in Seq(Answering \cup DefaultCalls)
  /\ answers \in Seq([id : Nat, did : Dids, err : Errs])
  /\ mOdcpiRequestActive \in BOOLEAN
  /\ mOdcpiTimer \in [active : BOOLEAN, running : BOOLEAN]
  /\ credit \in Int

(* The names of the messages to the adapters are all different.            *)
LEMMA RequestsApart ==
  /\ \A r \in Requests : r \notin {"engineUp", "answer", "initOdcpi", "odcpiTimerExpire"}
  /\ "requestOdcpi" \in Requests /\ \A r \in OdcpiRequests : r = "requestOdcpi"
  BY DEF Requests, ServerRequests, DataRequests, LinkRequests, ZppReports, OdcpiRequests, AidReports

(* What the engine makes of a call, and what its caller hears of it.       *)
LEMMA AnsweringApart ==
  ASSUME NEW call \in Answering
  PROVE  /\ call \notin DefaultCalls /\ call \notin DefaultSync /\ call # "setServerSyncByIp"
         /\ call \notin ServerCalls /\ call \in Calls
  BY DEF Calls, Answering, FixCalls, DeletionCalls, ModeCalls, BlacklistCalls, ConstellationCalls,
         TrackingCalls, DefaultCalls, DefaultSync, ServerCalls

LEMMA ErrIsTrue ==
  ASSUME NEW call \in Answering \cup Returning, NEW did \in EngineDoes(call)
  PROVE  /\ did \in Dids /\ Err(call, did) \in Errs
         /\ Err(call, did) = "SUCCESS" <=> did = "done"
<1>1. call \notin DefaultCalls /\ call \notin DefaultSync
  <2>1. CASE call \in Answering
    BY <2>1, AnsweringApart
  <2>2. CASE call \in Returning
    BY <2>2 DEF Returning, ServerCalls, SuplCalls, SensorCalls, LppeCalls, LockCalls, XtraCalls,
                BlacklistSync, DefaultCalls, DefaultSync
  <2> QED
    BY <2>1, <2>2
<1>2. did \in Dids
  BY <1>1 DEF EngineDoes, NoLibrary, Dids
<1>3. Absent(call) \in Errs /\ Absent(call) # "SUCCESS"
  BY DEF Absent, Errs
<1>4. did = "done" => Err(call, did) = "SUCCESS"
  BY DEF Err
<1>5. did = "refused" => Err(call, did) = "GENERAL_FAILURE"
  BY <1>1 DEF Err
<1>6. did = "absent" => Err(call, did) = Absent(call)
  BY <1>1 DEF Err
<1> QED
  BY <1>2, <1>3, <1>4, <1>5, <1>6 DEF Dids, Errs

(* What is put on the queues.                                              *)
LEMMA UpType ==
  ASSUME NEW adapters \in Seq(Names)
  PROVE  /\ Up(adapters) \in Seq(AdapterMessage)
         /\ DOMAIN Up(adapters) = DOMAIN adapters
         /\ \A k \in DOMAIN adapters :
              Up(adapters)[k] = [type |-> "engineUp", adapter |-> adapters[k]]
<1>1. \A k \in DOMAIN adapters : [type |-> "engineUp", adapter |-> adapters[k]] \in AdapterMessage
  BY DEF AdapterMessage, EngineUp
<1>2. DOMAIN adapters = 1 .. Len(adapters) /\ Len(adapters) \in Nat
  OBVIOUS
<1>3. Up(adapters) = [k \in 1 .. Len(adapters) |-> [type |-> "engineUp", adapter |-> adapters[k]]]
  BY <1>2 DEF Up
<1> QED
  BY <1>1, <1>2, <1>3

LEMMA RespondType ==
  ASSUME NEW m \in ApiMessage, m.type = "call", NEW did \in EngineDoes(m.call)
  PROVE  /\ m.id \in Nat
         /\ m.call \notin Answering => Respond(m, did) = <<>>
         /\ m.call \in Answering =>
              LET a == [type |-> "answer", id |-> m.id, did |-> did, err |-> Err(m.call, did)]
              IN  Respond(m, did) = <<a>> /\ a \in AnswerMsg
  BY ErrIsTrue DEF Respond, ApiMessage, AnswerMsg

LEMMA ReceivesType ==
  ASSUME TypeOK, NEW type, Receives(type)
  PROVE  /\ apiMsgs # <<>> /\ apiMsgs \in Seq(ApiMessage) /\ Tail(apiMsgs) \in Seq(ApiMessage)
         /\ Msg = Head(apiMsgs) /\ Msg = apiMsgs[1] /\ Msg \in ApiMessage /\ Msg.type = type
<1>1. apiMsgs \in Seq(ApiMessage) /\ apiMsgs # <<>>
  BY DEF TypeOK, Receives
<1>2. Tail(apiMsgs) \in Seq(ApiMessage) /\ apiMsgs[1] = Head(apiMsgs) /\ apiMsgs[1] \in ApiMessage
  BY <1>1, TailElements
<1> QED
  BY <1>1, <1>2 DEF Receives, Msg

LEMMA GetsType ==
  ASSUME TypeOK, NEW type, Gets(type)
  PROVE  /\ msgs # <<>> /\ msgs \in Seq(AdapterMessage) /\ Tail(msgs) \in Seq(AdapterMessage)
         /\ msgs[1] = Head(msgs) /\ msgs[1] \in AdapterMessage /\ msgs[1].type = type
<1>1. msgs \in Seq(AdapterMessage) /\ msgs # <<>>
  BY DEF TypeOK, Gets
<1>2. Tail(msgs) \in Seq(AdapterMessage) /\ msgs[1] = Head(msgs) /\ msgs[1] \in AdapterMessage
  BY <1>1, TailElements
<1> QED
  BY <1>1, <1>2 DEF Gets

LEMMA TypeInit == Init => TypeOK
<1> SUFFICES ASSUME Init
             PROVE  TypeOK
  OBVIOUS
<1>1. Idle \in Walking
  BY DEF Idle, Walking, Data
<1>2. mEvtMask = [a \in Names |-> mEvtMask[a]]
  BY DEF Init, ApiInit
<1>3. mOdcpiTimer \in [active : BOOLEAN, running : BOOLEAN] /\ credit \in Int
  BY DEF Init, Stopped
<1>4. mOdcpiRequestActive \in BOOLEAN /\ walk = Idle /\ walk \in Walking /\ known \subseteq Names
  BY <1>1 DEF Init, ApiInit
<1>5. /\ mLocAdapters \in Seq(Names) /\ apiMsgs \in Seq(ApiMessage)
      /\ msgs \in Seq(AdapterMessage) /\ asked \in Seq(Answering \cup DefaultCalls)
      /\ answers \in Seq([id : Nat, did : Dids, err : Errs])
  <2>1. \A S : <<>> \in Seq(S)
    OBVIOUS
  <2> QED
    BY <2>1 DEF Init, ApiInit
<1> QED
  BY <1>2, <1>3, <1>4, <1>5 DEF TypeOK

-----------------------------------------------------------------------------
(* The adapters and what they listen to.                                   *)
LEMMA OpenType ==
  /\ \A a \in Names \cup {None} : Open(a) \in ApiMessage
  /\ \A type \in {"close", "ssr"} : [type |-> type] \in ApiMessage
  BY DEF Open, ApiMessage

LEMMA PostType ==
  ASSUME TypeOK, NEW m \in ApiMessage, Post(m)
  PROVE  apiMsgs' \in Seq(ApiMessage)
  BY DEF TypeOK, Post

LEMMA SetMaskType ==
  ASSUME TypeOK, NEW a, NEW mask, SetMask(a, mask)
  PROVE  mEvtMask' = [b \in Names |-> mEvtMask'[b]] /\ apiMsgs' \in Seq(ApiMessage)
<1>1. mEvtMask = [b \in Names |-> mEvtMask[b]]
  BY DEF TypeOK
<1>2. mEvtMask' = [b \in Names |-> IF b = a THEN mask ELSE mEvtMask[b]]
  BY <1>1 DEF SetMask
<1> QED
  BY <1>2, OpenType, PostType DEF SetMask

LEMMA AdapterRange ==
  ASSUME TypeOK
  PROVE  /\ \A a \in Range(mLocAdapters) : a \in Names
         /\ mLocAdapters = <<>> <=> Len(mLocAdapters) = 0
         /\ mLocAdapters = <<>> <=> Range(mLocAdapters) = {}
         /\ DOMAIN mLocAdapters = 1 .. Len(mLocAdapters) /\ Len(mLocAdapters) \in Nat
<1>1. mLocAdapters \in Seq(Names)
  BY DEF TypeOK
<1>2. Range(mLocAdapters) = {mLocAdapters[x] : x \in DOMAIN mLocAdapters}
  BY DEF Range
<1> QED
  BY <1>1, <1>2

(* The list without the adapter that leaves: its last one moved.           *)
LEMMA RemoveFacts ==
  ASSUME TypeOK, IsInjective(mLocAdapters), NEW a, RemoveAdapter(a)
  PROVE  /\ mLocAdapters' \in Seq(Names) /\ IsInjective(mLocAdapters')
         /\ Len(mLocAdapters') = Len(mLocAdapters) - 1
         /\ Range(mLocAdapters') \subseteq Range(mLocAdapters)
<1> DEFINE s == mLocAdapters
           n == Len(s)
           i == CHOOSE k \in 1 .. n : s[k] = a
           t == [s EXCEPT ![i] = s[n]]
<1>1. s \in Seq(Names) /\ n \in Nat /\ DOMAIN s = 1 .. n
  BY DEF TypeOK
<1>2. a \in Range(s) /\ mLocAdapters' = SubSeq(t, 1, n - 1)
  BY DEF RemoveAdapter
<1>3. PICK k \in 1 .. n : s[k] = a
  BY <1>1, <1>2 DEF Range
<1>4. i \in 1 .. n /\ s[i] = a
  BY <1>3
<1>5. n \in 1 .. n
  BY <1>1, <1>3
<1> HIDE DEF i
<1>6. t \in Seq(Names) /\ Len(t) = n
  BY <1>1, <1>4, <1>5
<1>7. /\ SubSeq(t, 1, n - 1) \in Seq(Names) /\ Len(SubSeq(t, 1, n - 1)) = n - 1
      /\ DOMAIN SubSeq(t, 1, n - 1) = 1 .. n - 1
      /\ \A j \in 1 .. n - 1 : SubSeq(t, 1, n - 1)[j] = t[j]
  BY <1>1, <1>5, <1>6
<1>8. \A j \in 1 .. n - 1 : j \in 1 .. n /\ j # n /\ t[j] = IF j = i THEN s[n] ELSE s[j]
  BY <1>1, <1>4, <1>5
<1>9. IsInjective(mLocAdapters')
  <2>1. \A j, l \in 1 .. n : s[j] = s[l] => j = l
    BY <1>1 DEF IsInjective
  <2>2. \A j, l \in 1 .. n - 1 : t[j] = t[l] => j = l
    BY <1>4, <1>5, <1>8, <2>1
  <2> QED
    BY <1>2, <1>7, <2>2 DEF IsInjective
<1>10. Range(mLocAdapters') \subseteq Range(s)
  BY <1>1, <1>2, <1>5, <1>7, <1>8 DEF Range
<1> QED
  BY <1>1, <1>2, <1>7, <1>9, <1>10

-----------------------------------------------------------------------------
(* TypeOK, one lemma per action that changes more than it leaves alone.    *)
ApiTypes     == mLocAdapters \in Seq(Names) /\ mEvtMask = [a \in Names |-> mEvtMask[a]]
QueueTypes   == apiMsgs \in Seq(ApiMessage) /\ msgs \in Seq(AdapterMessage)
AdapterTypes == known \subseteq Names /\ walk \in Walking /\ (walk # Idle => walk.at > 0)
CallTypes    == /\ asked \in Seq(Answering \cup DefaultCalls)
                /\ answers \in Seq([id : Nat, did : Dids, err : Errs])
OdcpiTypes   == /\ mOdcpiRequestActive \in BOOLEAN
                /\ mOdcpiTimer \in [active : BOOLEAN, running : BOOLEAN]
                /\ credit \in Int

LEMMA TypeParts == TypeOK <=> ApiTypes /\ QueueTypes /\ AdapterTypes /\ CallTypes /\ OdcpiTypes
  BY DEF TypeOK, ApiTypes, QueueTypes, AdapterTypes, CallTypes, OdcpiTypes

LEMMA AddAdapterType ==
  ASSUME TypeOK, NEW a \in Names, AddAdapter(a), UNCHANGED odcpiVars
  PROVE  TypeOK'
<1>1. mLocAdapters' \in Seq(Names) /\ known' \subseteq Names
  BY DEF TypeOK, AddAdapter
<1>2. apiMsgs' \in Seq(ApiMessage)
  BY OpenType, PostType DEF AddAdapter
<1> QED
  BY <1>1, <1>2 DEF TypeOK, AddAdapter, callVars, odcpiVars

LEMMA RemoveAdapterType ==
  ASSUME TypeOK, IsInjective(mLocAdapters), NEW a \in Names, RemoveAdapter(a), UNCHANGED odcpiVars
  PROVE  TypeOK'
<1>1. mLocAdapters' \in Seq(Names)
  BY RemoveFacts
<1>2. apiMsgs' \in Seq(ApiMessage)
  <2>1. CASE Len(mLocAdapters) = 1
    BY <2>1, OpenType, PostType DEF RemoveAdapter
  <2>2. CASE Len(mLocAdapters) # 1
    BY <2>2, OpenType, PostType DEF RemoveAdapter
  <2> QED
    BY <2>1, <2>2
<1> QED
  BY <1>1, <1>2 DEF TypeOK, RemoveAdapter, callVars, odcpiVars

LEMMA UpdateEvtMaskType ==
  ASSUME TypeOK, NEW a \in Names, NEW mask, UpdateEvtMask(a, mask), UNCHANGED odcpiVars
  PROVE  TypeOK'
<1>1. mEvtMask' = [b \in Names |-> mEvtMask'[b]] /\ apiMsgs' \in Seq(ApiMessage)
  BY SetMaskType DEF UpdateEvtMask
<1> QED
  BY <1>1 DEF TypeOK, UpdateEvtMask, callVars, odcpiVars

LEMMA MakeCallType ==
  ASSUME TypeOK, NEW a \in Names, NEW call \in CallsUsed, MakeCall(a, call), UNCHANGED odcpiVars
  PROVE  TypeOK'
<1>1. [type |-> "call", call |-> call, id |-> Len(asked) + 1] \in ApiMessage
  BY CallsAssumption DEF TypeOK, ApiMessage, Calls
<1>2. apiMsgs' \in Seq(ApiMessage)
  BY <1>1, PostType DEF MakeCall
<1>3. asked' \in Seq(Answering \cup DefaultCalls)
  BY DEF TypeOK, MakeCall
<1> QED
  BY <1>2, <1>3 DEF TypeOK, MakeCall, odcpiVars

LEMMA OpenedType ==
  ASSUME TypeOK, NEW ok \in BOOLEAN, HandleOpen(ok) \/ HandleSsr(ok), UNCHANGED odcpiVars
  PROVE  TypeOK'
<1>1. Tail(apiMsgs) \in Seq(ApiMessage) /\ Msg \in ApiMessage /\ Msg.type \in {"open", "ssr"}
  BY ReceivesType DEF HandleOpen, HandleSsr
<1>2. msgs \in Seq(AdapterMessage) /\ mLocAdapters \in Seq(Names)
  BY DEF TypeOK
<1>3. apiMsgs' = Tail(apiMsgs)
  BY DEF HandleOpen, HandleSsr
<1>4. msgs' \in Seq(AdapterMessage)
  <2>1. CASE HandleSsr(ok)
    BY <2>1, <1>2, UpType, ConcatElements DEF HandleSsr
  <2>2. CASE HandleOpen(ok) /\ ok /\ Msg.adapter # None
    <3>1. Msg.adapter \in Names /\ msgs' = msgs \o Up(<<Msg.adapter>>)
      BY <2>2, <1>1, ReceivesType DEF HandleOpen, ApiMessage
    <3>2. <<Msg.adapter>> \in Seq(Names)
      BY <3>1
    <3> QED
      BY <3>1, <3>2, <1>2, UpType, ConcatElements
  <2>3. CASE HandleOpen(ok) /\ ~(ok /\ Msg.adapter # None)
    BY <2>3, <1>2 DEF HandleOpen
  <2> QED
    BY <2>1, <2>2, <2>3
<1>5. UNCHANGED <<mLocAdapters, mEvtMask, known, walk, callVars>>
  BY DEF HandleOpen, HandleSsr
<1> QED
  BY <1>1, <1>3, <1>4, <1>5 DEF TypeOK, callVars, odcpiVars

LEMMA HandleCallType ==
  ASSUME TypeOK, HandleCall, UNCHANGED odcpiVars
  PROVE  TypeOK'
<1>1. Tail(apiMsgs) \in Seq(ApiMessage) /\ Msg \in ApiMessage /\ Msg.type = "call"
  BY ReceivesType DEF HandleCall
<1>2. PICK did \in EngineDoes(Msg.call) : msgs' = msgs \o Respond(Msg, did)
  BY DEF HandleCall
<1>3. Respond(Msg, did) \in Seq(AdapterMessage)
  <2>1. CASE Msg.call \in Answering
    <3> DEFINE m == [type |-> "answer", id |-> Msg.id, did |-> did, err |-> Err(Msg.call, did)]
    <3>1. Respond(Msg, did) = <<m>> /\ m \in AdapterMessage
      BY <2>1, <1>1, RespondType DEF AdapterMessage
    <3> HIDE DEF m
    <3> QED
      BY <3>1
  <2>2. CASE Msg.call \notin Answering
    <3>1. <<>> \in Seq(AdapterMessage)
      OBVIOUS
    <3> QED
      BY <2>2, <3>1, <1>1, RespondType
  <2> QED
    BY <2>1, <2>2
<1>4. msgs' \in Seq(AdapterMessage)
  BY <1>2, <1>3, ConcatElements DEF TypeOK
<1> QED
  BY <1>1, <1>4 DEF TypeOK, HandleCall, callVars, odcpiVars

LEMMA DispatchType ==
  ASSUME TypeOK, NEW event \in Reports \cup Requests, NEW data \in Data, Dispatch(event, data),
         UNCHANGED odcpiVars
  PROVE  /\ TypeOK'
         /\ walk' = [event |-> event, at |-> 1, met |-> <<>>, handled |-> FALSE,
                     present |-> Range(mLocAdapters), data |-> data]
<1>1. walk' = [event |-> event, at |-> 1, met |-> <<>>, handled |-> FALSE,
               present |-> Range(mLocAdapters), data |-> data]
  BY DEF Dispatch, Idle
<1>2. walk' \in Walking /\ walk'.at > 0
  BY <1>1, AdapterRange DEF Walking
<1> QED
  BY <1>1, <1>2 DEF TypeOK, Dispatch, callVars, odcpiVars

LEMMA WalkType ==
  ASSUME TypeOK, Walk, UNCHANGED odcpiVars
  PROVE  TypeOK'
<1>1. CASE walk.at > Len(mLocAdapters) \/ walk.handled
  <2>1. walk' = Idle /\ msgs' = msgs
    BY <1>1 DEF Walk
  <2>2. Idle \in Walking
    BY DEF Idle, Walking, Data
  <2> QED
    BY <2>1, <2>2 DEF TypeOK, Walk, callVars, odcpiVars
<1>2. CASE ~(walk.at > Len(mLocAdapters) \/ walk.handled)
  <2> DEFINE a == mLocAdapters[walk.at]
             done == walk.event \in Requests /\ Handles(a, walk.event)
             m == [type |-> walk.event, data |-> walk.data]
  <2>1. /\ walk' = [walk EXCEPT !.at = @ + 1, !.met = Append(@, a), !.handled = done]
        /\ msgs' = IF done THEN Append(msgs, m) ELSE msgs
    BY <1>2 DEF Walk
  <2>2. walk \in Walking /\ msgs \in Seq(AdapterMessage) /\ mLocAdapters \in Seq(Names)
    BY DEF TypeOK
  <2>3. walk' \in Walking /\ walk'.at > 0
    <3>1. a \in Names /\ walk.at \in Nat
      BY <1>2, <2>2 DEF Walking, Walk, TypeOK
    <3>2. Append(walk.met, a) \in Seq(Names) /\ done \in BOOLEAN
      BY <3>1, <2>2 DEF Walking
    <3> HIDE DEF done, a
    <3>3. walk = [event |-> walk.event, at |-> walk.at, met |-> walk.met, handled |-> walk.handled,
                  present |-> walk.present, data |-> walk.data]
      BY <2>2 DEF Walking
    <3>4. walk' = [event |-> walk.event, at |-> walk.at + 1, met |-> Append(walk.met, a),
                   handled |-> done, present |-> walk.present, data |-> walk.data]
      BY <2>1, <3>3
    <3> QED
      BY <3>1, <3>2, <3>4, <2>2 DEF Walking
  <2>4. done => m \in AdapterMessage
    BY <2>2 DEF AdapterMessage, RequestMsg, Walking
  <2>5. msgs' \in Seq(AdapterMessage)
    BY <2>1, <2>2, <2>4, AppendElements
  <2> QED
    BY <2>3, <2>5 DEF TypeOK, Walk, callVars, odcpiVars
<1> QED
  BY <1>1, <1>2

(* The adapter's own messages.                                             *)
LEMMA HandleAnswerType ==
  ASSUME TypeOK, HandleAnswer, UNCHANGED odcpiVars
  PROVE  TypeOK'
<1> DEFINE m == [id |-> msgs[1].id, did |-> msgs[1].did, err |-> msgs[1].err]
<1>1. Tail(msgs) \in Seq(AdapterMessage) /\ msgs[1] \in AdapterMessage /\ msgs[1].type = "answer"
  BY GetsType DEF HandleAnswer
<1>2. msgs[1] \in AnswerMsg
  BY <1>1, RequestsApart DEF AdapterMessage, EngineUp, RequestMsg, InitMsg, ExpireMsg
<1>3. m \in [id : Nat, did : Dids, err : Errs] /\ answers' = Append(answers, m)
  BY <1>2 DEF AnswerMsg, HandleAnswer
<1> HIDE DEF m
<1>4. answers' \in Seq([id : Nat, did : Dids, err : Errs])
  BY <1>3, AppendElements DEF TypeOK
<1> QED
  BY <1>1, <1>4 DEF TypeOK, HandleAnswer, odcpiVars

LEMMA HandleEngineUpType ==
  ASSUME TypeOK, RestartSessions
  PROVE  TypeOK'
<1>1. Tail(msgs) \in Seq(AdapterMessage) /\ msgs[1] \in AdapterMessage /\ msgs[1].type = "engineUp"
  BY GetsType DEF RestartSessions, HandleEngineUp
<1>2. msgs[1].adapter \in Names
  BY <1>1, RequestsApart DEF AdapterMessage, AnswerMsg, RequestMsg, InitMsg, ExpireMsg, EngineUp
<1>3. known' \subseteq Names /\ mOdcpiRequestActive' \in BOOLEAN
  BY <1>2 DEF TypeOK, RestartSessions, HandleEngineUp
<1> QED
  BY <1>1, <1>3 DEF TypeOK, RestartSessions, HandleEngineUp, callVars

LEMMA InitOdcpiType ==
  ASSUME TypeOK, InitOdcpi
  PROVE  TypeOK'
<1>1. Tail(msgs) \in Seq(AdapterMessage)
  BY GetsType DEF InitOdcpi
<1>2. mEvtMask' = [b \in Names |-> mEvtMask'[b]] /\ apiMsgs' \in Seq(ApiMessage)
  <2>1. CASE UNCHANGED <<mOdcpiRequestCb, mEvtMask, apiMsgs>>
    BY <2>1 DEF TypeOK
  <2>2. CASE SetMask(Gnss, mEvtMask[Gnss] \cup {WifiBit})
    BY <2>2, SetMaskType
  <2> QED
    BY <2>1, <2>2 DEF InitOdcpi
<1> QED
  BY <1>1, <1>2 DEF TypeOK, InitOdcpi, Consumes, callVars

LEMMA InjectOdcpiType ==
  ASSUME TypeOK, InjectOdcpi
  PROVE  TypeOK'
<1>1. [type |-> "call", call |-> "injectPosition", id |-> Len(asked) + 1] \in ApiMessage
  BY DEF TypeOK, ApiMessage, Calls, Silent, InjectionCalls
<1>2. apiMsgs' \in Seq(ApiMessage)
  BY <1>1, PostType DEF InjectOdcpi
<1> QED
  BY <1>2 DEF TypeOK, InjectOdcpi, odcpiVars, callVars

LEMMA InitOdcpiCommandType ==
  ASSUME TypeOK, NEW priority \in Priorities, InitOdcpiCommand(priority)
  PROVE  TypeOK'
<1>1. [type |-> "initOdcpi", priority |-> priority] \in AdapterMessage
  BY DEF AdapterMessage, InitMsg
<1>2. msgs' \in Seq(AdapterMessage)
  BY <1>1, AppendElements DEF TypeOK, InitOdcpiCommand
<1> QED
  BY <1>2 DEF TypeOK, InitOdcpiCommand, odcpiVars, callVars

LEMMA RequestOdcpiType ==
  ASSUME TypeOK, RequestOdcpi
  PROVE  TypeOK'
<1>1. Tail(msgs) \in Seq(AdapterMessage)
  BY GetsType DEF RequestOdcpi
<1>2. OdcpiTypes'
  <2>1. CASE UNCHANGED odcpiVars
    BY <2>1 DEF odcpiVars, TypeOK, OdcpiTypes
  <2>2. CASE Stop
    BY <2>2 DEF Stop, TypeOK, OdcpiTypes
  <2>3. CASE Now
    BY <2>3 DEF Now, Running, TypeOK, OdcpiTypes
  <2>4. CASE Later
    BY <2>4 DEF Later, TypeOK, OdcpiTypes
  <2> QED
    BY <2>1, <2>2, <2>3, <2>4 DEF RequestOdcpi, Start
<1> QED
  BY <1>1, <1>2 DEF TypeOK, RequestOdcpi, Consumes, callVars, OdcpiTypes

LEMMA TimerType ==
  ASSUME TypeOK, TimeOutCallback \/ OdcpiTimerExpire
  PROVE  TypeOK'
<1>1. CASE TimeOutCallback
  <2>1. [type |-> "odcpiTimerExpire"] \in AdapterMessage
    BY DEF AdapterMessage, ExpireMsg
  <2>2. msgs' \in Seq(AdapterMessage)
    BY <1>1, <2>1, AppendElements DEF TypeOK, TimeOutCallback
  <2>3. OdcpiTypes'
    <3>1. mOdcpiTimer' \in [active : BOOLEAN, running : BOOLEAN]
      BY <1>1 DEF TimeOutCallback, TypeOK
    <3>2. mOdcpiRequestActive' \in BOOLEAN
      BY <1>1 DEF TimeOutCallback, TypeOK
    <3>3. credit' \in Int
      BY <1>1 DEF TimeOutCallback, TypeOK
    <3> QED
      BY <3>1, <3>2, <3>3 DEF OdcpiTypes
  <2> QED
    BY <1>1, <2>2, <2>3 DEF TypeOK, TimeOutCallback, callVars, OdcpiTypes
<1>2. CASE OdcpiTimerExpire
  <2>1. Tail(msgs) \in Seq(AdapterMessage)
    BY <1>2, GetsType DEF OdcpiTimerExpire
  <2>2. OdcpiTypes'
    <3>1. mOdcpiTimer' \in {Running, Stopped} /\ credit' \in {credit, credit - 1}
      BY <1>2 DEF OdcpiTimerExpire, Expire
    <3>2. mOdcpiRequestActive' \in BOOLEAN
      BY <1>2 DEF OdcpiTimerExpire, TypeOK
    <3>3. mOdcpiTimer' \in [active : BOOLEAN, running : BOOLEAN]
      <4>1. Running \in [active : BOOLEAN, running : BOOLEAN]
        BY DEF Running
      <4>2. Stopped \in [active : BOOLEAN, running : BOOLEAN]
        BY DEF Stopped
      <4> QED
        BY <3>1, <4>1, <4>2
    <3>4. credit' \in Int
      BY <3>1 DEF TypeOK
    <3> QED
      BY <3>2, <3>3, <3>4 DEF OdcpiTypes
  <2> QED
    BY <1>2, <2>1, <2>2 DEF TypeOK, OdcpiTimerExpire, Consumes, callVars, OdcpiTypes
<1> QED
  BY <1>1, <1>2

-----------------------------------------------------------------------------
(* The steps of the adapters and the engine, and those of on-demand        *)
(* positions, by name: every proof below follows this list.                *)
ApiStep ==
  \/ \E a \in Names : AddAdapter(a)
  \/ \E a \in Names : RemoveAdapter(a)
  \/ \E a \in Names : \E mask \in Masks : UpdateEvtMask(a, mask)
  \/ \E a \in Names : \E call \in CallsUsed : MakeCall(a, call)
  \/ \E call \in CallsUsed : CallDirectly(call)
  \/ \E ok \in BOOLEAN : HandleOpen(ok)
  \/ \E ok \in BOOLEAN : HandleSsr(ok)
  \/ HandleClose
  \/ HandleCall
  \/ EngineDown
  \/ \E event \in Reports \cup Requests : Dispatch(event, Idle.data)
  \/ Walk
  \/ HandleAnswer
  \/ \E event \in Requests : HandleRequest(event)

OdcpiStep ==
  \/ \E request \in OdcpiRequestInfo : Dispatch("requestOdcpi", request) /\ UNCHANGED odcpiVars
  \/ \E priority \in Priorities : InitOdcpiCommand(priority)
  \/ InjectOdcpi
  \/ InitOdcpi
  \/ RequestOdcpi
  \/ OdcpiTimerExpire
  \/ RestartSessions
  \/ TimeOutCallback

LEMMA NextSteps == Next => (ApiStep /\ UNCHANGED odcpiVars) \/ OdcpiStep
<1> SUFFICES ASSUME Next
             PROVE  (ApiStep /\ UNCHANGED odcpiVars) \/ OdcpiStep
  OBVIOUS
<1>1. CASE ApiNext /\ UNCHANGED odcpiVars
  BY <1>1, EventsAssumption DEF ApiNext, ApiStep
<1>2. CASE EngineAsks
  BY <1>2 DEF EngineAsks, OdcpiStep
<1> QED
  BY <1>1, <1>2 DEF Next, OdcpiStep

LEMMA TypeStep == TypeOK /\ IsInjective(mLocAdapters) /\ [Next]_vars => TypeOK'
<1> SUFFICES ASSUME TypeOK, IsInjective(mLocAdapters), [Next]_vars
             PROVE  TypeOK'
  OBVIOUS
<1>1. CASE ApiStep /\ UNCHANGED odcpiVars
  <2>1. ASSUME NEW a \in Names, AddAdapter(a)
        PROVE  TypeOK'
    BY <1>1, <2>1, AddAdapterType
  <2>2. ASSUME NEW a \in Names, RemoveAdapter(a)
        PROVE  TypeOK'
    BY <1>1, <2>2, RemoveAdapterType
  <2>3. ASSUME NEW a \in Names, NEW mask \in Masks, UpdateEvtMask(a, mask)
        PROVE  TypeOK'
    BY <1>1, <2>3, UpdateEvtMaskType
  <2>4. ASSUME NEW a \in Names, NEW call \in CallsUsed, MakeCall(a, call)
        PROVE  TypeOK'
    BY <1>1, <2>4, MakeCallType
  <2>5. ASSUME NEW call \in CallsUsed, CallDirectly(call)
        PROVE  TypeOK'
    BY <1>1, <2>5 DEF CallDirectly, TypeOK, odcpiVars
  <2>6. ASSUME NEW ok \in BOOLEAN, HandleOpen(ok) \/ HandleSsr(ok)
        PROVE  TypeOK'
    BY <1>1, <2>6, OpenedType
  <2>7. CASE HandleClose
    <3>1. Tail(apiMsgs) \in Seq(ApiMessage)
      BY <2>7, ReceivesType DEF HandleClose
    <3> QED
      BY <1>1, <2>7, <3>1 DEF HandleClose, TypeOK, odcpiVars, callVars
  <2>8. CASE HandleCall
    BY <1>1, <2>8, HandleCallType
  <2>9. CASE EngineDown
    <3>1. apiMsgs' \in Seq(ApiMessage)
      BY <2>9, OpenType, PostType DEF EngineDown
    <3> QED
      BY <1>1, <2>9, <3>1 DEF EngineDown, TypeOK, odcpiVars, callVars
  <2>10. ASSUME NEW event \in Reports \cup Requests, Dispatch(event, Idle.data)
         PROVE  TypeOK'
    <3>1. Idle.data \in Data
      BY DEF Idle, Data
    <3> QED
      BY <1>1, <2>10, <3>1, DispatchType
  <2>11. CASE Walk
    BY <1>1, <2>11, WalkType
  <2>12. CASE HandleAnswer
    BY <1>1, <2>12, HandleAnswerType
  <2>13. ASSUME NEW event \in Requests, HandleRequest(event)
         PROVE  TypeOK'
    <3>1. Tail(msgs) \in Seq(AdapterMessage)
      BY <2>13, GetsType DEF HandleRequest
    <3> QED
      BY <1>1, <2>13, <3>1 DEF HandleRequest, TypeOK, odcpiVars, callVars
  <2> QED
    BY <1>1, <2>1, <2>2, <2>3, <2>4, <2>5, <2>6, <2>7, <2>8, <2>9, <2>10, <2>11, <2>12, <2>13
       DEF ApiStep
<1>2. CASE OdcpiStep
  <2>1. ASSUME NEW request \in OdcpiRequestInfo, Dispatch("requestOdcpi", request), UNCHANGED odcpiVars
        PROVE  TypeOK'
    BY <2>1, DispatchType, RequestsApart DEF Data
  <2> QED
    BY <1>2, <2>1, InitOdcpiCommandType, InjectOdcpiType, InitOdcpiType, RequestOdcpiType,
       TimerType, HandleEngineUpType DEF OdcpiStep
<1>3. CASE UNCHANGED vars
  BY <1>3 DEF TypeOK, vars, apiVars, odcpiVars
<1> QED
  BY <1>1, <1>2, <1>3, NextSteps

(* The list holds an adapter once.                                         *)
LEMMA ListStep == TypeOK /\ IsInjective(mLocAdapters) /\ [Next]_vars => IsInjective(mLocAdapters')
<1> SUFFICES ASSUME TypeOK, IsInjective(mLocAdapters), [Next]_vars
             PROVE  IsInjective(mLocAdapters')
  OBVIOUS
<1>1. ASSUME NEW a \in Names, AddAdapter(a)
      PROVE  IsInjective(mLocAdapters')
  <2>1. mLocAdapters \in Seq(Names) /\ mLocAdapters' = Append(mLocAdapters, a)
    BY <1>1 DEF TypeOK, AddAdapter
  <2>2. \A i \in DOMAIN mLocAdapters : mLocAdapters[i] # a
    BY <1>1 DEF AddAdapter, Range
  <2>3. \A i, j \in DOMAIN mLocAdapters : mLocAdapters[i] = mLocAdapters[j] => i = j
    BY DEF IsInjective
  <2>4. \A i, j \in DOMAIN mLocAdapters' : mLocAdapters'[i] = mLocAdapters'[j] => i = j
    BY <2>1, <2>2, <2>3, AppendElements
  <2> QED
    BY <2>4 DEF IsInjective
<1>2. ASSUME NEW a \in Names, RemoveAdapter(a)
      PROVE  IsInjective(mLocAdapters')
  BY <1>2, RemoveFacts
<1>3. mLocAdapters' # mLocAdapters => \E a \in Names : AddAdapter(a) \/ RemoveAdapter(a)
  BY NextSteps DEF ApiStep, OdcpiStep, vars, apiVars, UpdateEvtMask, MakeCall, CallDirectly, HandleOpen,
     HandleSsr, HandleClose, HandleCall, EngineDown, Dispatch, Walk, HandleAnswer, HandleRequest,
     InitOdcpiCommand, InjectOdcpi, InitOdcpi, RequestOdcpi, OdcpiTimerExpire, RestartSessions,
     HandleEngineUp, TimeOutCallback, Consumes
<1> QED
  BY <1>1, <1>2, <1>3

-----------------------------------------------------------------------------
(* Why the engine serves the masks: a message that opens it again is on    *)
(* the queue whenever it does not, even behind one that closes it, and     *)
(* whoever has not been told it is up is the adapter of one of them.       *)
Steady == world \notin {"failing", "nolib"}

ClosedForGood ==
  \A i \in DOMAIN apiMsgs : apiMsgs[i].type = "close" =>
    \/ mLocAdapters = <<>>
    \/ \E j \in DOMAIN apiMsgs : i < j /\ apiMsgs[j].type \in {"open", "ssr"}

OpenForMasks ==
  \/ Reopening
  \/ mLocAdapters = <<>>
  \/ engine.up /\ engine.mask = EvtMask

AllTold ==
  \A a \in Range(mLocAdapters) :
    Told(a) \/ \E k \in DOMAIN apiMsgs : apiMsgs[k] = Open(a)

(* What a step may do to the LocApiMsgTask's queue: put a message that     *)
(* opens the engine or a call at its end, close for good, or handle its    *)
(* first message.                                                          *)
Reopens(m) == m.type \in {"open", "ssr"}

LEMMA ClosedAfterPost ==
  ASSUME TypeOK, ClosedForGood, NEW m \in ApiMessage, Post(m),
         Reopens(m) \/ (m.type = "call" /\ mLocAdapters' = mLocAdapters)
  PROVE  ClosedForGood'
<1> DEFINE p == Len(apiMsgs) + 1
<1>1. apiMsgs \in Seq(ApiMessage) /\ apiMsgs' = Append(apiMsgs, m)
  BY DEF TypeOK, Post
<1>2. /\ DOMAIN apiMsgs' = DOMAIN apiMsgs \cup {p} /\ apiMsgs'[p] = m
      /\ \A i \in DOMAIN apiMsgs : apiMsgs'[i] = apiMsgs[i] /\ i < p
  BY <1>1, AppendElements
<1> HIDE DEF p
<1>3. ASSUME NEW i \in DOMAIN apiMsgs', apiMsgs'[i].type = "close"
      PROVE  mLocAdapters' = <<>> \/ \E j \in DOMAIN apiMsgs' : i < j /\ Reopens(apiMsgs'[j])
  <2>1. i \in DOMAIN apiMsgs /\ apiMsgs[i].type = "close" /\ i < p
    BY <1>2, <1>3 DEF Reopens
  <2>2. CASE Reopens(m)
    BY <2>1, <2>2, <1>2
  <2>3. CASE mLocAdapters' = mLocAdapters
    BY <2>1, <2>3, <1>2 DEF ClosedForGood, Reopens
  <2> QED
    BY <2>2, <2>3
<1> QED
  BY <1>3 DEF ClosedForGood, Reopens

LEMMA ClosedAfterTail ==
  ASSUME TypeOK, ClosedForGood, apiMsgs # <<>>, apiMsgs' = Tail(apiMsgs), UNCHANGED mLocAdapters
  PROVE  ClosedForGood'
<1>1. apiMsgs \in Seq(ApiMessage)
  BY DEF TypeOK
<1>2. ASSUME NEW i \in DOMAIN Tail(apiMsgs), Tail(apiMsgs)[i].type = "close", mLocAdapters # <<>>
      PROVE  \E j \in DOMAIN Tail(apiMsgs) : i < j /\ Tail(apiMsgs)[j].type \in {"open", "ssr"}
  <2>1. i \in Nat /\ i > 0 /\ i + 1 \in DOMAIN apiMsgs /\ apiMsgs[i + 1].type = "close"
    BY <1>1, <1>2, TailElements
  <2>2. PICK j \in DOMAIN apiMsgs : i + 1 < j /\ apiMsgs[j].type \in {"open", "ssr"}
    BY <2>1, <1>2 DEF ClosedForGood
  <2>3. j \in Nat /\ j # 1 /\ j - 1 \in DOMAIN Tail(apiMsgs) /\ Tail(apiMsgs)[j - 1] = apiMsgs[j]
    BY <2>1, <2>2, <1>1, TailElements
  <2> QED
    BY <2>1, <2>2, <2>3
<1> QED
  BY <1>2 DEF ClosedForGood

LEMMA OpenAfterPost ==
  ASSUME TypeOK, OpenForMasks, NEW m \in ApiMessage, Post(m),
         \/ m.type \in {"open", "ssr", "close"}
         \/ UNCHANGED <<mLocAdapters, mEvtMask, engine>>
  PROVE  OpenForMasks'
<1> DEFINE p == Len(apiMsgs) + 1
<1>1. apiMsgs \in Seq(ApiMessage) /\ apiMsgs' = Append(apiMsgs, m)
  BY DEF TypeOK, Post
<1>2. /\ DOMAIN apiMsgs' = DOMAIN apiMsgs \cup {p} /\ apiMsgs'[p] = m
      /\ \A i \in DOMAIN apiMsgs : apiMsgs'[i] = apiMsgs[i] /\ i < p
  BY <1>1, AppendElements
<1> HIDE DEF p
<1>3. CASE m.type \in {"open", "ssr", "close"}
  BY <1>2, <1>3 DEF OpenForMasks, Reopening
<1>4. CASE UNCHANGED <<mLocAdapters, mEvtMask, engine>>
  <2>1. EvtMask' = EvtMask
    BY <1>4 DEF EvtMask
  <2>2. Reopening => Reopening'
    BY <1>2 DEF Reopening
  <2> QED
    BY <1>4, <2>1, <2>2 DEF OpenForMasks
<1> QED
  BY <1>3, <1>4

(* An open that works is for the masks of that moment.                     *)
LEMMA OpenAfterOpen ==
  ASSUME TypeOK, Steady, NEW ok \in BOOLEAN, HandleOpen(ok) \/ HandleSsr(ok)
  PROVE  OpenForMasks' /\ ok
<1>1. ok /\ UNCHANGED <<mLocAdapters, mEvtMask>>
  BY DEF HandleOpen, HandleSsr, OpenEngine, Steady
<1>2. engine' = [up |-> TRUE, mask |-> EvtMask]
  BY <1>1 DEF HandleOpen, HandleSsr
<1>3. EvtMask' = EvtMask
  BY <1>1 DEF EvtMask
<1> QED
  BY <1>1, <1>2, <1>3 DEF OpenForMasks

LEMMA OpenAfterClose ==
  ASSUME TypeOK, ClosedForGood, HandleClose
  PROVE  OpenForMasks'
<1>1. apiMsgs \in Seq(ApiMessage) /\ apiMsgs # <<>> /\ apiMsgs[1].type = "close" /\ apiMsgs' = Tail(apiMsgs)
  BY ReceivesType DEF HandleClose
<1>2. mLocAdapters = <<>> \/ \E j \in DOMAIN apiMsgs : 1 < j /\ apiMsgs[j].type \in {"open", "ssr"}
  BY <1>1, TailElements DEF ClosedForGood
<1>3. CASE mLocAdapters = <<>>
  BY <1>3 DEF HandleClose, OpenForMasks
<1>4. ASSUME NEW j \in DOMAIN apiMsgs, 1 < j, apiMsgs[j].type \in {"open", "ssr"}
      PROVE  OpenForMasks'
  <2>1. j - 1 \in DOMAIN Tail(apiMsgs) /\ Tail(apiMsgs)[j - 1] = apiMsgs[j]
    BY <1>1, <1>4, TailElements
  <2> QED
    BY <1>1, <1>4, <2>1 DEF OpenForMasks, Reopening
<1> QED
  BY <1>2, <1>3, <1>4

LEMMA OpenAfterCall ==
  ASSUME TypeOK, OpenForMasks, HandleCall
  PROVE  OpenForMasks'
<1>1. apiMsgs \in Seq(ApiMessage) /\ apiMsgs # <<>> /\ apiMsgs[1].type = "call" /\ apiMsgs' = Tail(apiMsgs)
  BY ReceivesType DEF HandleCall
<1>2. Reopening => Reopening'
  <2>1. ASSUME NEW k \in DOMAIN apiMsgs, apiMsgs[k].type \in {"open", "ssr", "close"}
        PROVE  Reopening'
    <3>1. k - 1 \in DOMAIN Tail(apiMsgs) /\ Tail(apiMsgs)[k - 1] = apiMsgs[k]
      BY <1>1, <2>1, TailElements
    <3> QED
      BY <1>1, <2>1, <3>1 DEF Reopening
  <2> QED
    BY <2>1 DEF Reopening
<1>3. UNCHANGED <<mLocAdapters, mEvtMask, engine>> /\ EvtMask' = EvtMask
  BY DEF HandleCall, EvtMask
<1> QED
  BY <1>2, <1>3 DEF OpenForMasks

(* What a step does to the adapters' queue: nothing, it puts messages at   *)
(* the end, none of them of certain types, or it handles the first.        *)
MsgsAdded(others) ==
  \E p \in Seq(AdapterMessage) :
    msgs' = msgs \o p /\ \A k \in DOMAIN p : p[k].type \notin others
MsgHandled == msgs # <<>> /\ msgs' = Tail(msgs)

LEMMA NoneMore ==
  ASSUME TypeOK, UNCHANGED msgs, NEW others
  PROVE  MsgsAdded(others)
<1>1. msgs \in Seq(AdapterMessage) /\ <<>> \in Seq(AdapterMessage) /\ DOMAIN <<>> = {}
  BY DEF TypeOK
<1>2. msgs' = msgs \o <<>>
  BY <1>1
<1> QED
  BY <1>1, <1>2 DEF MsgsAdded

LEMMA OneMore ==
  ASSUME TypeOK, NEW m \in AdapterMessage, msgs' = Append(msgs, m), NEW others, m.type \notin others
  PROVE  MsgsAdded(others)
<1>1. msgs \in Seq(AdapterMessage) /\ <<m>> \in Seq(AdapterMessage)
  BY DEF TypeOK
<1>2. Append(msgs, m) = msgs \o <<m>> /\ \A k \in DOMAIN <<m>> : <<m>>[k] = m
  BY <1>1
<1> QED
  BY <1>1, <1>2 DEF MsgsAdded

LEMMA UpAdds ==
  ASSUME TypeOK, NEW adapters \in Seq(Names), msgs' = msgs \o Up(adapters)
  PROVE  MsgsAdded({"answer", "odcpiTimerExpire"})
<1>1. Up(adapters) \in Seq(AdapterMessage)
  BY UpType
<1>2. \A k \in DOMAIN Up(adapters) : Up(adapters)[k].type = "engineUp"
  <2>1. DOMAIN Up(adapters) = DOMAIN adapters
    BY UpType
  <2> QED
    BY <2>1 DEF Up
<1> QED
  BY <1>1, <1>2 DEF MsgsAdded

LEMMA OpenedAdds ==
  ASSUME TypeOK, NEW ok \in BOOLEAN, HandleOpen(ok) \/ HandleSsr(ok)
  PROVE  MsgsAdded({"answer", "odcpiTimerExpire"})
<1>1. Msg \in ApiMessage /\ mLocAdapters \in Seq(Names) /\ (HandleOpen(ok) => Msg.type = "open")
  BY ReceivesType DEF HandleOpen, HandleSsr, TypeOK
<1>2. CASE HandleSsr(ok)
  BY <1>1, <1>2, UpAdds, NoneMore DEF HandleSsr
<1>3. CASE HandleOpen(ok) /\ Msg.adapter # None /\ ok
  <2>1. Msg.adapter \in Names /\ msgs' = msgs \o Up(<<Msg.adapter>>)
    BY <1>1, <1>3 DEF HandleOpen, ApiMessage
  <2>2. <<Msg.adapter>> \in Seq(Names)
    BY <2>1
  <2> QED
    BY <2>1, <2>2, UpAdds
<1>4. CASE HandleOpen(ok) /\ ~(Msg.adapter # None /\ ok)
  BY <1>4, NoneMore DEF HandleOpen
<1> QED
  BY <1>2, <1>3, <1>4

(* The answer to a call that wants one, and nothing for the others.        *)
LEMMA CallAdds ==
  ASSUME TypeOK, HandleCall
  PROVE  /\ MsgsAdded({"odcpiTimerExpire"})
         /\ Msg.call \in Answering =>
              \E m \in AnswerMsg : /\ msgs' = Append(msgs, m) /\ m.id = Msg.id
                                   /\ m.err = "SUCCESS" <=> m.did = "done"
         /\ Msg.call \notin Answering => UNCHANGED msgs
<1>1. Msg \in ApiMessage /\ Msg.type = "call" /\ msgs \in Seq(AdapterMessage)
  BY ReceivesType DEF HandleCall, TypeOK
<1>2. PICK did \in EngineDoes(Msg.call) : msgs' = msgs \o Respond(Msg, did)
  BY DEF HandleCall
<1>3. CASE Msg.call \in Answering
  <2> DEFINE m == [type |-> "answer", id |-> Msg.id, did |-> did, err |-> Err(Msg.call, did)]
  <2>1. Respond(Msg, did) = <<m>> /\ m \in AnswerMsg
    BY <1>3, <1>1, RespondType
  <2>2. /\ m.id = Msg.id /\ m.type = "answer"
        /\ m.err = "SUCCESS" <=> m.did = "done"
    BY <1>3, ErrIsTrue
  <2> HIDE DEF m
  <2>3. m \in AdapterMessage
    BY <2>1 DEF AdapterMessage
  <2>4. msgs' = Append(msgs, m)
    BY <1>1, <1>2, <2>1, <2>3
  <2> QED
    BY <1>3, <2>1, <2>2, <2>3, <2>4, OneMore
<1>4. CASE Msg.call \notin Answering
  <2>1. msgs' = msgs
    <3>1. msgs' = msgs \o <<>>
      BY <1>1, <1>2, <1>4, RespondType
    <3> QED
      BY <1>1, <3>1
  <2> QED
    BY <1>4, <2>1, NoneMore
<1> QED
  BY <1>3, <1>4

LEMMA MsgsStep ==
  ASSUME TypeOK, [Next]_vars
  PROVE  \/ MsgsAdded({"answer", "odcpiTimerExpire"})
         \/ HandleCall /\ MsgsAdded({"odcpiTimerExpire"})
         \/ TimeOutCallback /\ MsgsAdded({"answer"})
         \/ /\ MsgHandled
            /\ msgs[1].type = "engineUp" => RestartSessions
            /\ msgs[1].type = "answer" => HandleAnswer
            /\ msgs[1].type = "odcpiTimerExpire" => OdcpiTimerExpire
<1> DEFINE Consume == /\ MsgHandled
                      /\ msgs[1].type = "engineUp" => RestartSessions
                      /\ msgs[1].type = "answer" => HandleAnswer
                      /\ msgs[1].type = "odcpiTimerExpire" => OdcpiTimerExpire
           Quiet == MsgsAdded({"answer", "odcpiTimerExpire"})
<1>1. CASE Walk
  <2> DEFINE m == [type |-> walk.event, data |-> walk.data]
  <2>1. walk.event \in Requests =>
          m \in AdapterMessage /\ m.type \notin {"answer", "odcpiTimerExpire"}
    BY RequestsApart DEF AdapterMessage, RequestMsg, Walking, TypeOK
  <2>2. msgs' = msgs \/ (walk.event \in Requests /\ msgs' = Append(msgs, m))
    BY <1>1 DEF Walk
  <2> HIDE DEF m
  <2> QED
    BY <2>1, <2>2, OneMore, NoneMore
<1>2. ASSUME NEW priority \in Priorities, InitOdcpiCommand(priority)
      PROVE  Quiet
  <2>1. [type |-> "initOdcpi", priority |-> priority] \in AdapterMessage
    BY DEF AdapterMessage, InitMsg
  <2>2. msgs' = Append(msgs, [type |-> "initOdcpi", priority |-> priority])
    BY <1>2 DEF InitOdcpiCommand
  <2> QED
    BY <2>1, <2>2, OneMore
<1>3. CASE TimeOutCallback
  <2>1. [type |-> "odcpiTimerExpire"] \in AdapterMessage
    BY DEF AdapterMessage, ExpireMsg
  <2>2. msgs' = Append(msgs, [type |-> "odcpiTimerExpire"])
    BY <1>3 DEF TimeOutCallback
  <2>3. MsgsAdded({"answer"})
    BY <2>1, <2>2, OneMore
  <2> QED
    BY <1>3, <2>3
<1>4. CASE RestartSessions \/ HandleAnswer \/ InitOdcpi \/ RequestOdcpi \/ OdcpiTimerExpire
  BY <1>4, RequestsApart DEF RestartSessions, HandleEngineUp, HandleAnswer, InitOdcpi, RequestOdcpi,
                             OdcpiTimerExpire, Consumes, Gets, MsgHandled
<1>5. ASSUME NEW event \in Requests, HandleRequest(event)
      PROVE  Consume
  BY <1>5, RequestsApart DEF HandleRequest, Gets, MsgHandled
<1>6. \/ UNCHANGED msgs
      \/ \E ok \in BOOLEAN : HandleOpen(ok) \/ HandleSsr(ok)
      \/ HandleCall \/ Walk \/ TimeOutCallback
      \/ \E priority \in Priorities : InitOdcpiCommand(priority)
      \/ RestartSessions \/ HandleAnswer \/ InitOdcpi \/ RequestOdcpi \/ OdcpiTimerExpire
      \/ \E event \in Requests : HandleRequest(event)
  BY NextSteps DEF ApiStep, OdcpiStep, vars, apiVars, AddAdapter, RemoveAdapter, UpdateEvtMask, MakeCall,
     CallDirectly, HandleClose, EngineDown, Dispatch, InjectOdcpi
<1> HIDE DEF Consume, Quiet
<1>7. UNCHANGED msgs \/ (\E ok \in BOOLEAN : HandleOpen(ok) \/ HandleSsr(ok)) => Quiet
  BY NoneMore, OpenedAdds DEF Quiet
<1>8. HandleCall => MsgsAdded({"odcpiTimerExpire"})
  BY CallAdds
<1>9. SUFFICES \/ Quiet
               \/ HandleCall /\ MsgsAdded({"odcpiTimerExpire"})
               \/ TimeOutCallback /\ MsgsAdded({"answer"})
               \/ Consume
  BY DEF Consume, Quiet
<1> QED
  BY <1>1, <1>2, <1>3, <1>4, <1>5, <1>6, <1>7, <1>8 DEF Consume, Quiet

LEMMA KnownStep ==
  ASSUME TypeOK, [Next]_vars
  PROVE  known \subseteq known'
<1>1. known' = known \/ (\E a \in Names : AddAdapter(a)) \/ RestartSessions
  BY NextSteps DEF ApiStep, OdcpiStep, vars, apiVars, RemoveAdapter, UpdateEvtMask, MakeCall,
     CallDirectly, HandleOpen, HandleSsr, HandleClose, HandleCall, EngineDown, Dispatch, Walk,
     HandleAnswer, HandleRequest, InitOdcpiCommand, InjectOdcpi, InitOdcpi, RequestOdcpi,
     OdcpiTimerExpire, TimeOutCallback, Consumes
<1> QED
  BY <1>1 DEF AddAdapter, RestartSessions, HandleEngineUp

LEMMA ToldStays ==
  ASSUME TypeOK, [Next]_vars, NEW a, Told(a)
  PROVE  Told(a)'
<1> DEFINE m == [type |-> "engineUp", adapter |-> a]
<1>1. m.type = "engineUp" /\ m.adapter = a
  OBVIOUS
<1>2. Told(a) <=> a \in known \/ \E k \in DOMAIN msgs : msgs[k] = m
  BY DEF Told
<1>3. Told(a)' <=> a \in known' \/ \E k \in DOMAIN msgs' : msgs'[k] = m
  BY DEF Told
<1> HIDE DEF m
<1>4. CASE a \in known
  BY <1>4, <1>3, KnownStep
<1>5. ASSUME NEW k \in DOMAIN msgs, msgs[k] = m
      PROVE  Told(a)'
  <2>1. msgs \in Seq(AdapterMessage)
    BY DEF TypeOK
  <2>2. ASSUME NEW p \in Seq(AdapterMessage), msgs' = msgs \o p
        PROVE  Told(a)'
    BY <1>3, <1>5, <2>1, <2>2, ConcatElements
  <2>3. CASE MsgHandled /\ k # 1
    <3>1. k - 1 \in DOMAIN Tail(msgs) /\ Tail(msgs)[k - 1] = m
      BY <1>5, <2>1, <2>3, TailElements DEF MsgHandled
    <3> QED
      BY <1>3, <2>3, <3>1 DEF MsgHandled
  <2>4. CASE k = 1 /\ RestartSessions
    BY <1>1, <1>3, <1>5, <2>4 DEF RestartSessions, HandleEngineUp
  <2> QED
    BY <1>1, <1>5, <2>2, <2>3, <2>4, MsgsStep DEF MsgsAdded
<1> QED
  BY <1>2, <1>4, <1>5

LEMMA ToldAfterPost ==
  ASSUME TypeOK, AllTold, [Next]_vars, NEW m \in ApiMessage, Post(m),
         \A a \in Range(mLocAdapters') \ Range(mLocAdapters) : m = Open(a)
  PROVE  AllTold'
<1> DEFINE p == Len(apiMsgs) + 1
<1>1. apiMsgs \in Seq(ApiMessage) /\ apiMsgs' = Append(apiMsgs, m)
  BY DEF TypeOK, Post
<1>2. /\ DOMAIN apiMsgs' = DOMAIN apiMsgs \cup {p} /\ apiMsgs'[p] = m
      /\ \A i \in DOMAIN apiMsgs : apiMsgs'[i] = apiMsgs[i] /\ i < p
  BY <1>1, AppendElements
<1> HIDE DEF p
<1>3. ASSUME NEW a \in Range(mLocAdapters')
      PROVE  Told(a)' \/ \E k \in DOMAIN apiMsgs' : apiMsgs'[k] = Open(a)
  <2>1. CASE a \in Range(mLocAdapters)
    BY <2>1, <1>2, ToldStays DEF AllTold
  <2>2. CASE a \notin Range(mLocAdapters)
    BY <2>2, <1>2, <1>3
  <2> QED
    BY <2>1, <2>2
<1>4. \A a : Open(a)' = Open(a)
  BY DEF Open
<1> QED
  BY <1>3, <1>4 DEF AllTold

(* Whoever is added is told once the engine has been opened for it.        *)
LEMMA ToldAfterMsg ==
  ASSUME TypeOK, AllTold, [Next]_vars, apiMsgs # <<>>, apiMsgs' = Tail(apiMsgs), UNCHANGED mLocAdapters,
         Msg.type = "open" => HandleOpen(TRUE)
  PROVE  AllTold'
<1>1. apiMsgs \in Seq(ApiMessage) /\ msgs \in Seq(AdapterMessage)
  BY DEF TypeOK
<1>2. ASSUME NEW a \in Range(mLocAdapters), NEW k \in DOMAIN apiMsgs, apiMsgs[k] = Open(a)
      PROVE  Told(a)' \/ \E l \in DOMAIN apiMsgs' : apiMsgs'[l] = Open(a)
  <2>1. CASE k # 1
    <3>1. k - 1 \in DOMAIN Tail(apiMsgs) /\ Tail(apiMsgs)[k - 1] = apiMsgs[k]
      BY <1>1, <1>2, <2>1, TailElements
    <3> QED
      BY <1>2, <3>1
  <2>2. CASE k = 1
    <3>1. a \in Names /\ a # None
      BY <1>2, AdapterRange, NamesAssumption
    <3>2. Msg.type = "open" /\ Msg.adapter = a
      BY <1>2, <2>2 DEF Msg, Open
    <3>3. msgs' = msgs \o Up(<<a>>)
      BY <3>1, <3>2 DEF HandleOpen
    <3>4. <<a>> \in Seq(Names) /\ 1 \in DOMAIN <<a>> /\ <<a>>[1] = a
      BY <3>1
    <3>5. /\ Up(<<a>>) \in Seq(AdapterMessage) /\ 1 \in DOMAIN Up(<<a>>)
          /\ Up(<<a>>)[1] = [type |-> "engineUp", adapter |-> a]
      BY <3>4, UpType
    <3>6. Len(msgs) + 1 \in DOMAIN msgs' /\ msgs'[Len(msgs) + 1] = [type |-> "engineUp", adapter |-> a]
      <4> SUFFICES ASSUME NEW u \in Seq(AdapterMessage), u = Up(<<a>>)
                   PROVE  Len(msgs) + 1 \in DOMAIN (msgs \o u) /\ (msgs \o u)[Len(msgs) + 1] = u[1]
        BY <3>3, <3>5
      <4>1. 1 \in DOMAIN u
        BY <3>5
      <4> QED
        BY <1>1, <4>1, ConcatElements
    <3> QED
      BY <3>6 DEF Told
  <2> QED
    BY <2>1, <2>2
<1>3. ASSUME NEW a \in Range(mLocAdapters)
      PROVE  Told(a)' \/ \E k \in DOMAIN apiMsgs' : apiMsgs'[k] = Open(a)
  BY <1>2, ToldStays DEF AllTold
<1>4. \A a : Open(a)' = Open(a)
  BY DEF Open
<1> QED
  BY <1>3, <1>4 DEF AllTold

EngineInv == ClosedForGood /\ (Steady => OpenForMasks /\ AllTold)

LEMMA WorldStays == [Next]_vars => UNCHANGED world
  BY NextSteps DEF ApiStep, OdcpiStep, vars, apiVars, AddAdapter, RemoveAdapter, UpdateEvtMask, MakeCall,
     CallDirectly, HandleOpen, HandleSsr, HandleClose, HandleCall, EngineDown, Dispatch, Walk,
     HandleAnswer, HandleRequest, InitOdcpiCommand, InjectOdcpi, InitOdcpi, RequestOdcpi,
     OdcpiTimerExpire, RestartSessions, HandleEngineUp, TimeOutCallback, Consumes

(* A step that puts something on the LocApiMsgTask's queue.                *)
LEMMA EngineAfterPost ==
  ASSUME TypeOK, EngineInv, [Next]_vars, NEW m \in ApiMessage, Post(m),
         \/ Reopens(m)
         \/ m.type = "call" /\ UNCHANGED <<mLocAdapters, mEvtMask, engine>>,
         \A a \in Range(mLocAdapters') \ Range(mLocAdapters) : m = Open(a)
  PROVE  EngineInv'
<1>1. ClosedForGood'
  BY ClosedAfterPost DEF EngineInv
<1>2. Steady => OpenForMasks'
  BY OpenAfterPost DEF EngineInv, Reopens
<1>3. Steady => AllTold'
  BY ToldAfterPost DEF EngineInv
<1>4. Steady' <=> Steady
  BY WorldStays DEF Steady
<1> QED
  BY <1>1, <1>2, <1>3, <1>4 DEF EngineInv

(* A step of the LocApiMsgTask.                                            *)
LEMMA EngineAfterMsg ==
  ASSUME TypeOK, EngineInv, [Next]_vars,
         \/ \E ok \in BOOLEAN : HandleOpen(ok) \/ HandleSsr(ok)
         \/ HandleClose \/ HandleCall
  PROVE  EngineInv'
<1>1. apiMsgs # <<>> /\ apiMsgs' = Tail(apiMsgs) /\ UNCHANGED mLocAdapters
  BY DEF HandleOpen, HandleSsr, HandleClose, HandleCall, Receives
<1>2. ClosedForGood'
  BY <1>1, ClosedAfterTail DEF EngineInv
<1>3. ASSUME Steady
      PROVE  OpenForMasks' /\ (Msg.type = "open" => HandleOpen(TRUE))
  <2>1. ASSUME NEW ok \in BOOLEAN, HandleOpen(ok) \/ HandleSsr(ok)
        PROVE  OpenForMasks' /\ (Msg.type = "open" => HandleOpen(TRUE))
    <3>1. OpenForMasks' /\ ok = TRUE
      BY <1>3, <2>1, OpenAfterOpen
    <3>2. HandleSsr(ok) => Msg.type = "ssr"
      BY DEF HandleSsr, Receives, Msg
    <3> QED
      BY <2>1, <3>1, <3>2
  <2>2. CASE HandleClose
    BY <2>2, OpenAfterClose DEF EngineInv, HandleClose, Receives, Msg
  <2>3. CASE HandleCall
    BY <1>3, <2>3, OpenAfterCall DEF EngineInv, HandleCall, Receives, Msg
  <2> QED
    BY <2>1, <2>2, <2>3
<1>4. Steady => AllTold'
  BY <1>1, <1>3, ToldAfterMsg DEF EngineInv
<1>5. Steady' <=> Steady
  BY WorldStays DEF Steady
<1> QED
  BY <1>2, <1>3, <1>4, <1>5 DEF EngineInv

(* A step that leaves the engine and what it is to serve alone.            *)
LEMMA EngineAlone ==
  ASSUME TypeOK, EngineInv, [Next]_vars, UNCHANGED <<mLocAdapters, mEvtMask, apiMsgs, engine>>
  PROVE  EngineInv'
<1>1. ClosedForGood' <=> ClosedForGood
  BY DEF ClosedForGood
<1>2. OpenForMasks' <=> OpenForMasks
  BY DEF OpenForMasks, Reopening, EvtMask
<1>3. AllTold => AllTold'
  BY ToldStays DEF AllTold, Open
<1>4. Steady' <=> Steady
  BY WorldStays DEF Steady
<1> QED
  BY <1>1, <1>2, <1>3, <1>4 DEF EngineInv

LEMMA EngineStep ==
  ASSUME TypeOK, IsInjective(mLocAdapters), EngineInv, [Next]_vars
  PROVE  EngineInv'
<1> DEFINE call(c) == [type |-> "call", call |-> c, id |-> Len(asked) + 1]
<1>1. ASSUME NEW a \in Names, AddAdapter(a)
      PROVE  EngineInv'
  <2>1. Range(mLocAdapters') \subseteq Range(mLocAdapters) \cup {a}
    <3>1. mLocAdapters \in Seq(Names) /\ mLocAdapters' = Append(mLocAdapters, a)
      BY <1>1 DEF AddAdapter, TypeOK
    <3> QED
      BY <3>1, AppendElements DEF Range
  <2>2. Open(a) \in ApiMessage /\ Reopens(Open(a)) /\ Post(Open(a))
    BY <1>1, OpenType DEF Reopens, Open, AddAdapter
  <2> QED
    BY <2>1, <2>2, EngineAfterPost
<1>2. ASSUME NEW a \in Names, RemoveAdapter(a)
      PROVE  EngineInv'
  <2>1. /\ Range(mLocAdapters') \subseteq Range(mLocAdapters)
        /\ Len(mLocAdapters') = Len(mLocAdapters) - 1
    BY <1>2, RemoveFacts
  <2>2. CASE Len(mLocAdapters) # 1
    <3>1. Open(None) \in ApiMessage /\ Reopens(Open(None)) /\ Post(Open(None))
      BY <1>2, <2>2, OpenType DEF Reopens, Open, RemoveAdapter
    <3> QED
      BY <2>1, <3>1, EngineAfterPost
  <2>3. CASE Len(mLocAdapters) = 1
    <3>1. mLocAdapters' = <<>>
      <4>1. Len(mLocAdapters') = 0 /\ mLocAdapters' \in Seq(Names)
        BY <2>1, <2>3, <1>2, RemoveFacts
      <4> QED
        BY <4>1
    <3>2. Range(mLocAdapters') = {}
      BY <3>1 DEF Range
    <3> QED
      BY <3>1, <3>2 DEF EngineInv, ClosedForGood, OpenForMasks, AllTold
  <2> QED
    BY <2>2, <2>3
<1>3. ASSUME NEW a \in Names, NEW mask, SetMask(a, mask), UNCHANGED mLocAdapters
      PROVE  EngineInv'
  <2>1. Open(None) \in ApiMessage /\ Reopens(Open(None)) /\ Post(Open(None))
    BY <1>3, OpenType DEF Reopens, Open, SetMask
  <2> QED
    BY <1>3, <2>1, EngineAfterPost
<1>4. ASSUME NEW c \in Calls, Post(call(c)), UNCHANGED <<mLocAdapters, mEvtMask, engine>>
      PROVE  EngineInv'
  <2>1. call(c) \in ApiMessage /\ call(c).type = "call"
    BY DEF ApiMessage, TypeOK
  <2> HIDE DEF call
  <2> QED
    BY <1>4, <2>1, EngineAfterPost
<1>5. CASE EngineDown
  <2>1. [type |-> "ssr"] \in ApiMessage /\ Reopens([type |-> "ssr"]) /\ Post([type |-> "ssr"])
    BY <1>5, OpenType DEF Reopens, EngineDown
  <2>2. UNCHANGED mLocAdapters
    BY <1>5 DEF EngineDown
  <2> QED
    BY <2>1, <2>2, EngineAfterPost
<1>6. ASSUME NEW a \in Names, NEW mask \in Masks, UpdateEvtMask(a, mask)
      PROVE  EngineInv'
  BY <1>3, <1>6 DEF UpdateEvtMask
<1>7. ASSUME NEW a \in Names, NEW c \in CallsUsed, MakeCall(a, c)
      PROVE  EngineInv'
  BY <1>4, <1>7, CallsAssumption DEF MakeCall, Calls
<1>8. CASE InjectOdcpi
  <2>1. "injectPosition" \in Calls
    BY DEF Calls, Silent, InjectionCalls
  <2> QED
    BY <1>4, <1>8, <2>1 DEF InjectOdcpi
<1>9. CASE InitOdcpi
  <2>1. UNCHANGED <<mLocAdapters, engine>>
    BY <1>9 DEF InitOdcpi, Consumes
  <2>2. UNCHANGED <<mEvtMask, apiMsgs>> \/ SetMask(Gnss, mEvtMask[Gnss] \cup {WifiBit})
    BY <1>9 DEF InitOdcpi
  <2> QED
    BY <1>3, <2>1, <2>2, GnssAssumption, EngineAlone
<1>10. \/ UNCHANGED <<mLocAdapters, mEvtMask, apiMsgs, engine>>
       \/ \E a \in Names : AddAdapter(a)
       \/ \E a \in Names : RemoveAdapter(a)
       \/ \E a \in Names : \E mask \in Masks : UpdateEvtMask(a, mask)
       \/ \E a \in Names : \E c \in CallsUsed : MakeCall(a, c)
       \/ \E ok \in BOOLEAN : HandleOpen(ok) \/ HandleSsr(ok)
       \/ HandleClose \/ HandleCall \/ EngineDown \/ InjectOdcpi \/ InitOdcpi
  BY NextSteps DEF ApiStep, OdcpiStep, vars, apiVars, CallDirectly, Dispatch, Walk, HandleAnswer,
     HandleRequest, InitOdcpiCommand, RequestOdcpi, OdcpiTimerExpire, RestartSessions, HandleEngineUp,
     TimeOutCallback, Consumes
<1> QED
  BY <1>1, <1>2, <1>5, <1>6, <1>7, <1>8, <1>9, <1>10, EngineAfterMsg, EngineAlone

LEMMA EngineInit == Init => EngineInv /\ IsInjective(mLocAdapters)
<1> SUFFICES ASSUME Init
             PROVE  EngineInv /\ IsInjective(mLocAdapters)
  OBVIOUS
<1>1. mLocAdapters = <<>> /\ apiMsgs = <<>>
  BY DEF Init, ApiInit
<1>2. IsInjective(mLocAdapters) /\ Range(mLocAdapters) = {}
  BY <1>1 DEF IsInjective, Range
<1> QED
  BY <1>1, <1>2 DEF EngineInv, ClosedForGood, OpenForMasks, AllTold

LEMMA EngineServes == TypeOK /\ IsInjective(mLocAdapters) /\ EngineInv => EngineServesMasks
<1> SUFFICES ASSUME TypeOK, IsInjective(mLocAdapters), EngineInv
             PROVE  EngineServesMasks
  OBVIOUS
<1>1. ApiTypeOK
  <2>1. walk.event \in Reports \cup Requests \cup {None}
    BY DEF TypeOK, Walking
  <2>2. Range(mLocAdapters) \subseteq Names
    BY AdapterRange
  <2>3. DOMAIN mEvtMask = Names /\ known \subseteq Names
    BY DEF TypeOK
  <2> QED
    BY <2>1, <2>2, <2>3 DEF ApiTypeOK
<1>2. ASSUME ~Reopening, mLocAdapters # <<>>, Steady
      PROVE  engine.up /\ engine.mask = EvtMask /\ \A a \in Range(mLocAdapters) : Told(a)
  <2>1. engine.up /\ engine.mask = EvtMask
    BY <1>2 DEF EngineInv, OpenForMasks
  <2>2. \A a : ~\E k \in DOMAIN apiMsgs : apiMsgs[k] = Open(a)
    BY <1>2 DEF Reopening, Open
  <2> QED
    BY <1>2, <2>1, <2>2 DEF EngineInv, AllTold
<1> QED
  BY <1>1, <1>2 DEF EngineServesMasks, Steady, EvtMask

-----------------------------------------------------------------------------
(* Whatever adapters come, change what they listen to and go, and however  *)
(* often the engine goes down, once LocApiBase has handled its messages    *)
(* (LocOpenMsg, LocSsrMsg, LocCloseMsg) the engine is open for exactly the *)
(* events the registered adapters want, and each of them is told it is up. *)
THEOREM ServesTheMasks == Spec => []EngineServesMasks
<1> DEFINE Inv == TypeOK /\ IsInjective(mLocAdapters) /\ EngineInv
<1>1. Init => Inv
  BY TypeInit, EngineInit
<1>2. Inv /\ [Next]_vars => Inv'
  <2> SUFFICES ASSUME Inv, [Next]_vars
               PROVE  Inv'
    OBVIOUS
  <2>1. TypeOK' /\ IsInjective(mLocAdapters') /\ EngineInv'
    BY TypeStep, ListStep, EngineStep
  <2>2. IsInjective(mLocAdapters)' <=> IsInjective(mLocAdapters')
    BY DEF IsInjective
  <2> QED
    BY <2>1, <2>2
<1>3. Inv => EngineServesMasks
  BY EngineServes
<1> QED
  BY <1>1, <1>2, <1>3, PTL DEF Spec

-----------------------------------------------------------------------------
(* Why an event reaches the adapters: as long as none leaves, those it has *)
(* met are the first of the list, and if it is a request, only the last of *)
(* them can have handled it.                                               *)
WalkFollows ==
  walk # Idle /\ world # "leaving" =>
    /\ Len(walk.met) = walk.at - 1
    /\ walk.at <= Len(mLocAdapters) + 1
    /\ \A k \in DOMAIN walk.met : walk.met[k] = mLocAdapters[k]
    /\ walk.present \subseteq Range(mLocAdapters)
    /\ walk.event \in Requests =>
         \A k \in DOMAIN walk.met :
           walk.event \in Adapters[walk.met[k]] <=> walk.handled /\ k = Len(walk.met)
    /\ walk.handled => walk.event \in Requests /\ walk.met # <<>>

LEMMA WalkAfterDispatch ==
  ASSUME TypeOK, NEW event \in Reports \cup Requests, NEW data \in Data, Dispatch(event, data),
         UNCHANGED odcpiVars
  PROVE  WalkFollows'
<1>1. /\ walk'.at = 1 /\ walk'.met = <<>> /\ walk'.handled = FALSE
      /\ walk'.present = Range(mLocAdapters) /\ walk'.event = event
  BY DispatchType
<1>2. UNCHANGED mLocAdapters /\ Len(mLocAdapters) \in Nat
  BY DEF Dispatch, TypeOK
<1> QED
  BY <1>1, <1>2 DEF WalkFollows

LEMMA WalkAfterAdd ==
  ASSUME TypeOK, WalkFollows, NEW a \in Names, AddAdapter(a)
  PROVE  WalkFollows'
<1>1. UNCHANGED <<walk, world>> /\ mLocAdapters' = Append(mLocAdapters, a) /\ mLocAdapters \in Seq(Names)
  BY DEF AddAdapter, TypeOK
<1>2. Idle' = Idle
  BY DEF Idle
<1>3. SUFFICES ASSUME walk # Idle, world # "leaving"
               PROVE  /\ walk.at <= Len(mLocAdapters') + 1
                      /\ \A k \in DOMAIN walk.met : walk.met[k] = mLocAdapters'[k]
                      /\ walk.present \subseteq Range(mLocAdapters')
  BY <1>1, <1>2 DEF WalkFollows
<1>4. walk.met \in Seq(Names) /\ walk.at \in Nat
  BY DEF TypeOK, Walking
<1>5. /\ DOMAIN mLocAdapters' = DOMAIN mLocAdapters \cup {Len(mLocAdapters) + 1}
      /\ \A k \in DOMAIN mLocAdapters : mLocAdapters'[k] = mLocAdapters[k]
  BY <1>1, AppendElements
<1>6. DOMAIN walk.met \subseteq DOMAIN mLocAdapters /\ walk.at <= Len(mLocAdapters) + 1
  BY <1>1, <1>3, <1>4 DEF WalkFollows
<1>7. Range(mLocAdapters) \subseteq Range(mLocAdapters')
  BY <1>5 DEF Range
<1> QED
  BY <1>1, <1>3, <1>4, <1>5, <1>6, <1>7 DEF WalkFollows

LEMMA WalkAfterWalk ==
  ASSUME TypeOK, WalkFollows, Walk
  PROVE  WalkFollows'
<1> DEFINE a == mLocAdapters[walk.at]
           done == walk.event \in Requests /\ Handles(a, walk.event)
<1>1. UNCHANGED <<mLocAdapters, world>> /\ walk # Idle
  BY DEF Walk
<1>2. CASE walk' = Idle
  BY <1>2 DEF WalkFollows, Idle
<1>3. SUFFICES ASSUME ~(walk.at > Len(mLocAdapters) \/ walk.handled), world # "leaving",
                      walk' = [walk EXCEPT !.at = @ + 1, !.met = Append(@, a), !.handled = done]
               PROVE  WalkFollows'
  BY <1>1, <1>2 DEF Walk, WalkFollows
<1>4. /\ walk \in Walking /\ mLocAdapters \in Seq(Names) /\ walk.at \in Nat /\ walk.at > 0
      /\ walk.met \in Seq(Names)
  BY <1>1 DEF TypeOK, Walking
<1>5. /\ walk'.at = walk.at + 1 /\ walk'.met = Append(walk.met, a) /\ walk'.handled = done
      /\ walk'.present = walk.present /\ walk'.event = walk.event
  BY <1>3, <1>4 DEF Walking
<1>6. walk.at <= Len(mLocAdapters) /\ a \in Names /\ Len(walk.met) = walk.at - 1
  BY <1>1, <1>3, <1>4 DEF WalkFollows
<1>7. /\ DOMAIN walk'.met = DOMAIN walk.met \cup {walk.at} /\ walk'.met[walk.at] = a
      /\ \A k \in DOMAIN walk.met : walk'.met[k] = walk.met[k] /\ k \in Nat /\ k < walk.at
      /\ Len(walk'.met) = walk.at /\ walk'.met # <<>>
  BY <1>4, <1>5, <1>6, AppendElements
<1>8. \A k \in DOMAIN walk'.met : walk'.met[k] = mLocAdapters[k]
  BY <1>1, <1>3, <1>7 DEF WalkFollows
<1>9. walk.event \in Requests =>
        \A k \in DOMAIN walk'.met :
          walk.event \in Adapters[walk'.met[k]] <=> done /\ k = walk.at
  <2>1. walk.event \in Requests => \A k \in DOMAIN walk.met : walk.event \notin Adapters[walk.met[k]]
    BY <1>1, <1>3 DEF WalkFollows
  <2>2. walk.event \in Requests => (walk.event \in Adapters[a] <=> done)
    BY DEF Handles
  <2> QED
    BY <1>7, <2>1, <2>2
<1>10. walk.present \subseteq Range(mLocAdapters) /\ Len(mLocAdapters) \in Nat
  BY <1>1, <1>3, <1>4 DEF WalkFollows
<1>11. done => walk.event \in Requests
  OBVIOUS
<1> HIDE DEF a, done
<1>12. \A k \in DOMAIN walk'.met : k = walk.at <=> k = Len(walk'.met)
  BY <1>7
<1>13. walk'.event \in Requests =>
         \A k \in DOMAIN walk'.met :
           walk'.event \in Adapters[walk'.met[k]] <=> walk'.handled /\ k = Len(walk'.met)
  BY <1>5, <1>9, <1>12
<1>14. /\ Len(walk'.met) = walk'.at - 1 /\ walk'.at <= Len(mLocAdapters') + 1
       /\ walk'.present \subseteq Range(mLocAdapters')
  BY <1>1, <1>4, <1>5, <1>6, <1>7, <1>10
<1>15. walk'.handled => walk'.event \in Requests /\ walk'.met # <<>>
  BY <1>5, <1>7, <1>11
<1>16. \A k \in DOMAIN walk'.met : walk'.met[k] = mLocAdapters'[k]
  BY <1>1, <1>8
<1> QED
  BY <1>13, <1>14, <1>15, <1>16 DEF WalkFollows

LEMMA WalkStep ==
  ASSUME TypeOK, WalkFollows, [Next]_vars
  PROVE  WalkFollows'
<1>1. \/ UNCHANGED <<mLocAdapters, walk>>
      \/ \E a \in Names : AddAdapter(a)
      \/ \E a \in Names : RemoveAdapter(a)
      \/ \E event \in Reports \cup Requests : Dispatch(event, Idle.data) /\ UNCHANGED odcpiVars
      \/ \E request \in OdcpiRequestInfo : Dispatch("requestOdcpi", request) /\ UNCHANGED odcpiVars
      \/ Walk
  BY NextSteps DEF ApiStep, OdcpiStep, vars, apiVars, UpdateEvtMask, MakeCall, CallDirectly,
     HandleOpen, HandleSsr, HandleClose, HandleCall, EngineDown, HandleAnswer, HandleRequest,
     InitOdcpiCommand, InjectOdcpi, InitOdcpi, RequestOdcpi, OdcpiTimerExpire, RestartSessions,
     HandleEngineUp, TimeOutCallback, Consumes
<1>2. CASE UNCHANGED <<mLocAdapters, walk>>
  BY <1>2, WorldStays DEF WalkFollows, Idle
<1>3. ASSUME NEW a \in Names, RemoveAdapter(a)
      PROVE  WalkFollows'
  BY <1>3 DEF RemoveAdapter, Event, WalkFollows
<1>4. ASSUME NEW event \in Reports \cup Requests, Dispatch(event, Idle.data), UNCHANGED odcpiVars
      PROVE  WalkFollows'
  <2>1. Idle.data \in Data
    BY DEF Idle, Data
  <2> QED
    BY <1>4, <2>1, WalkAfterDispatch
<1>5. ASSUME NEW request \in OdcpiRequestInfo, Dispatch("requestOdcpi", request), UNCHANGED odcpiVars
      PROVE  WalkFollows'
  BY <1>5, RequestsApart, WalkAfterDispatch DEF Data
<1> QED
  BY <1>1, <1>2, <1>3, <1>4, <1>5, WalkAfterAdd, WalkAfterWalk

LEMMA WalkReaches == TypeOK /\ IsInjective(mLocAdapters) /\ WalkFollows => EventsReachAdapters
<1> SUFFICES ASSUME TypeOK, IsInjective(mLocAdapters), WalkFollows, walk # Idle, world # "leaving"
             PROVE  /\ IsInjective(walk.met)
                    /\ walk.at > Len(mLocAdapters) /\ ~walk.handled
                         => /\ walk.present \subseteq Range(walk.met)
                            /\ walk.event \in Requests =>
                                 \A a \in walk.present : walk.event \notin Adapters[a]
                    /\ walk.handled => /\ walk.event \in Adapters[Last(walk.met)]
                                       /\ \A a \in Range(Front(walk.met)) :
                                            walk.event \notin Adapters[a]
  BY DEF EventsReachAdapters
<1>1. /\ walk.met \in Seq(Names) /\ mLocAdapters \in Seq(Names) /\ walk.at \in Nat
      /\ Len(walk.met) = walk.at - 1 /\ walk.at <= Len(mLocAdapters) + 1
      /\ \A k \in DOMAIN walk.met : walk.met[k] = mLocAdapters[k]
      /\ walk.present \subseteq Range(mLocAdapters)
  BY DEF TypeOK, Walking, WalkFollows
<1>2. DOMAIN walk.met \subseteq DOMAIN mLocAdapters
  BY <1>1
<1>3. IsInjective(walk.met)
  BY <1>1, <1>2 DEF IsInjective
<1>4. ASSUME walk.at > Len(mLocAdapters), ~walk.handled
      PROVE  /\ walk.present \subseteq Range(walk.met)
             /\ walk.event \in Requests => \A a \in walk.present : walk.event \notin Adapters[a]
  <2>1. DOMAIN walk.met = DOMAIN mLocAdapters
    BY <1>1, <1>4
  <2>2. \A a \in walk.present : \E k \in DOMAIN walk.met : walk.met[k] = a
    BY <1>1, <2>1 DEF Range
  <2> QED
    BY <1>4, <2>2 DEF Range, WalkFollows
<1>5. ASSUME walk.handled
      PROVE  /\ walk.event \in Adapters[Last(walk.met)]
             /\ \A a \in Range(Front(walk.met)) : walk.event \notin Adapters[a]
  <2>1. walk.event \in Requests /\ walk.met # <<>> /\ Len(walk.met) \in DOMAIN walk.met
    BY <1>1, <1>5 DEF WalkFollows
  <2>2. walk.event \in Adapters[walk.met[Len(walk.met)]]
    BY <1>5, <2>1 DEF WalkFollows
  <2>3. ASSUME NEW a \in Range(Front(walk.met))
        PROVE  walk.event \notin Adapters[a]
    <3>1. PICK k \in DOMAIN walk.met : k # Len(walk.met) /\ walk.met[k] = a
      <4>1. Front(walk.met) = SubSeq(walk.met, 1, Len(walk.met) - 1)
        BY DEF Front
      <4>2. /\ DOMAIN SubSeq(walk.met, 1, Len(walk.met) - 1) = 1 .. Len(walk.met) - 1
            /\ \A i \in 1 .. Len(walk.met) - 1 : SubSeq(walk.met, 1, Len(walk.met) - 1)[i] = walk.met[i]
        BY <1>1, <2>1
      <4>3. PICK i \in 1 .. Len(walk.met) - 1 : walk.met[i] = a
        BY <2>3, <4>1, <4>2 DEF Range
      <4> QED
        BY <1>1, <4>3
    <3> QED
      BY <1>5, <2>1, <3>1 DEF WalkFollows
  <2> QED
    BY <2>2, <2>3 DEF Last
<1> QED
  BY <1>3, <1>4, <1>5

(* An event that is through has reached every adapter that was registered  *)
(* all along, once each, and a request the first adapter that handles it   *)
(* and none after, however the list grows while TO_ALL_ADAPTERS and        *)
(* TO_1ST_HANDLING_ADAPTER walk it on the engine's thread, as long as no   *)
(* adapter leaves meanwhile.                                               *)
THEOREM EventsReachEveryone == Spec => []EventsReachAdapters
<1> DEFINE Inv == TypeOK /\ IsInjective(mLocAdapters) /\ WalkFollows
<1>1. Init => Inv
  <2>1. Init => walk = Idle
    BY DEF Init, ApiInit
  <2> QED
    BY <2>1, TypeInit, EngineInit DEF WalkFollows
<1>2. Inv /\ [Next]_vars => Inv'
  <2> SUFFICES ASSUME Inv, [Next]_vars
               PROVE  Inv'
    OBVIOUS
  <2>1. TypeOK' /\ IsInjective(mLocAdapters') /\ WalkFollows'
    BY TypeStep, ListStep, WalkStep
  <2>2. IsInjective(mLocAdapters)' <=> IsInjective(mLocAdapters')
    BY DEF IsInjective
  <2> QED
    BY <2>1, <2>2
<1>3. Inv => EventsReachAdapters
  BY WalkReaches
<1> QED
  BY <1>1, <1>2, <1>3, PTL DEF Spec

-----------------------------------------------------------------------------
(* Why every answer is for the call it says, and none is missing: the      *)
(* numbers of the calls that want an answer, out of 1 .. Len(asked), are   *)
(* those of the answers that came back, of the answers on the adapters'    *)
(* queue and of the calls on the LocApiMsgTask's, in this order.           *)

(* The messages at the places W of the queue q have the numbers of T in    *)
(* low .. high, in increasing order.                                       *)
Numbered(q, W, T, low, high) ==
  /\ \A k \in W : q[k].id \in low .. high /\ q[k].id \in T
  /\ \A k, l \in W : k < l => q[k].id < q[l].id
  /\ \A i \in low .. high : i \in T => \E k \in W : q[k].id = i

LEMMA NumberedKept ==
  ASSUME NEW q, NEW p, NEW W, NEW T, NEW low, NEW high, Numbered(q, W, T, low, high),
         \A k \in W : p[k] = q[k]
  PROVE  Numbered(p, W, T, low, high)
  BY DEF Numbered

(* Only the numbers in low .. high count.                                  *)
LEMMA NumberedBy ==
  ASSUME NEW q, NEW W, NEW S, NEW T, NEW low, NEW high, Numbered(q, W, S, low, high),
         \A i \in low .. high : i \in S <=> i \in T
  PROVE  Numbered(q, W, T, low, high)
  BY DEF Numbered

(* Numbers that are not in T make no difference at the end.                *)
LEMMA NumberedOn ==
  ASSUME NEW q, NEW W, NEW T, NEW low \in Nat, NEW high \in Nat, NEW more \in Nat, high <= more,
         Numbered(q, W, T, low, high), \A i \in high + 1 .. more : i \notin T
  PROVE  Numbered(q, W, T, low, more)
<1>1. \A i \in low .. high : i \in low .. more
  OBVIOUS
<1>2. ASSUME NEW i \in low .. more, i \in T
      PROVE  i \in low .. high
  BY <1>2
<1> QED
  BY <1>1, <1>2 DEF Numbered

LEMMA NumberedGrows ==
  ASSUME NEW q, NEW p, NEW W \in SUBSET Nat, NEW T, NEW low \in Nat, NEW high \in Nat,
         NEW i \in Nat, Numbered(q, W, T, low, high), \A k \in W : p[k] = q[k],
         NEW n \in Nat, \A k \in W : k < n, p[n].id = i, i \in T, low <= i, high < i,
         \A j \in high + 1 .. i : j \in T => j = i
  PROVE  Numbered(p, W \cup {n}, T, low, i)
<1>1. \A k \in W \cup {n} : p[k].id \in low .. i /\ p[k].id \in T
  <2>1. i \in low .. i /\ \A j \in low .. high : j \in low .. i
    OBVIOUS
  <2>2. \A k \in W : p[k].id \in low .. high /\ p[k].id \in T
    BY DEF Numbered
  <2> QED
    BY <2>1, <2>2
<1>2. ASSUME NEW k \in W \cup {n}, NEW l \in W \cup {n}, k < l
      PROVE  p[k].id < p[l].id
  <2>1. k \in W /\ p[k].id \in low .. high
    BY <1>2 DEF Numbered
  <2> QED
    BY <1>2, <2>1 DEF Numbered
<1>3. ASSUME NEW j \in low .. i, j \in T
      PROVE  \E k \in W \cup {n} : p[k].id = j
  <2>1. CASE j = i
    BY <2>1
  <2>2. CASE j # i
    <3>1. j \in low .. high
      BY <1>3, <2>2
    <3> QED
      BY <1>3, <3>1 DEF Numbered
  <2> QED
    BY <2>1, <2>2
<1> QED
  BY <1>1, <1>2, <1>3 DEF Numbered

(* The places of what is left when the first message has been handled.     *)
After(q, W) == {k \in DOMAIN Tail(q) : k + 1 \in W}

LEMMA NumberedTail ==
  ASSUME NEW M, NEW q \in Seq(M), q # <<>>, NEW W \in SUBSET DOMAIN q, NEW T,
         NEW low \in Nat, NEW high \in Nat, Numbered(q, W, T, low, high)
  PROVE  /\ 1 \notin W => Numbered(Tail(q), After(q, W), T, low, high)
         /\ 1 \in W => /\ q[1].id \in low .. high /\ q[1].id \in T
                       /\ \A j \in low .. q[1].id : j \in T => j = q[1].id
                       /\ Numbered(Tail(q), After(q, W), T, q[1].id + 1, high)
<1>1. \A k \in After(q, W) : k \in Nat /\ k > 0 /\ k + 1 \in W /\ Tail(q)[k] = q[k + 1]
  BY TailElements DEF After
<1>2. \A k \in W : /\ k \in Nat
                   /\ k # 1 => k > 1 /\ k - 1 \in After(q, W) /\ Tail(q)[k - 1] = q[k]
  <2>1. ASSUME NEW k \in W, k # 1
        PROVE  k \in Nat /\ k > 1 /\ k - 1 \in After(q, W) /\ Tail(q)[k - 1] = q[k]
    <3>1. k \in Nat /\ k > 1 /\ k - 1 \in DOMAIN Tail(q) /\ Tail(q)[k - 1] = q[k]
      BY <2>1, TailElements
    <3>2. (k - 1) + 1 = k
      BY <3>1
    <3> QED
      BY <3>1, <3>2 DEF After
  <2> QED
    BY <2>1
<1>3. \A k, l \in After(q, W) : k < l => Tail(q)[k].id < Tail(q)[l].id
  <2>1. ASSUME NEW k \in After(q, W), NEW l \in After(q, W), k < l
        PROVE  q[k + 1].id < q[l + 1].id
    <3>1. k + 1 \in W /\ l + 1 \in W /\ k + 1 < l + 1
      BY <1>1, <2>1
    <3> QED
      BY <3>1 DEF Numbered
  <2> QED
    BY <1>1, <2>1
<1>4. CASE 1 \notin W
  <2>1. \A k \in After(q, W) : Tail(q)[k].id \in low .. high /\ Tail(q)[k].id \in T
    BY <1>1 DEF Numbered
  <2>2. \A i \in low .. high : i \in T => \E k \in After(q, W) : Tail(q)[k].id = i
    BY <1>2, <1>4 DEF Numbered
  <2> QED
    BY <1>3, <1>4, <2>1, <2>2 DEF Numbered
<1>5. CASE 1 \in W
  <2>1. q[1].id \in low .. high /\ q[1].id \in T
    BY <1>5 DEF Numbered
  <2>2. \A k \in After(q, W) : /\ Tail(q)[k].id \in low .. high /\ Tail(q)[k].id \in T
                               /\ q[1].id < Tail(q)[k].id
    <3>1. ASSUME NEW k \in After(q, W)
          PROVE  q[k + 1].id \in low .. high /\ q[k + 1].id \in T /\ q[1].id < q[k + 1].id
      <4>1. k + 1 \in W /\ 1 < k + 1
        BY <1>1, <3>1
      <4> QED
        BY <1>5, <4>1 DEF Numbered
    <3> QED
      BY <1>1, <3>1
  <2>3. ASSUME NEW j \in low .. q[1].id, j \in T
        PROVE  j = q[1].id
    <3>1. j \in low .. high
      BY <2>1
    <3>2. PICK k \in W : q[k].id = j
      BY <2>3, <3>1 DEF Numbered
    <3>3. k # 1 => q[1].id < j
      BY <1>2, <2>2, <3>2
    <3> QED
      BY <2>1, <3>2, <3>3
  <2>4. \A k \in After(q, W) : Tail(q)[k].id \in q[1].id + 1 .. high
    <3>1. \A n \in low .. high : q[1].id < n => n \in q[1].id + 1 .. high
      BY <2>1
    <3> QED
      BY <2>2, <3>1
  <2>5. ASSUME NEW i \in q[1].id + 1 .. high, i \in T
        PROVE  \E k \in After(q, W) : Tail(q)[k].id = i
    <3>1. i \in low .. high /\ i # q[1].id
      BY <2>1, <2>5
    <3>2. PICK k \in W : q[k].id = i
      BY <2>5, <3>1 DEF Numbered
    <3>3. k # 1
      BY <3>1, <3>2
    <3> QED
      BY <1>2, <3>2, <3>3
  <2>6. Numbered(Tail(q), After(q, W), T, q[1].id + 1, high)
    BY <1>3, <2>2, <2>4, <2>5 DEF Numbered
  <2> QED
    BY <1>5, <2>1, <2>3, <2>6
<1> QED
  BY <1>4, <1>5

AnswerPlaces == {k \in DOMAIN msgs : msgs[k].type = "answer"}
WantsAnswer(m) == m.type = "call" /\ m.call \in Answering
CallPlaces == {k \in DOMAIN apiMsgs : WantsAnswer(apiMsgs[k])}
Wanted == {i \in DOMAIN asked : asked[i] \in Answering}

Follow(as, ms, mp, cs, cp, T, n) ==
  \E b \in Nat : \E c \in Nat :
    /\ b <= c /\ c <= n
    /\ Numbered(as, DOMAIN as, T, 1, b)
    /\ Numbered(ms, mp, T, b + 1, c)
    /\ Numbered(cs, cp, T, c + 1, n)

AnswersFollow == Follow(answers, msgs, AnswerPlaces, apiMsgs, CallPlaces, Wanted, Len(asked))

IsTrue(m) == m.err = "SUCCESS" <=> m.did = "done"

TrueAnswers ==
  /\ \A k \in AnswerPlaces : IsTrue(msgs[k])
  /\ \A k \in DOMAIN answers : IsTrue(answers[k])
  /\ returned.call \in Returning => IsTrue(returned)

LEMMA PlacesType ==
  ASSUME TypeOK
  PROVE  /\ AnswerPlaces \in SUBSET DOMAIN msgs /\ AnswerPlaces \in SUBSET Nat
         /\ CallPlaces \in SUBSET DOMAIN apiMsgs /\ CallPlaces \in SUBSET Nat
         /\ Len(answers) \in Nat /\ Len(asked) \in Nat
         /\ \A k \in AnswerPlaces : msgs[k] \in AnswerMsg
<1>1. \A k \in AnswerPlaces : msgs[k] \in AdapterMessage
  BY DEF TypeOK, AnswerPlaces
<1>2. \A k \in AnswerPlaces : msgs[k] \in AnswerMsg
  BY <1>1, RequestsApart DEF AnswerPlaces, AdapterMessage, EngineUp, RequestMsg, InitMsg, ExpireMsg
<1> QED
  BY <1>2 DEF TypeOK, AnswerPlaces, CallPlaces

(* Messages that are no answers, and calls that want none, make no         *)
(* difference, and neither does it when they are handled.                  *)
LEMMA AnswersQuiet ==
  ASSUME TypeOK, NEW T, NEW low \in Nat, NEW high \in Nat,
         MsgsAdded({"answer"}) \/ (MsgHandled /\ msgs[1].type # "answer"),
         \A k \in AnswerPlaces : IsTrue(msgs[k])
  PROVE  /\ Numbered(msgs, AnswerPlaces, T, low, high) => Numbered(msgs', AnswerPlaces', T, low, high)
         /\ \A k \in AnswerPlaces' : IsTrue(msgs'[k])
<1>1. msgs \in Seq(AdapterMessage)
  BY DEF TypeOK
<1>2. ASSUME NEW p \in Seq(AdapterMessage), msgs' = msgs \o p, \A k \in DOMAIN p : p[k].type # "answer"
      PROVE  AnswerPlaces' = AnswerPlaces /\ \A k \in AnswerPlaces : msgs'[k] = msgs[k]
  <2>1. \A k \in DOMAIN msgs' : k \notin DOMAIN msgs => msgs'[k].type # "answer"
    <3> SUFFICES ASSUME NEW k \in DOMAIN (msgs \o p), k \notin DOMAIN msgs
                 PROVE  (msgs \o p)[k].type # "answer"
      BY <1>2
    <3>1. k - Len(msgs) \in DOMAIN p /\ k \in Nat /\ Len(msgs) \in Nat
      BY <1>1, <1>2, ConcatElements
    <3>2. (msgs \o p)[Len(msgs) + (k - Len(msgs))] = p[k - Len(msgs)]
      BY <1>1, <1>2, <3>1, ConcatElements
    <3>3. Len(msgs) + (k - Len(msgs)) = k
      BY <3>1
    <3> QED
      BY <1>2, <3>1, <3>2, <3>3
  <2>2. \A k \in DOMAIN msgs : k \in DOMAIN msgs' /\ msgs'[k] = msgs[k]
    BY <1>1, <1>2, ConcatElements
  <2> QED
    BY <2>1, <2>2 DEF AnswerPlaces
<1>3. CASE MsgsAdded({"answer"})
  <2>1. AnswerPlaces' = AnswerPlaces /\ \A k \in AnswerPlaces : msgs'[k] = msgs[k]
    BY <1>2, <1>3 DEF MsgsAdded
  <2>2. Numbered(msgs, AnswerPlaces, T, low, high) => Numbered(msgs', AnswerPlaces', T, low, high)
    BY <2>1, NumberedKept
  <2> QED
    BY <2>1, <2>2
<1>4. CASE MsgHandled /\ msgs[1].type # "answer"
  <2>1. msgs # <<>> /\ msgs' = Tail(msgs) /\ 1 \notin AnswerPlaces
    BY <1>4 DEF MsgHandled, AnswerPlaces
  <2>2. AnswerPlaces' = After(msgs, AnswerPlaces)
    BY <1>1, <2>1, TailElements DEF AnswerPlaces, After
  <2>3. Numbered(msgs, AnswerPlaces, T, low, high) => Numbered(msgs', AnswerPlaces', T, low, high)
    BY <1>1, <2>1, <2>2, NumberedTail, PlacesType
  <2>4. \A k \in AnswerPlaces' : IsTrue(msgs'[k])
    BY <1>1, <2>1, <2>2, TailElements DEF After
  <2> QED
    BY <2>3, <2>4
<1> QED
  BY <1>3, <1>4

CallsAlone ==
  \/ UNCHANGED apiMsgs
  \/ \E m \in ApiMessage : Post(m) /\ ~WantsAnswer(m)
  \/ apiMsgs # <<>> /\ apiMsgs' = Tail(apiMsgs) /\ ~WantsAnswer(apiMsgs[1])

LEMMA CallsQuiet ==
  ASSUME TypeOK, NEW T, NEW low \in Nat, NEW high \in Nat, CallsAlone,
         Numbered(apiMsgs, CallPlaces, T, low, high)
  PROVE  Numbered(apiMsgs', CallPlaces', T, low, high)
<1>1. apiMsgs \in Seq(ApiMessage)
  BY DEF TypeOK
<1>2. CASE UNCHANGED apiMsgs
  BY <1>2 DEF CallPlaces
<1>3. ASSUME NEW m \in ApiMessage, Post(m), ~WantsAnswer(m)
      PROVE  Numbered(apiMsgs', CallPlaces', T, low, high)
  <2>1. apiMsgs' = Append(apiMsgs, m)
    BY <1>3 DEF Post
  <2>2. CallPlaces' = CallPlaces /\ \A k \in CallPlaces : apiMsgs'[k] = apiMsgs[k]
    BY <1>1, <1>3, <2>1, AppendElements DEF CallPlaces
  <2> QED
    BY <2>2, NumberedKept
<1>4. CASE apiMsgs # <<>> /\ apiMsgs' = Tail(apiMsgs) /\ ~WantsAnswer(apiMsgs[1])
  <2>1. 1 \notin CallPlaces
    BY <1>4 DEF CallPlaces
  <2>2. CallPlaces' = After(apiMsgs, CallPlaces)
    BY <1>1, <1>4, TailElements DEF CallPlaces, After
  <2> QED
    BY <1>1, <1>4, <2>1, <2>2, NumberedTail, PlacesType
<1> QED
  BY <1>2, <1>3, <1>4 DEF CallsAlone

(* The steps that neither make a call with a response object nor handle    *)
(* one that wants an answer, or an answer.                                 *)
LEMMA CallsStep ==
  ASSUME TypeOK, [Next]_vars
  PROVE  \/ \E a \in Names : \E call \in CallsUsed \cap (Answering \cup DefaultCalls) : MakeCall(a, call)
         \/ HandleCall /\ WantsAnswer(apiMsgs[1])
         \/ HandleAnswer
         \/ CallsAlone /\ UNCHANGED <<asked, answers>>
<1> DEFINE Alone == CallsAlone /\ UNCHANGED <<asked, answers>>
<1>1. ASSUME NEW m \in ApiMessage, Post(m), ~WantsAnswer(m), UNCHANGED <<asked, answers>>
      PROVE  Alone
  BY <1>1 DEF CallsAlone
<1>2. ASSUME NEW a \in Names \cup {None}, Post(Open(a)), UNCHANGED <<asked, answers>>
      PROVE  Alone
  BY <1>1, <1>2, OpenType DEF Open, WantsAnswer
<1>3. ASSUME NEW type \in {"close", "ssr"}, Post([type |-> type]), UNCHANGED <<asked, answers>>
      PROVE  Alone
  BY <1>1, <1>3, OpenType DEF WantsAnswer
<1>4. ASSUME NEW call \in Calls \ Answering, Post([type |-> "call", call |-> call, id |-> Len(asked) + 1]),
             UNCHANGED <<asked, answers>>
      PROVE  Alone
  <2>1. [type |-> "call", call |-> call, id |-> Len(asked) + 1] \in ApiMessage
    BY DEF TypeOK, ApiMessage
  <2> QED
    BY <1>1, <1>4, <2>1 DEF WantsAnswer
<1>5. ASSUME NEW a \in Names, AddAdapter(a)
      PROVE  Alone
  BY <1>2, <1>5 DEF AddAdapter, callVars
<1>6. ASSUME NEW a \in Names, RemoveAdapter(a)
      PROVE  Alone
  <2>1. Post([type |-> "close"]) \/ Post(Open(None))
    BY <1>6 DEF RemoveAdapter
  <2> QED
    BY <1>2, <1>3, <1>6, <2>1 DEF RemoveAdapter, callVars
<1>7. ASSUME NEW a, NEW mask, SetMask(a, mask), UNCHANGED <<asked, answers>>
      PROVE  Alone
  BY <1>2, <1>7 DEF SetMask
<1>8. ASSUME NEW a \in Names, NEW mask \in Masks, UpdateEvtMask(a, mask)
      PROVE  Alone
  BY <1>7, <1>8 DEF UpdateEvtMask, callVars
<1>9. ASSUME NEW a \in Names, NEW call \in CallsUsed \ (Answering \cup DefaultCalls), MakeCall(a, call)
      PROVE  Alone
  <2>1. call \in Calls \ Answering
    BY <1>9, CallsAssumption DEF Calls
  <2> QED
    BY <1>4, <1>9, <2>1 DEF MakeCall
<1>10. CASE InjectOdcpi
  <2>1. "injectPosition" \in Calls \ Answering
    BY DEF Calls, Silent, InjectionCalls, Answering, FixCalls, DeletionCalls, ModeCalls, BlacklistCalls,
           ConstellationCalls, TrackingCalls
  <2> QED
    BY <1>4, <1>10, <2>1 DEF InjectOdcpi, callVars
<1>11. CASE EngineDown
  BY <1>3, <1>11 DEF EngineDown, callVars
<1>12. CASE InitOdcpi
  BY <1>7, <1>12 DEF InitOdcpi, Consumes, CallsAlone, callVars
<1>13. CASE (\E ok \in BOOLEAN : HandleOpen(ok) \/ HandleSsr(ok)) \/ HandleClose
  BY <1>13 DEF HandleOpen, HandleSsr, HandleClose, Receives, CallsAlone, WantsAnswer, callVars
<1>14. CASE HandleCall /\ ~WantsAnswer(apiMsgs[1])
  BY <1>14 DEF HandleCall, Receives, CallsAlone, callVars
<1>15. \/ UNCHANGED <<apiMsgs, asked, answers>>
       \/ \E a \in Names : AddAdapter(a)
       \/ \E a \in Names : RemoveAdapter(a)
       \/ \E a \in Names : \E mask \in Masks : UpdateEvtMask(a, mask)
       \/ \E a \in Names : \E c \in CallsUsed : MakeCall(a, c)
       \/ \E ok \in BOOLEAN : HandleOpen(ok) \/ HandleSsr(ok)
       \/ HandleClose \/ HandleCall \/ EngineDown \/ InjectOdcpi \/ InitOdcpi \/ HandleAnswer
  BY NextSteps DEF ApiStep, OdcpiStep, vars, apiVars, callVars, CallDirectly, Dispatch, Walk,
     HandleRequest, InitOdcpiCommand, RequestOdcpi, OdcpiTimerExpire, RestartSessions, HandleEngineUp,
     TimeOutCallback, Consumes
<1>16. CASE UNCHANGED <<apiMsgs, asked, answers>>
  BY <1>16 DEF CallsAlone
<1>17. ASSUME NEW a \in Names, NEW call \in CallsUsed, MakeCall(a, call)
       PROVE  Alone \/ \E b \in Names : \E c \in CallsUsed \cap (Answering \cup DefaultCalls) : MakeCall(b, c)
  BY <1>9, <1>17
<1> QED
  BY <1>5, <1>6, <1>8, <1>10, <1>11, <1>12, <1>13, <1>14, <1>15, <1>16, <1>17

LEMMA AnswersAfterMakeCall ==
  ASSUME TypeOK, AnswersFollow, TrueAnswers, NEW a \in Names,
         NEW call \in CallsUsed \cap (Answering \cup DefaultCalls), MakeCall(a, call)
  PROVE  AnswersFollow' /\ \A k \in AnswerPlaces' : IsTrue(msgs'[k])
<1> DEFINE m == [type |-> "call", call |-> call, id |-> Len(asked) + 1]
           p == Len(apiMsgs) + 1
           n == Len(asked)
<1>1. PICK b \in Nat, c \in Nat :
        /\ b <= c /\ c <= n
        /\ Numbered(answers, DOMAIN answers, Wanted, 1, b)
        /\ Numbered(msgs, AnswerPlaces, Wanted, b + 1, c)
        /\ Numbered(apiMsgs, CallPlaces, Wanted, c + 1, n)
  BY DEF AnswersFollow, Follow
<1>2. apiMsgs \in Seq(ApiMessage) /\ asked \in Seq(Answering \cup DefaultCalls) /\ n \in Nat
  BY PlacesType DEF TypeOK
<1>3. /\ m \in ApiMessage /\ m.id = n + 1 /\ apiMsgs' = Append(apiMsgs, m)
      /\ WantsAnswer(m) <=> call \in Answering
  BY <1>2, CallsAssumption DEF ApiMessage, Calls, WantsAnswer, MakeCall, Post
<1>4. /\ asked' = Append(asked, call) /\ Len(asked') = n + 1 /\ UNCHANGED <<msgs, answers>>
  BY <1>2 DEF MakeCall
<1> HIDE DEF m
<1>5. PICK T : T = Wanted'
  OBVIOUS
<1>6. /\ \A i \in 1 .. n : i \in Wanted <=> i \in T
      /\ n + 1 \in T <=> call \in Answering
  <2>1. /\ DOMAIN asked' = 1 .. n + 1 /\ asked'[n + 1] = call
        /\ \A i \in 1 .. n : asked'[i] = asked[i] /\ i \in DOMAIN asked /\ i \in 1 .. n + 1
    BY <1>2, <1>4
  <2> QED
    BY <1>2, <1>5, <2>1 DEF Wanted
<1>7. /\ p \in Nat /\ DOMAIN apiMsgs' = DOMAIN apiMsgs \cup {p} /\ apiMsgs'[p] = m
      /\ \A k \in DOMAIN apiMsgs : apiMsgs'[k] = apiMsgs[k] /\ k < p
  BY <1>2, <1>3, AppendElements
<1> HIDE DEF p, n
<1>8. CallPlaces' = IF call \in Answering THEN CallPlaces \cup {p} ELSE CallPlaces
  BY <1>3, <1>7 DEF CallPlaces
<1>9. CallPlaces \in SUBSET Nat /\ \A k \in CallPlaces : apiMsgs'[k] = apiMsgs[k] /\ k < p
  BY <1>7, PlacesType
<1>10. /\ Numbered(answers, DOMAIN answers, T, 1, b)
       /\ Numbered(msgs, AnswerPlaces, T, b + 1, c)
       /\ Numbered(apiMsgs, CallPlaces, T, c + 1, n)
  <2>1. \A i \in 1 .. b : i \in 1 .. n
    BY <1>1, <1>2
  <2>2. \A i \in b + 1 .. c : i \in 1 .. n
    BY <1>1, <1>2
  <2>3. \A i \in c + 1 .. n : i \in 1 .. n
    BY <1>1, <1>2
  <2> QED
    BY <1>1, <1>6, <2>1, <2>2, <2>3, NumberedBy
<1>11. c + 1 \in Nat /\ n + 1 \in Nat /\ c + 1 <= n + 1 /\ n < n + 1 /\ n <= n + 1 /\ c <= n + 1
       /\ \A j \in n + 1 .. n + 1 : j = n + 1
  BY <1>1, <1>2
<1>12. Numbered(apiMsgs', CallPlaces', T, c + 1, n + 1)
  <2>1. CASE call \in Answering
    BY <1>2, <1>3, <1>6, <1>7, <1>8, <1>9, <1>10, <1>11, <2>1, NumberedGrows
  <2>2. CASE call \notin Answering
    <3>1. Numbered(apiMsgs', CallPlaces, T, c + 1, n)
      BY <1>9, <1>10, NumberedKept
    <3>2. \A j \in n + 1 .. n + 1 : j \notin T
      BY <1>6, <1>11, <2>2
    <3> QED
      BY <1>2, <1>8, <1>11, <2>2, <3>1, <3>2, NumberedOn
  <2> QED
    BY <2>1, <2>2
<1>13. AnswerPlaces' = AnswerPlaces
  BY <1>4 DEF AnswerPlaces
<1>14. AnswersFollow'
  <2>1. Follow(answers', msgs', AnswerPlaces', apiMsgs', CallPlaces', T, n + 1)
    BY <1>1, <1>4, <1>10, <1>11, <1>12, <1>13 DEF Follow
  <2> QED
    BY <1>4, <1>5, <2>1 DEF AnswersFollow, n
<1> QED
  BY <1>4, <1>13, <1>14 DEF TrueAnswers

LEMMA AnswersAfterHandleCall ==
  ASSUME TypeOK, AnswersFollow, TrueAnswers, HandleCall, WantsAnswer(apiMsgs[1])
  PROVE  AnswersFollow' /\ \A k \in AnswerPlaces' : IsTrue(msgs'[k])
<1> DEFINE p == Len(msgs) + 1
           n == Len(asked)
<1>1. PICK b \in Nat, c \in Nat :
        /\ b <= c /\ c <= n
        /\ Numbered(answers, DOMAIN answers, Wanted, 1, b)
        /\ Numbered(msgs, AnswerPlaces, Wanted, b + 1, c)
        /\ Numbered(apiMsgs, CallPlaces, Wanted, c + 1, n)
  BY DEF AnswersFollow, Follow
<1>2. /\ apiMsgs \in Seq(ApiMessage) /\ apiMsgs # <<>> /\ apiMsgs' = Tail(apiMsgs)
      /\ msgs \in Seq(AdapterMessage) /\ n \in Nat /\ UNCHANGED <<asked, answers>>
  BY PlacesType DEF TypeOK, HandleCall, Receives, callVars
<1>3. 1 \in CallPlaces
  BY <1>2, TailElements DEF CallPlaces
<1>4. CallPlaces' = After(apiMsgs, CallPlaces)
  BY <1>2, TailElements DEF CallPlaces, After
<1>5. PICK i : i = apiMsgs[1].id
  OBVIOUS
<1>6. PICK T : T = Wanted
  OBVIOUS
<1> HIDE DEF n
<1>7. /\ i \in c + 1 .. n /\ i \in T /\ \A j \in c + 1 .. i : j \in T => j = i
      /\ Numbered(apiMsgs', CallPlaces', T, i + 1, n)
  <2>1. c + 1 \in Nat /\ CallPlaces \in SUBSET DOMAIN apiMsgs
    BY <1>1, PlacesType
  <2> QED
    BY <1>1, <1>2, <1>3, <1>4, <1>5, <1>6, <2>1, NumberedTail
<1>8. PICK m \in AnswerMsg : msgs' = Append(msgs, m) /\ m.id = i /\ IsTrue(m)
  BY <1>5, CallAdds DEF Msg, WantsAnswer, IsTrue
<1>9. m \in AdapterMessage /\ m.type = "answer"
  BY DEF AdapterMessage, AnswerMsg
<1>10. /\ p \in Nat /\ DOMAIN msgs' = DOMAIN msgs \cup {p} /\ msgs'[p] = m
       /\ \A k \in DOMAIN msgs : msgs'[k] = msgs[k] /\ k < p
  BY <1>2, <1>8, <1>9, AppendElements
<1> HIDE DEF p
<1>11. AnswerPlaces' = AnswerPlaces \cup {p}
  BY <1>9, <1>10 DEF AnswerPlaces
<1>12. AnswerPlaces \in SUBSET Nat /\ \A k \in AnswerPlaces : msgs'[k] = msgs[k] /\ k < p
  BY <1>10, PlacesType
<1>13. i \in Nat /\ c < i /\ b + 1 \in Nat /\ b + 1 <= i /\ b <= i /\ i <= n
  BY <1>1, <1>2, <1>7
<1>14. Numbered(msgs', AnswerPlaces', T, b + 1, i)
  <2>1. Numbered(msgs, AnswerPlaces, T, b + 1, c)
    BY <1>1, <1>6
  <2>2. msgs'[p].id = i
    BY <1>8, <1>10
  <2> QED
    BY <1>1, <1>7, <1>10, <1>11, <1>12, <1>13, <2>1, <2>2, NumberedGrows
<1>15. \A k \in AnswerPlaces' : IsTrue(msgs'[k])
  BY <1>8, <1>10, <1>11, <1>12 DEF TrueAnswers
<1>16. AnswersFollow'
  <2>1. Numbered(answers, DOMAIN answers, T, 1, b)
    BY <1>1, <1>6
  <2>2. Follow(answers', msgs', AnswerPlaces', apiMsgs', CallPlaces', T, n)
    BY <1>2, <1>7, <1>13, <1>14, <2>1 DEF Follow
  <2>3. T = Wanted' /\ n = Len(asked')
    BY <1>2, <1>6 DEF Wanted, n
  <2> QED
    BY <2>2, <2>3 DEF AnswersFollow
<1> QED
  BY <1>15, <1>16

LEMMA AnswersAfterAnswer ==
  ASSUME TypeOK, AnswersFollow, TrueAnswers, HandleAnswer
  PROVE  /\ AnswersFollow' /\ \A k \in AnswerPlaces' : IsTrue(msgs'[k])
         /\ \A k \in DOMAIN answers' : IsTrue(answers'[k])
<1> DEFINE n == Len(asked)
<1>1. PICK b \in Nat, c \in Nat :
        /\ b <= c /\ c <= n
        /\ Numbered(answers, DOMAIN answers, Wanted, 1, b)
        /\ Numbered(msgs, AnswerPlaces, Wanted, b + 1, c)
        /\ Numbered(apiMsgs, CallPlaces, Wanted, c + 1, n)
  BY DEF AnswersFollow, Follow
<1>2. /\ msgs \in Seq(AdapterMessage) /\ msgs # <<>> /\ msgs' = Tail(msgs) /\ msgs[1].type = "answer"
      /\ n \in Nat /\ UNCHANGED <<asked, apiMsgs>>
  BY PlacesType DEF TypeOK, HandleAnswer, Gets
<1>3. 1 \in AnswerPlaces
  BY <1>2, TailElements DEF AnswerPlaces
<1>4. AnswerPlaces' = After(msgs, AnswerPlaces)
  BY <1>2, TailElements DEF AnswerPlaces, After
<1>5. PICK i : i = msgs[1].id
  OBVIOUS
<1>6. PICK T : T = Wanted
  OBVIOUS
<1> HIDE DEF n
<1>7. /\ i \in b + 1 .. c /\ i \in T /\ \A j \in b + 1 .. i : j \in T => j = i
      /\ Numbered(msgs', AnswerPlaces', T, i + 1, c)
  <2>1. b + 1 \in Nat /\ AnswerPlaces \in SUBSET DOMAIN msgs
    BY <1>1, PlacesType
  <2>2. Numbered(msgs, AnswerPlaces, T, b + 1, c)
    BY <1>1, <1>6
  <2>3. /\ msgs[1].id \in b + 1 .. c /\ msgs[1].id \in T
        /\ \A j \in b + 1 .. msgs[1].id : j \in T => j = msgs[1].id
        /\ Numbered(Tail(msgs), After(msgs, AnswerPlaces), T, msgs[1].id + 1, c)
    BY <1>2, <1>3, <2>1, <2>2, NumberedTail
  <2> QED
    BY <1>2, <1>4, <1>5, <2>3
<1>8. \A k \in AnswerPlaces' : IsTrue(msgs'[k])
  BY <1>2, <1>4, TailElements DEF After, TrueAnswers
<1> DEFINE m == [id |-> msgs[1].id, did |-> msgs[1].did, err |-> msgs[1].err]
           S == [id : Nat, did : Dids, err : Errs]
           p == Len(answers) + 1
<1>9. m \in S /\ m.id = i /\ IsTrue(m) /\ answers' = Append(answers, m)
  <2>1. msgs[1] \in AnswerMsg
    BY <1>3, PlacesType
  <2>2. m \in S
    BY <2>1 DEF AnswerMsg
  <2>3. IsTrue(m)
    BY <1>3 DEF TrueAnswers, IsTrue
  <2>4. answers' = Append(answers, m)
    BY DEF HandleAnswer
  <2> QED
    BY <1>5, <2>2, <2>3, <2>4
<1>10. answers \in Seq(S) /\ DOMAIN answers \in SUBSET Nat
  BY DEF TypeOK
<1> HIDE DEF m, S
<1>11. /\ p \in Nat /\ DOMAIN answers' = DOMAIN answers \cup {p} /\ answers'[p] = m
       /\ \A k \in DOMAIN answers : answers'[k] = answers[k] /\ k < p
  BY <1>9, <1>10, AppendElements
<1> HIDE DEF p
<1>12. \A k \in DOMAIN answers' : IsTrue(answers'[k])
  BY <1>9, <1>11 DEF TrueAnswers
<1>13. i \in Nat /\ b < i /\ 1 <= i /\ i <= c /\ 1 \in Nat
  BY <1>1, <1>7
<1>14. Numbered(answers', DOMAIN answers', T, 1, i)
  <2>1. Numbered(answers, DOMAIN answers, T, 1, b) /\ answers'[p].id = i
    BY <1>1, <1>6, <1>9, <1>11
  <2> QED
    BY <1>1, <1>7, <1>10, <1>11, <1>13, <2>1, NumberedGrows
<1>15. AnswersFollow'
  <2>1. CallPlaces' = CallPlaces
    BY <1>2 DEF CallPlaces
  <2>2. Numbered(apiMsgs', CallPlaces', T, c + 1, n)
    BY <1>1, <1>2, <1>6, <2>1
  <2>3. Follow(answers', msgs', AnswerPlaces', apiMsgs', CallPlaces', T, n)
    BY <1>1, <1>7, <1>13, <1>14, <2>2 DEF Follow
  <2>4. T = Wanted' /\ n = Len(asked')
    BY <1>2, <1>6 DEF Wanted, n
  <2> QED
    BY <2>3, <2>4 DEF AnswersFollow
<1> QED
  BY <1>8, <1>12, <1>15

LEMMA AnswersElsewhere ==
  ASSUME TypeOK, AnswersFollow, TrueAnswers, [Next]_vars,
         ~HandleAnswer, ~(HandleCall /\ WantsAnswer(apiMsgs[1])),
         CallsAlone, UNCHANGED <<asked, answers>>
  PROVE  AnswersFollow' /\ \A k \in AnswerPlaces' : IsTrue(msgs'[k])
<1> DEFINE n == Len(asked)
<1>1. PICK b \in Nat, c \in Nat :
        /\ b <= c /\ c <= n
        /\ Numbered(answers, DOMAIN answers, Wanted, 1, b)
        /\ Numbered(msgs, AnswerPlaces, Wanted, b + 1, c)
        /\ Numbered(apiMsgs, CallPlaces, Wanted, c + 1, n)
  BY DEF AnswersFollow, Follow
<1>2. n \in Nat /\ b + 1 \in Nat /\ c + 1 \in Nat
  BY <1>1, PlacesType
<1>3. PICK T : T = Wanted
  OBVIOUS
<1>4. MsgsAdded({"answer"}) \/ (MsgHandled /\ msgs[1].type # "answer")
  <2>1. CASE HandleCall
    <3>1. Msg.call \notin Answering
      BY <2>1 DEF HandleCall, Receives, WantsAnswer, Msg
    <3> QED
      BY <2>1, <3>1, CallAdds, NoneMore
  <2>2. MsgsAdded({"answer", "odcpiTimerExpire"}) => MsgsAdded({"answer"})
    BY DEF MsgsAdded
  <2> QED
    BY <2>1, <2>2, MsgsStep
<1>5. T = Wanted' /\ n = Len(asked')
  BY <1>3 DEF Wanted
<1> HIDE DEF n
<1>6. Numbered(apiMsgs', CallPlaces', T, c + 1, n)
  BY <1>1, <1>2, <1>3, CallsQuiet
<1>7. /\ Numbered(msgs', AnswerPlaces', T, b + 1, c)
      /\ \A k \in AnswerPlaces' : IsTrue(msgs'[k])
  <2>1. \A k \in AnswerPlaces : IsTrue(msgs[k])
    BY DEF TrueAnswers
  <2>2. Numbered(msgs, AnswerPlaces, T, b + 1, c)
    BY <1>1, <1>3
  <2> QED
    BY <1>1, <1>2, <1>4, <2>1, <2>2, AnswersQuiet
<1>8. Numbered(answers', DOMAIN answers', T, 1, b)
  BY <1>1, <1>3
<1>9. Follow(answers', msgs', AnswerPlaces', apiMsgs', CallPlaces', T, n)
  BY <1>1, <1>6, <1>7, <1>8 DEF Follow
<1> QED
  BY <1>5, <1>7, <1>9 DEF AnswersFollow

LEMMA AnswersStep ==
  ASSUME TypeOK, AnswersFollow, TrueAnswers, [Next]_vars
  PROVE  AnswersFollow' /\ TrueAnswers'
<1>1. AnswersFollow' /\ \A k \in AnswerPlaces' : IsTrue(msgs'[k])
  BY CallsStep, AnswersAfterMakeCall, AnswersAfterHandleCall, AnswersAfterAnswer, AnswersElsewhere
<1>2. \A k \in DOMAIN answers' : IsTrue(answers'[k])
  <2>1. CASE HandleAnswer
    BY <2>1, AnswersAfterAnswer
  <2>2. CASE UNCHANGED answers
    BY <2>2 DEF TrueAnswers
  <2>3. HandleAnswer \/ UNCHANGED answers
    BY CallsStep DEF MakeCall, HandleCall, callVars
  <2> QED
    BY <2>1, <2>2, <2>3
<1>3. returned'.call \in Returning => IsTrue(returned')
  <2>1. UNCHANGED returned \/ \E call \in CallsUsed : CallDirectly(call)
    BY NextSteps DEF ApiStep, OdcpiStep, vars, apiVars, callVars, AddAdapter, RemoveAdapter,
       UpdateEvtMask, MakeCall, HandleOpen, HandleSsr, HandleClose, HandleCall, EngineDown, Dispatch,
       Walk, HandleAnswer, HandleRequest, InitOdcpiCommand, InjectOdcpi, InitOdcpi, RequestOdcpi,
       OdcpiTimerExpire, RestartSessions, HandleEngineUp, TimeOutCallback, Consumes
  <2>2. ASSUME NEW call \in CallsUsed, CallDirectly(call), returned'.call \in Returning
        PROVE  IsTrue(returned')
    <3>1. PICK did \in EngineDoes(call) :
            returned' = [call |-> call, did |-> did,
                         err |-> IF call \in Returning \cup DefaultSync THEN Err(call, did) ELSE None]
      BY <2>2 DEF CallDirectly
    <3>2. call \in Returning /\ returned'.did = did /\ returned'.err = Err(call, did)
      BY <2>2, <3>1
    <3> QED
      BY <3>2, ErrIsTrue DEF IsTrue
  <2> QED
    BY <2>1, <2>2 DEF TrueAnswers
<1> QED
  BY <1>1, <1>2, <1>3 DEF TrueAnswers, IsTrue

LEMMA AnswersInit == Init => AnswersFollow /\ TrueAnswers
<1> SUFFICES ASSUME Init
             PROVE  AnswersFollow /\ TrueAnswers
  OBVIOUS
<1>1. msgs = <<>> /\ apiMsgs = <<>> /\ asked = <<>> /\ answers = <<>> /\ returned.call = None
  BY DEF Init, ApiInit
<1>2. AnswerPlaces = {} /\ CallPlaces = {}
  BY <1>1 DEF AnswerPlaces, CallPlaces
<1>3. None \notin Returning
  BY DEF None, Returning, ServerCalls, SuplCalls, SensorCalls, LppeCalls, LockCalls, XtraCalls,
         BlacklistSync
<1>4. AnswersFollow
  <2>1. Len(asked) = 0 /\ DOMAIN answers = {} /\ 1 .. 0 = {} /\ 0 + 1 .. 0 = {}
    BY <1>1
  <2>2. Follow(answers, msgs, {}, apiMsgs, {}, Wanted, 0)
    <3>1. /\ Numbered(answers, DOMAIN answers, Wanted, 1, 0)
          /\ Numbered(msgs, {}, Wanted, 0 + 1, 0)
          /\ Numbered(apiMsgs, {}, Wanted, 0 + 1, 0)
      BY <2>1 DEF Numbered
    <3> QED
      BY <3>1 DEF Follow
  <2> QED
    BY <1>2, <2>1, <2>2 DEF AnswersFollow
<1> QED
  BY <1>1, <1>2, <1>3, <1>4 DEF TrueAnswers

LEMMA AnswersTrue == TypeOK /\ AnswersFollow /\ TrueAnswers => AnswersAreTrue
<1> SUFFICES ASSUME TypeOK, AnswersFollow, TrueAnswers
             PROVE  AnswersAreTrue
  OBVIOUS
<1> DEFINE n == Len(asked)
<1>1. PICK b \in Nat, c \in Nat :
        /\ b <= c /\ c <= n
        /\ Numbered(answers, DOMAIN answers, Wanted, 1, b)
        /\ Numbered(msgs, AnswerPlaces, Wanted, b + 1, c)
        /\ Numbered(apiMsgs, CallPlaces, Wanted, c + 1, n)
  BY DEF AnswersFollow, Follow
<1>2. \A j, k \in DOMAIN answers : j < k => answers[j].id < answers[k].id
  BY <1>1 DEF Numbered
<1>3. ASSUME Handled
      PROVE  {answers[k].id : k \in DOMAIN answers} = {i \in DOMAIN asked : asked[i] \notin DefaultCalls}
  <2>1. AnswerPlaces = {} /\ CallPlaces = {}
    BY <1>3 DEF AnswerPlaces, CallPlaces, Handled
  <2>2. n \in Nat /\ DOMAIN asked = 1 .. n /\ \A i \in 1 .. n : asked[i] \in Answering \cup DefaultCalls
    BY PlacesType DEF TypeOK
  <2>3. /\ \A i \in b + 1 .. c : i \notin Wanted
        /\ \A i \in c + 1 .. n : i \notin Wanted
    BY <1>1, <2>1 DEF Numbered
  <2> HIDE DEF n
  <2>4. \A i \in 1 .. n : i \in Wanted => i \in 1 .. b
    <3>1. \A i \in 1 .. n : i \in 1 .. b \/ i \in b + 1 .. c \/ i \in c + 1 .. n
      BY <1>1, <2>2
    <3> QED
      BY <2>3, <3>1
  <2>5. \A i : i \in Wanted <=> i \in 1 .. n /\ asked[i] \notin DefaultCalls
    BY <2>2, AnsweringApart DEF Wanted
  <2>6. \A i : i \in Wanted <=> \E k \in DOMAIN answers : answers[k].id = i
    BY <1>1, <2>4, <2>5 DEF Numbered
  <2> QED
    BY <2>2, <2>5, <2>6
<1> QED
  BY <1>2, <1>3 DEF AnswersAreTrue, TrueAnswers, IsTrue

(* Once both queues are empty exactly the calls with a response object     *)
(* that SynergyLocApi implements have been answered, once each and in      *)
(* their order, and none of LocApiBase's own; and what an answer says, or  *)
(* a call of SynergyLocApi on the caller's thread returned, is success if  *)
(* and only if the engine did what it was asked, with and without the      *)
(* library.                                                                *)
THEOREM AnswersMeetTheirCalls == Spec => []AnswersAreTrue
<1>1. Init => TypeOK /\ IsInjective(mLocAdapters) /\ AnswersFollow /\ TrueAnswers
  BY TypeInit, EngineInit, AnswersInit
<1>2. /\ TypeOK /\ IsInjective(mLocAdapters) /\ AnswersFollow /\ TrueAnswers
      /\ [Next]_vars
      => (TypeOK /\ IsInjective(mLocAdapters) /\ AnswersFollow /\ TrueAnswers)'
  <2> SUFFICES ASSUME TypeOK, IsInjective(mLocAdapters), AnswersFollow, TrueAnswers, [Next]_vars
               PROVE  (TypeOK /\ IsInjective(mLocAdapters) /\ AnswersFollow /\ TrueAnswers)'
    OBVIOUS
  <2>1. TypeOK' /\ IsInjective(mLocAdapters') /\ AnswersFollow' /\ TrueAnswers'
    BY TypeStep, ListStep, AnswersStep
  <2>2. IsInjective(mLocAdapters)' <=> IsInjective(mLocAdapters')
    BY DEF IsInjective
  <2> QED
    BY <2>1, <2>2
<1>3. TypeOK /\ AnswersFollow /\ TrueAnswers => AnswersAreTrue
  BY AnswersTrue
<1> QED
  BY <1>1, <1>2, <1>3, PTL DEF Spec

-----------------------------------------------------------------------------
(* Why a standing request is looked at again, and the framework not asked  *)
(* too often: the timer stays active while the request stands, an active   *)
(* timer runs or has its expiry on the way, and what the framework may     *)
(* still be asked covers the expiries on the way, and the first question   *)
(* when the timer is not active.                                           *)
ExpirePlaces == {k \in DOMAIN msgs : msgs[k].type = "odcpiTimerExpire"}
Expiries == Cardinality(ExpirePlaces)

TimerFollows ==
  /\ mOdcpiTimer.running => mOdcpiTimer.active
  /\ mOdcpiRequestActive => mOdcpiTimer.active
  /\ mOdcpiTimer.active => mOdcpiTimer.running \/ ExpirePlaces # {}
  /\ credit >= Expiries + (IF mOdcpiTimer.active THEN 0 ELSE 1)

LEMMA AfterCount ==
  ASSUME NEW M, NEW q \in Seq(M), q # <<>>, NEW W \in SUBSET DOMAIN q
  PROVE  Cardinality(After(q, W)) = IF 1 \in W THEN Cardinality(W) - 1 ELSE Cardinality(W)
<1> DEFINE f == [k \in W \ {1} |-> k - 1]
<1>1. IsFiniteSet(W)
  <2>1. DOMAIN q = 1 .. Len(q) /\ 1 \in Int /\ Len(q) \in Int
    OBVIOUS
  <2>2. IsFiniteSet(DOMAIN q)
    BY <2>1, FS_Interval
  <2> QED
    BY <2>2, FS_Subset
<1>2. IsFiniteSet(W \ {1}) /\ Cardinality(W \ {1}) = IF 1 \in W THEN Cardinality(W) - 1 ELSE Cardinality(W)
  BY <1>1, FS_RemoveElement
<1>3. \A k \in W \ {1} : k \in Nat /\ k - 1 \in After(q, W)
  <2>1. ASSUME NEW k \in W \ {1}
        PROVE  k \in Nat /\ k - 1 \in After(q, W)
    <3>1. k \in Nat /\ k - 1 \in DOMAIN Tail(q)
      BY TailElements
    <3>2. (k - 1) + 1 = k
      BY <3>1
    <3> QED
      BY <3>1, <3>2 DEF After
  <2> QED
    BY <2>1
<1>4. \A k \in After(q, W) : k \in Nat /\ k + 1 \in W \ {1} /\ (k + 1) - 1 = k
  <2>1. ASSUME NEW k \in After(q, W)
        PROVE  k \in Nat /\ k > 0 /\ k + 1 \in W
    BY TailElements DEF After
  <2>2. \A k \in Nat : k > 0 => k + 1 # 1 /\ (k + 1) - 1 = k
    OBVIOUS
  <2> QED
    BY <2>1, <2>2
<1>5. f \in Bijection(W \ {1}, After(q, W))
  <2>1. f \in [W \ {1} -> After(q, W)]
    BY <1>3
  <2>2. \A k, l \in W \ {1} : f[k] = f[l] => k = l
    BY <1>3
  <2>3. \A k \in After(q, W) : f[k + 1] = k
    BY <1>4
  <2>4. \A k \in After(q, W) : \E l \in W \ {1} : f[l] = k
    BY <1>4, <2>3
  <2> QED
    BY <2>1, <2>2, <2>4 DEF Bijection, Injection, Surjection, IsInjective
<1>6. Cardinality(After(q, W)) = Cardinality(W \ {1})
  BY <1>2, <1>5, FS_Bijection DEF ExistsBijection
<1> QED
  BY <1>2, <1>6

LEMMA ExpiryCount ==
  ASSUME TypeOK
  PROVE  IsFiniteSet(ExpirePlaces) /\ Expiries \in Nat /\ (Expiries = 0 <=> ExpirePlaces = {})
<1>1. DOMAIN msgs = 1 .. Len(msgs) /\ 1 \in Int /\ Len(msgs) \in Int
  BY DEF TypeOK
<1>2. IsFiniteSet(DOMAIN msgs)
  BY <1>1, FS_Interval
<1>3. IsFiniteSet(ExpirePlaces)
  BY <1>2, FS_Subset DEF ExpirePlaces
<1> QED
  BY <1>3, FS_CardinalityType, FS_EmptySet DEF Expiries

(* What becomes of the expiries on the way in a step.                      *)
LEMMA ExpiryStep ==
  ASSUME TypeOK, [Next]_vars
  PROVE  /\ TimeOutCallback => Expiries' = Expiries + 1 /\ ExpirePlaces' # {}
         /\ OdcpiTimerExpire => Expiries' = Expiries - 1
         /\ ~TimeOutCallback /\ ~OdcpiTimerExpire
              => Expiries' = Expiries /\ (ExpirePlaces # {} => ExpirePlaces' # {})
<1>1. msgs \in Seq(AdapterMessage)
  BY DEF TypeOK
<1>2. OdcpiTimerExpire => msgs # <<>> /\ msgs' = Tail(msgs) /\ msgs[1].type = "odcpiTimerExpire"
  BY DEF OdcpiTimerExpire, Gets, Consumes
<1>3. ASSUME MsgsAdded({"odcpiTimerExpire"})
      PROVE  ExpirePlaces' = ExpirePlaces
  <2>1. PICK p \in Seq(AdapterMessage) :
          msgs' = msgs \o p /\ \A k \in DOMAIN p : p[k].type # "odcpiTimerExpire"
    BY <1>3 DEF MsgsAdded
  <2>2. ASSUME NEW k \in DOMAIN (msgs \o p), k \notin DOMAIN msgs
        PROVE  (msgs \o p)[k].type # "odcpiTimerExpire"
    <3>1. k - Len(msgs) \in DOMAIN p /\ k \in Nat /\ Len(msgs) \in Nat
      BY <1>1, <2>2, ConcatElements
    <3>2. (msgs \o p)[Len(msgs) + (k - Len(msgs))] = p[k - Len(msgs)]
      BY <1>1, <3>1, ConcatElements
    <3>3. Len(msgs) + (k - Len(msgs)) = k
      BY <3>1
    <3> QED
      BY <2>1, <3>1, <3>2, <3>3
  <2>3. \A k \in DOMAIN msgs : k \in DOMAIN msgs' /\ msgs'[k] = msgs[k]
    BY <1>1, <2>1, ConcatElements
  <2> QED
    BY <2>1, <2>2, <2>3 DEF ExpirePlaces
<1>4. ASSUME TimeOutCallback
      PROVE  Expiries' = Expiries + 1 /\ ExpirePlaces' # {}
  <2> DEFINE m == [type |-> "odcpiTimerExpire"]
             p == Len(msgs) + 1
  <2>1. m \in AdapterMessage /\ m.type = "odcpiTimerExpire" /\ msgs' = Append(msgs, m)
    BY <1>4 DEF AdapterMessage, ExpireMsg, TimeOutCallback
  <2> HIDE DEF m
  <2>2. /\ DOMAIN msgs' = DOMAIN msgs \cup {p} /\ msgs'[p] = m
        /\ \A k \in DOMAIN msgs : msgs'[k] = msgs[k] /\ k < p
    BY <1>1, <2>1, AppendElements
  <2> HIDE DEF p
  <2>3. ExpirePlaces' = ExpirePlaces \cup {p} /\ p \notin ExpirePlaces
    BY <2>1, <2>2 DEF ExpirePlaces
  <2> QED
    BY <2>3, ExpiryCount, FS_AddElement DEF Expiries
<1>5. ASSUME MsgHandled
      PROVE  Expiries' = IF 1 \in ExpirePlaces THEN Expiries - 1 ELSE Expiries
  <2>1. ExpirePlaces' = After(msgs, ExpirePlaces)
    BY <1>1, <1>5, TailElements DEF ExpirePlaces, After, MsgHandled
  <2>2. ExpirePlaces \in SUBSET DOMAIN msgs
    BY DEF ExpirePlaces
  <2> QED
    BY <1>1, <1>5, <2>1, <2>2, AfterCount DEF Expiries, MsgHandled
<1>6. OdcpiTimerExpire => Expiries' = Expiries - 1
  BY <1>1, <1>2, <1>5, TailElements DEF ExpirePlaces, MsgHandled
<1>7. ASSUME MsgHandled, msgs[1].type # "odcpiTimerExpire"
      PROVE  Expiries' = Expiries /\ (ExpirePlaces # {} => ExpirePlaces' # {})
  <2>1. Expiries' = Expiries
    BY <1>5, <1>7 DEF ExpirePlaces
  <2>2. ExpirePlaces # {} => ExpirePlaces' # {}
    <3>1. ASSUME NEW k \in ExpirePlaces
          PROVE  k - 1 \in ExpirePlaces'
      <4>1. k \in DOMAIN msgs /\ k # 1
        BY <1>7, <3>1 DEF ExpirePlaces
      <4>2. k - 1 \in DOMAIN Tail(msgs) /\ Tail(msgs)[k - 1] = msgs[k]
        BY <1>1, <1>7, <4>1, TailElements DEF MsgHandled
      <4> QED
        BY <1>7, <3>1, <4>2 DEF ExpirePlaces, MsgHandled
    <3> QED
      BY <3>1
  <2> QED
    BY <2>1, <2>2
<1>8. MsgsAdded({"answer", "odcpiTimerExpire"}) => MsgsAdded({"odcpiTimerExpire"})
  BY DEF MsgsAdded
<1> QED
  BY <1>3, <1>4, <1>6, <1>7, <1>8, MsgsStep DEF Expiries

LEMMA TimerStep ==
  ASSUME TypeOK, TimerFollows, [Next]_vars
  PROVE  TimerFollows'
<1>1. /\ Expiries \in Nat /\ (Expiries = 0 <=> ExpirePlaces = {}) /\ credit \in Int
      /\ mOdcpiTimer \in [active : BOOLEAN, running : BOOLEAN] /\ mOdcpiRequestActive \in BOOLEAN
  BY ExpiryCount DEF TypeOK
<1>2. /\ Running.active = TRUE /\ Running.running = TRUE
      /\ Stopped.active = FALSE /\ Stopped.running = FALSE
  BY DEF Running, Stopped
<1>3. CASE OdcpiTimerExpire
  <2>1. Expiries' = Expiries - 1
    BY <1>3, ExpiryStep
  <2>2. CASE mOdcpiRequestActive
    <3>1. mOdcpiTimer' = Running /\ credit' = credit - 1
      BY <1>3, <2>2 DEF OdcpiTimerExpire, Expire
    <3> QED
      BY <1>1, <1>2, <2>1, <3>1 DEF TimerFollows
  <2>3. CASE ~mOdcpiRequestActive
    <3>1. mOdcpiTimer' = Stopped /\ credit' = credit /\ mOdcpiRequestActive' = mOdcpiRequestActive
      BY <1>3, <2>3 DEF OdcpiTimerExpire, Expire
    <3> QED
      BY <1>1, <1>2, <2>1, <2>3, <3>1 DEF TimerFollows
  <2> QED
    BY <2>2, <2>3
<1>4. CASE TimeOutCallback
  <2>1. Expiries' = Expiries + 1 /\ ExpirePlaces' # {}
    BY <1>4, ExpiryStep
  <2>2. /\ mOdcpiTimer'.active = mOdcpiTimer.active /\ mOdcpiTimer'.running = FALSE
        /\ mOdcpiTimer.running /\ credit' = credit + 1 /\ mOdcpiRequestActive' = mOdcpiRequestActive
    BY <1>1, <1>4 DEF TimeOutCallback
  <2> QED
    BY <1>1, <2>1, <2>2 DEF TimerFollows
<1>5. ASSUME ~OdcpiTimerExpire, ~TimeOutCallback
      PROVE  Expiries' = Expiries /\ (ExpirePlaces # {} => ExpirePlaces' # {})
  BY <1>5, ExpiryStep DEF Expiries
<1>6. CASE ~OdcpiTimerExpire /\ ~TimeOutCallback /\ UNCHANGED <<mOdcpiTimer, credit>>
           /\ (mOdcpiRequestActive' => mOdcpiTimer.active)
  BY <1>1, <1>5, <1>6 DEF TimerFollows
<1>7. CASE ~OdcpiTimerExpire /\ ~TimeOutCallback /\ Now
  <2>1. mOdcpiTimer' = Running /\ credit' = (IF First THEN credit - 1 ELSE credit)
    BY <1>7 DEF Now
  <2>2. First => ~mOdcpiTimer.active
    BY DEF First
  <2> QED
    BY <1>1, <1>2, <1>5, <1>7, <2>1, <2>2 DEF TimerFollows
<1>8. CASE ~OdcpiTimerExpire /\ ~TimeOutCallback /\ RequestOdcpi /\ ~Now
  <2>1. UNCHANGED <<mOdcpiTimer, credit>>
    BY <1>8 DEF RequestOdcpi, Start, Stop, Later, odcpiVars
  <2>2. mOdcpiRequestActive' => mOdcpiTimer.active
    <3>1. CASE Later
      BY <3>1 DEF Later, First, TimerFollows
    <3>2. CASE UNCHANGED odcpiVars
      BY <3>2 DEF odcpiVars, TimerFollows
    <3>3. CASE Stop
      BY <3>3 DEF Stop
    <3> QED
      BY <1>8, <3>1, <3>2, <3>3 DEF RequestOdcpi, Start
  <2> QED
    BY <1>6, <1>8, <2>1, <2>2
<1>9. \/ OdcpiTimerExpire \/ TimeOutCallback \/ RequestOdcpi
      \/ UNCHANGED <<mOdcpiTimer, credit>> /\ (mOdcpiRequestActive' => mOdcpiRequestActive)
  BY NextSteps DEF OdcpiStep, vars, odcpiVars, InitOdcpiCommand, InjectOdcpi, InitOdcpi, RestartSessions
<1> QED
  BY <1>3, <1>4, <1>6, <1>7, <1>8, <1>9 DEF TimerFollows

LEMMA TimerInit == Init => TimerFollows
<1> SUFFICES ASSUME Init
             PROVE  TimerFollows
  OBVIOUS
<1>1. ExpirePlaces = {} /\ mOdcpiTimer = Stopped /\ credit = 1 /\ mOdcpiRequestActive = FALSE
  BY DEF Init, ApiInit, ExpirePlaces
<1>2. Expiries = 0
  BY <1>1, FS_EmptySet DEF Expiries
<1> QED
  BY <1>1, <1>2 DEF TimerFollows, Stopped

(* A standing request for a position is always going to be looked at again *)
(* (its timer is active, and runs or has its expiry on the adapter's       *)
(* queue), and the framework is asked at most once per expiry of the timer *)
(* and once before, upgrades to an emergency aside: the safety part of     *)
(* WaitingIsAskedOnce, for any order of requests, stops, engine restarts   *)
(* and expiries.                                                           *)
THEOREM AskedAndAwaited == Spec => [](ActiveIsAwaited /\ AskedOncePerExpiry)
<1> DEFINE Inv == TypeOK /\ IsInjective(mLocAdapters) /\ TimerFollows
<1>1. Init => Inv
  BY TypeInit, EngineInit, TimerInit
<1>2. Inv /\ [Next]_vars => Inv'
  <2> SUFFICES ASSUME Inv, [Next]_vars
               PROVE  Inv'
    OBVIOUS
  <2>1. TypeOK' /\ IsInjective(mLocAdapters') /\ TimerFollows'
    BY TypeStep, ListStep, TimerStep
  <2>2. IsInjective(mLocAdapters)' <=> IsInjective(mLocAdapters')
    BY DEF IsInjective
  <2> QED
    BY <2>1, <2>2
<1>3. Inv => ActiveIsAwaited /\ AskedOncePerExpiry
  <2> SUFFICES ASSUME Inv
               PROVE  ActiveIsAwaited /\ AskedOncePerExpiry
    OBVIOUS
  <2>1. Expiries \in Nat /\ credit \in Int /\ mOdcpiTimer \in [active : BOOLEAN, running : BOOLEAN]
    BY ExpiryCount DEF TypeOK
  <2>2. AskedOncePerExpiry
    BY <2>1 DEF TimerFollows, AskedOncePerExpiry
  <2>3. ExpirePlaces # {} => Expiring
    BY DEF ExpirePlaces, Expiring
  <2>4. ActiveIsAwaited
    BY <2>3 DEF TimerFollows, ActiveIsAwaited
  <2> QED
    BY <2>2, <2>4
<1> QED
  BY <1>1, <1>2, <1>3, PTL DEF Spec

=============================================================================
