----------------------------- MODULE AgpsProofs -----------------------------
(***************************************************************************)
(* Proofs about Agps for any set of handles, any backlog bound, any choice *)
(* of networks and with or without the WDS library: the specification is   *)
(* well typed, each machine's state agrees with its subscriber list, and   *)
(* neither a handle of the modem nor a connection of the framework is lost *)
(* between the adapter's queue, the machines and the network.              *)
(***************************************************************************)
EXTENDS Agps, TLAPS

IInv == TypeOK /\ SubscribersMatchState

(* What the operators of one event share: they leave the other machine     *)
(* alone, and the state and lists of machine n stay in agreement.          *)
Agrees(s, act, inact) ==
  /\ act \intersect inact = {}
  /\ s = "RELEASED" => act \union inact = {}
  /\ s \in {"PENDING", "ACQUIRED"} => act # {}
  /\ s = "RELEASING" => inact # {}

LEMMA AgreesEquiv == SubscribersMatchState <=> \A n \in Nifs : Agrees(state[n], active[n], inactive[n])
  BY DEF SubscribersMatchState, Agrees

-----------------------------------------------------------------------------
(* Typing of the pieces the actions are built from.                        *)

LEMMA RequestOrReleaseDataConnType ==
  ASSUME NEW n \in Nifs, NEW cmd \in DataConnCmd, NEW q \in Seq(Message),
         NEW f \in Seq(DataConnCmd), TypeOK, RequestOrReleaseDataConn(n, cmd, q, f)
  PROVE  queue' \in Seq(Message) /\ fw' \in Seq(DataConnCmd)
<1>1. NativeAnswer(cmd) \in Message
  BY DEF NativeAnswer, Message, DataConnMsg, Nifs, Internet
<1>2. CASE n = Internet
  <2>1. queue' = Append(q, NativeAnswer(cmd)) /\ fw' = f
    BY <1>2 DEF RequestOrReleaseDataConn
  <2> QED
    BY <1>1, <2>1
<1>3. CASE n # Internet
  <2>1. queue' = q /\ fw' = Append(f, cmd)
    BY <1>3 DEF RequestOrReleaseDataConn
  <2> QED
    BY <2>1
<1> QED
  BY <1>2, <1>3

LEMMA NoDataConnType ==
  ASSUME NEW q \in Seq(Message), NEW f \in Seq(DataConnCmd), NoDataConn(q, f)
  PROVE  queue' \in Seq(Message) /\ fw' \in Seq(DataConnCmd)
  BY DEF NoDataConn

LEMMA OpenStatusType ==
  ASSUME TypeOK, NEW S, NEW success \in BOOLEAN, OpenStatus(S, success)
  PROVE  modem' \in [Handles -> ModemState]
  BY DEF TypeOK, OpenStatus, ModemState

LEMMA CloseStatusType ==
  ASSUME TypeOK, NEW S, CloseStatus(S)
  PROVE  modem' \in [Handles -> ModemState]
  BY DEF TypeOK, CloseStatus, ModemState

(* What a step of one machine must do to keep IInv: reach a state that     *)
(* agrees with its new lists, leave the other machine alone and keep the   *)
(* queues and the modem's view well typed.                                 *)
MachineStep(n) ==
  /\ \E s \in AgpsState, act \in SUBSET Handles, inact \in SUBSET Handles :
       /\ Agrees(s, act, inact)
       /\ state' = [state EXCEPT ![n] = s]
       /\ active' = [active EXCEPT ![n] = act]
       /\ inactive' = [inactive EXCEPT ![n] = inact]
  /\ queue' \in Seq(Message)
  /\ fw' \in Seq(DataConnCmd)
  /\ modem' \in [Handles -> ModemState]

LEMMA MachineStepKeepsIInv ==
  ASSUME IInv, NEW n \in Nifs, MachineStep(n), UNCHANGED <<created, connected, network>>,
         fwUp' \in BOOLEAN, wds' \in Seq(Nifs)
  PROVE  IInv'
<1>1. PICK s \in AgpsState, act \in SUBSET Handles, inact \in SUBSET Handles :
        /\ Agrees(s, act, inact)
        /\ state' = [state EXCEPT ![n] = s]
        /\ active' = [active EXCEPT ![n] = act]
        /\ inactive' = [inactive EXCEPT ![n] = inact]
  BY DEF MachineStep
<1>2. TypeOK'
  BY <1>1 DEF IInv, TypeOK, MachineStep
<1>3. ASSUME NEW m \in Nifs
      PROVE  Agrees(state[m], active[m], inactive[m])'
  <2>1. CASE m = n
    BY <1>1, <2>1 DEF IInv, TypeOK, Agrees
  <2>2. CASE m # n
    <3>1. state'[m] = state[m] /\ active'[m] = active[m] /\ inactive'[m] = inactive[m]
      BY <1>1, <2>2 DEF IInv, TypeOK
    <3>2. Agrees(state[m], active[m], inactive[m])
      BY AgreesEquiv DEF IInv
    <3> QED BY <3>1, <3>2 DEF Agrees
  <2> QED BY <2>1, <2>2
<1>4. SubscribersMatchState'
  BY <1>3 DEF SubscribersMatchState, Agrees
<1> QED BY <1>2, <1>4 DEF IInv

-----------------------------------------------------------------------------
(* Each event of a machine is such a step.                                 *)

LEMMA SubscribeStep ==
  ASSUME IInv, NEW n \in Nifs, NEW h \in Handles, NEW q \in Seq(Message),
         Subscribe(n, h, q, fw)
  PROVE  MachineStep(n)
<1> USE DEF IInv
<1>1. Agrees(state[n], active[n], inactive[n])
  BY AgreesEquiv
<1>2. /\ state[n] \in AgpsState /\ active[n] \in SUBSET Handles
      /\ inactive[n] \in SUBSET Handles /\ fw \in Seq(DataConnCmd)
  BY DEF TypeOK
<1>3. queue' \in Seq(Message) /\ fw' \in Seq(DataConnCmd)
  BY <1>2, RequestOrReleaseDataConnType, NoDataConnType DEF Subscribe, DataConnCmd
<1>4. modem' \in [Handles -> ModemState]
  BY OpenStatusType DEF Subscribe, TypeOK
<1> DEFINE act == IF Listed(n, h) THEN active[n] ELSE active[n] \union {h}
           s   == IF state[n] = "RELEASED" THEN "PENDING" ELSE state[n]
<1>5. /\ active' = [active EXCEPT ![n] = act]
      /\ inactive' = [inactive EXCEPT ![n] = inactive[n]]
  BY DEF Subscribe, SetSubscribers, TypeOK
<1>6. state' = [state EXCEPT ![n] = s]
  BY DEF Subscribe, Become, TypeOK
<1>7. s \in AgpsState /\ act \in SUBSET Handles /\ Agrees(s, act, inactive[n])
  BY <1>1, <1>2 DEF Agrees, AgpsState, Listed
<1> QED
  BY <1>2, <1>3, <1>4, <1>5, <1>6, <1>7 DEF MachineStep

LEMMA UnsubscribeStep ==
  ASSUME IInv, NEW n \in Nifs, NEW h \in Handles, NEW q \in Seq(Message),
         Listed(n, h), Unsubscribe(n, h, q, fw)
  PROVE  MachineStep(n)
<1> USE DEF IInv
<1>1. Agrees(state[n], active[n], inactive[n])
  BY AgreesEquiv
<1>2. /\ state[n] \in AgpsState /\ active[n] \in SUBSET Handles
      /\ inactive[n] \in SUBSET Handles /\ fw \in Seq(DataConnCmd)
  BY DEF TypeOK
<1>3. queue' \in Seq(Message) /\ fw' \in Seq(DataConnCmd)
  BY <1>2, RequestOrReleaseDataConnType, NoDataConnType DEF Unsubscribe, DataConnCmd
<1>4. modem' \in [Handles -> ModemState]
  BY DEF Unsubscribe, TypeOK
<1> DEFINE act   == active[n] \ {h}
           inact == inactive[n] \union {h}
           s     == IF state[n] \in {"PENDING", "ACQUIRED"} /\ active[n] \subseteq {h}
                    THEN "RELEASING" ELSE state[n]
<1>5. /\ active' = [active EXCEPT ![n] = act]
      /\ inactive' = [inactive EXCEPT ![n] = inact]
      /\ state' = [state EXCEPT ![n] = s]
  BY DEF Unsubscribe, SetSubscribers, Become, TypeOK
<1>6. s \in AgpsState /\ act \in SUBSET Handles /\ inact \in SUBSET Handles
  BY <1>2 DEF AgpsState
<1>7. Agrees(s, act, inact)
  BY <1>1, <1>2 DEF Agrees, Listed, AgpsState
<1> HIDE DEF act, inact, s
<1> QED
  BY <1>3, <1>4, <1>5, <1>6, <1>7 DEF MachineStep

LEMMA GrantedStep ==
  ASSUME IInv, NEW n \in Nifs, NEW q \in Seq(Message), Granted(n, q)
  PROVE  MachineStep(n)
<1> USE DEF IInv
<1>1. Agrees(state[n], active[n], inactive[n])
  BY AgreesEquiv
<1>2. /\ state[n] \in AgpsState /\ active[n] \in SUBSET Handles
      /\ inactive[n] \in SUBSET Handles /\ fw \in Seq(DataConnCmd)
  BY DEF TypeOK
<1>3. queue' \in Seq(Message) /\ fw' \in Seq(DataConnCmd)
  BY <1>2, NoDataConnType DEF Granted
<1>4. modem' \in [Handles -> ModemState]
  BY OpenStatusType DEF Granted, TypeOK
<1> DEFINE s == IF state[n] = "PENDING" THEN "ACQUIRED" ELSE state[n]
<1>5. /\ active' = [active EXCEPT ![n] = active[n]]
      /\ inactive' = [inactive EXCEPT ![n] = inactive[n]]
      /\ state' = [state EXCEPT ![n] = s]
  BY DEF Granted, Become, TypeOK
<1>6. s \in AgpsState /\ Agrees(s, active[n], inactive[n])
  BY <1>1, <1>2 DEF AgpsState, Agrees
<1> HIDE DEF s
<1> QED
  BY <1>2, <1>3, <1>4, <1>5, <1>6 DEF MachineStep

LEMMA ReleaseCompleteStep ==
  ASSUME IInv, NEW n \in Nifs, NEW q \in Seq(Message), NEW f \in Seq(DataConnCmd),
         ReleaseComplete(n, q, f)
  PROVE  MachineStep(n)
<1> USE DEF IInv
<1>1. active[n] \in SUBSET Handles
  BY DEF TypeOK
<1>2. queue' \in Seq(Message) /\ fw' \in Seq(DataConnCmd)
  BY RequestOrReleaseDataConnType, NoDataConnType DEF ReleaseComplete, DataConnCmd
<1>3. modem' \in [Handles -> ModemState]
  BY CloseStatusType DEF ReleaseComplete
<1> DEFINE s == IF active[n] # {} THEN "PENDING" ELSE "RELEASED"
<1>4. /\ active' = [active EXCEPT ![n] = active[n]]
      /\ inactive' = [inactive EXCEPT ![n] = {}]
      /\ state' = [state EXCEPT ![n] = s]
  BY DEF ReleaseComplete, SetSubscribers, Become
<1>5. s \in AgpsState /\ Agrees(s, active[n], {})
  BY DEF AgpsState, Agrees
<1> HIDE DEF s
<1> QED
  BY <1>1, <1>2, <1>3, <1>4, <1>5 DEF MachineStep

(* A machine that drops every subscriber and returns to RELEASED.          *)
LEMMA DropAllStep ==
  ASSUME IInv, NEW n \in Nifs, Become(n, "RELEASED"), SetSubscribers(n, {}, {}),
         queue' \in Seq(Message), fw' \in Seq(DataConnCmd),
         modem' \in [Handles -> ModemState]
  PROVE  MachineStep(n)
<1>1. "RELEASED" \in AgpsState /\ Agrees("RELEASED", {}, {})
  BY DEF AgpsState, Agrees
<1> QED
  BY <1>1 DEF MachineStep, Become, SetSubscribers

(* A machine that takes no notice of an event.                             *)
LEMMA IgnoreStep ==
  ASSUME IInv, NEW n \in Nifs, UNCHANGED <<smVars, modem>>,
         queue' \in Seq(Message), fw' \in Seq(DataConnCmd)
  PROVE  MachineStep(n)
<1> USE DEF IInv
<1>1. Agrees(state[n], active[n], inactive[n])
  BY AgreesEquiv
<1>2. /\ state[n] \in AgpsState /\ active[n] \in SUBSET Handles
      /\ inactive[n] \in SUBSET Handles /\ modem' \in [Handles -> ModemState]
  BY DEF TypeOK
<1>3. /\ state' = [state EXCEPT ![n] = state[n]]
      /\ active' = [active EXCEPT ![n] = active[n]]
      /\ inactive' = [inactive EXCEPT ![n] = inactive[n]]
  BY DEF TypeOK, smVars
<1> QED
  BY <1>1, <1>2, <1>3 DEF MachineStep

LEMMA ReleasedStep ==
  ASSUME IInv, NEW n \in Nifs, NEW q \in Seq(Message), NEW f \in Seq(DataConnCmd),
         Released(n, q, f)
  PROVE  MachineStep(n)
<1>1. CASE /\ Become(n, "RELEASED")
           /\ CloseStatus(active[n] \union inactive[n])
           /\ SetSubscribers(n, {}, {})
           /\ NoDataConn(q, f)
  BY <1>1, DropAllStep, NoDataConnType, CloseStatusType DEF IInv
<1>2. CASE ReleaseComplete(n, q, f)
  BY <1>2, ReleaseCompleteStep
<1>3. CASE NoDataConn(q, f) /\ UNCHANGED <<smVars, modem>>
  BY <1>3, IgnoreStep, NoDataConnType
<1> QED
  BY <1>1, <1>2, <1>3 DEF Released

LEMMA DeniedStep ==
  ASSUME IInv, NEW n \in Nifs, NEW q \in Seq(Message), Denied(n, q)
  PROVE  MachineStep(n)
<1>0. fw \in Seq(DataConnCmd)
  BY DEF IInv, TypeOK
<1>1. CASE /\ Become(n, "RELEASED")
           /\ OpenStatus(active[n] \union inactive[n], FALSE)
           /\ SetSubscribers(n, {}, {})
           /\ NoDataConn(q, fw)
  BY <1>0, <1>1, DropAllStep, NoDataConnType, OpenStatusType DEF IInv
<1>2. CASE ReleaseComplete(n, q, fw)
  BY <1>0, <1>2, ReleaseCompleteStep
<1>3. CASE NoDataConn(q, fw) /\ UNCHANGED <<smVars, modem>>
  BY <1>0, <1>3, IgnoreStep, NoDataConnType
<1> QED
  BY <1>1, <1>2, <1>3 DEF Denied

-----------------------------------------------------------------------------
(* The adapter's queue, its head and its tail.                             *)

LEMMA QueueHead ==
  ASSUME TypeOK, queue # <<>>
  PROVE  Head(queue) \in Message /\ Tail(queue) \in Seq(Message)
  BY DEF TypeOK

LEMMA ReceivesType ==
  ASSUME TypeOK, NEW kind, Receives(kind)
  PROVE  /\ Tail(queue) \in Seq(Message)
         /\ kind = "request" => Head(queue).nif \in Nifs /\ Head(queue).handle \in Handles
         /\ kind = "release" => Head(queue).handle \in Handles
         /\ kind \in {"open", "pdn", "failed", "closed"} => Head(queue).nif \in Nifs
<1>1. Head(queue) \in Message /\ Tail(queue) \in Seq(Message)
  BY QueueHead DEF Receives
<1> QED
  BY <1>1 DEF Receives, Message, RequestMsg, ReleaseMsg, DataConnMsg

LEMMA IInvInit == Init => IInv
<1> SUFFICES ASSUME Init
             PROVE  IInv
  OBVIOUS
<1>1. state \in [Nifs -> AgpsState] /\ modem \in [Handles -> ModemState]
  BY DEF Init, AgpsState, ModemState
<1>2. active \in [Nifs -> SUBSET Handles] /\ inactive \in [Nifs -> SUBSET Handles]
  BY DEF Init
<1>3. queue \in Seq(Message) /\ wds \in Seq(Nifs) /\ fw \in Seq(DataConnCmd)
  BY DEF Init
<1>4. TypeOK
  BY <1>1, <1>2, <1>3 DEF Init, TypeOK
<1>5. SubscribersMatchState
  BY DEF Init, SubscribersMatchState
<1> QED
  BY <1>4, <1>5 DEF IInv

LEMMA RequestATLKeepsIInv == IInv /\ RequestATL => IInv'
<1> SUFFICES ASSUME IInv, RequestATL
             PROVE  IInv'
  OBVIOUS
<1> DEFINE n == Head(queue).nif
           h == Head(queue).handle
           q == Tail(queue)
<1>1. n \in Nifs /\ h \in Handles /\ q \in Seq(Message) /\ fw \in Seq(DataConnCmd)
  BY ReceivesType DEF IInv, RequestATL, TypeOK
<1>2. UNCHANGED <<created, connected, network>> /\ fwUp' \in BOOLEAN /\ wds' \in Seq(Nifs)
  BY DEF RequestATL, envVars, IInv, TypeOK
<1>3. \/ Subscribe(n, h, q, fw)
      \/ OpenStatus({h}, FALSE) /\ NoDataConn(q, fw) /\ UNCHANGED smVars
  BY DEF RequestATL
<1> HIDE DEF n, h, q
<1>4. CASE Subscribe(n, h, q, fw)
  BY <1>1, <1>2, <1>4, SubscribeStep, MachineStepKeepsIInv
<1>5. CASE OpenStatus({h}, FALSE) /\ NoDataConn(q, fw) /\ UNCHANGED smVars
  <2>1. TypeOK'
    BY <1>1, <1>2, <1>5, OpenStatusType, NoDataConnType DEF IInv, TypeOK, smVars
  <2> QED
    BY <1>5, <2>1 DEF IInv, SubscribersMatchState, smVars
<1> QED
  BY <1>3, <1>4, <1>5

LEMMA ReleaseATLKeepsIInv == IInv /\ ReleaseATL => IInv'
<1> SUFFICES ASSUME IInv, ReleaseATL
             PROVE  IInv'
  OBVIOUS
<1> DEFINE h == Head(queue).handle
           q == Tail(queue)
<1>1. h \in Handles /\ q \in Seq(Message) /\ fw \in Seq(DataConnCmd)
  BY ReceivesType DEF IInv, ReleaseATL, TypeOK
<1>2. UNCHANGED <<created, connected, network>> /\ fwUp' \in BOOLEAN /\ wds' \in Seq(Nifs)
  BY DEF ReleaseATL, envVars, IInv, TypeOK
<1>3. \/ \E n \in Nifs : Listed(n, h) /\ Unsubscribe(n, h, q, fw)
      \/ NoDataConn(q, fw) /\ UNCHANGED <<smVars, modem>>
  BY DEF ReleaseATL, Nifs
<1> HIDE DEF h, q
<1>4. CASE \E n \in Nifs : Listed(n, h) /\ Unsubscribe(n, h, q, fw)
  BY <1>1, <1>2, <1>4, UnsubscribeStep, MachineStepKeepsIInv
<1>5. CASE NoDataConn(q, fw) /\ UNCHANGED <<smVars, modem>>
  <2>1. TypeOK'
    BY <1>1, <1>2, <1>5, NoDataConnType DEF IInv, TypeOK, smVars
  <2> QED
    BY <1>5, <2>1 DEF IInv, SubscribersMatchState, smVars
<1> QED
  BY <1>3, <1>4, <1>5

(* The four answers of a provider.                                         *)
LEMMA AnswerKeepsIInv ==
  IInv /\ (AtlOpenSuccess \/ ReportAtlPdn \/ ReportAtlOpenFailed \/ ReportAtlClosed) => IInv'
<1> SUFFICES ASSUME IInv,
                    AtlOpenSuccess \/ ReportAtlPdn \/ ReportAtlOpenFailed \/ ReportAtlClosed
             PROVE  IInv'
  OBVIOUS
<1> DEFINE n == Head(queue).nif
           q == Tail(queue)
<1>1. n \in Nifs /\ q \in Seq(Message) /\ fw \in Seq(DataConnCmd) /\ wds \in Seq(Nifs)
  BY ReceivesType
  DEF IInv, TypeOK, AtlOpenSuccess, ReportAtlPdn, ReportAtlOpenFailed, ReportAtlClosed
<1>2. UNCHANGED <<created, connected, network>> /\ fwUp' \in BOOLEAN
  BY DEF AtlOpenSuccess, ReportAtlPdn, ReportAtlOpenFailed, ReportAtlClosed, envVars, IInv, TypeOK
<1>3. \/ wds' = Append(wds, n) /\ NoDataConn(q, fw) /\ UNCHANGED <<smVars, modem>>
      \/ wds' = wds /\ (Granted(n, q) \/ Denied(n, q) \/ Released(n, q, fw))
  BY DEF AtlOpenSuccess, ReportAtlPdn, ReportAtlOpenFailed, ReportAtlClosed
<1> HIDE DEF n, q
<1>4. CASE wds' = Append(wds, n) /\ NoDataConn(q, fw) /\ UNCHANGED <<smVars, modem>>
  <2>1. wds' \in Seq(Nifs)
    BY <1>1, <1>4
  <2> QED
    BY <1>1, <1>2, <1>4, <2>1, IgnoreStep, NoDataConnType, MachineStepKeepsIInv
<1>5. CASE wds' = wds /\ (Granted(n, q) \/ Denied(n, q) \/ Released(n, q, fw))
  <2>1. MachineStep(n)
    BY <1>1, <1>5, GrantedStep, DeniedStep, ReleasedStep
  <2> QED
    BY <1>1, <1>2, <1>5, <2>1, MachineStepKeepsIInv
<1> QED
  BY <1>3, <1>4, <1>5

(* The steps that leave both machines alone, and the refused APN.          *)
LEMMA EnvironmentKeepsIInv ==
  ASSUME IInv,
         \/ ReportPdnTypeFromWds \/ FrameworkServes \/ FrameworkLoses \/ NotifyNetwork
         \/ \E n \in Nifs : CreateStateMachine(n)
         \/ \E h \in Handles, n \in Nifs : ModemRequest(h, n)
         \/ \E h \in Handles : ModemRelease(h)
  PROVE  IInv'
<1> USE DEF IInv
<1>0. /\ queue \in Seq(Message) /\ fw \in Seq(DataConnCmd) /\ wds \in Seq(Nifs)
      /\ modem \in [Handles -> ModemState] /\ Agnss \in Nifs
  BY DEF TypeOK, Nifs
<1>1. ASSUME UNCHANGED smVars, created' \subseteq Nifs, queue' \in Seq(Message),
             wds' \in Seq(Nifs), fw' \in Seq(DataConnCmd), fwUp' \in BOOLEAN,
             connected' \in BOOLEAN, network' = network, modem' \in [Handles -> ModemState]
      PROVE  IInv'
  BY <1>1 DEF TypeOK, SubscribersMatchState, smVars
<1>2. CASE ReportPdnTypeFromWds
  <2>1. Head(wds) \in Nifs /\ Tail(wds) \in Seq(Nifs)
    BY <1>0, <1>2 DEF ReportPdnTypeFromWds
  <2>2. [kind |-> "pdn", nif |-> Head(wds)] \in Message
    BY <2>1 DEF Message, DataConnMsg
  <2>3. queue' \in Seq(Message)
    BY <1>0, <1>2, <2>2 DEF ReportPdnTypeFromWds
  <2> QED
    BY <1>1, <1>2, <2>1, <2>3 DEF ReportPdnTypeFromWds, TypeOK, envVars
<1>3. CASE FrameworkOpens \/ FrameworkFails \/ FrameworkCloses \/ FrameworkLoses
  <2>1. \A k \in {"open", "failed", "closed"} : [kind |-> k, nif |-> Agnss] \in Message
    BY <1>0 DEF Message, DataConnMsg
  <2>2. PICK k \in {"open", "failed", "closed"} : Answer(k)
    BY <1>3 DEF FrameworkOpens, FrameworkFails, FrameworkCloses, FrameworkLoses
  <2>3. queue' \in Seq(Message)
    BY <1>0, <2>1, <2>2 DEF Answer
  <2>4. (fw # <<>> /\ fw' = Tail(fw)) \/ fw' = fw
    BY <1>3 DEF FrameworkOpens, FrameworkFails, FrameworkCloses, FrameworkLoses, Serves
  <2>5. fw # <<>> => Tail(fw) \in Seq(DataConnCmd)
    BY <1>0
  <2>6. fw' \in Seq(DataConnCmd)
    BY <1>0, <2>4, <2>5, Zenon
  <2> QED
    BY <1>1, <1>3, <2>3, <2>6
    DEF FrameworkOpens, FrameworkFails, FrameworkCloses, FrameworkLoses, TypeOK
<1>4. CASE FrameworkOpensBadApn
  <2>1. Tail(fw) \in Seq(DataConnCmd)
    BY <1>0, <1>4 DEF FrameworkOpensBadApn, Serves
  <2>2. MachineStep(Agnss)
    BY <1>0, <1>4, <2>1, ReleasedStep DEF FrameworkOpensBadApn
  <2> QED
    BY <1>0, <1>4, <2>2, MachineStepKeepsIInv DEF FrameworkOpensBadApn
<1>5. CASE NotifyNetwork \/ \E n \in Nifs : CreateStateMachine(n)
  BY <1>1, <1>5 DEF NotifyNetwork, CreateStateMachine, TypeOK, envVars
<1>6. CASE \E h \in Handles, n \in Nifs : ModemRequest(h, n)
  <2>1. PICK h \in Handles, n \in Nifs : ModemRequest(h, n)
    BY <1>6
  <2>2. [kind |-> "request", nif |-> n, handle |-> h] \in Message
    BY DEF Message, RequestMsg
  <2>3. queue' \in Seq(Message) /\ modem' \in [Handles -> ModemState]
    BY <1>0, <2>1, <2>2 DEF ModemRequest, ModemState
  <2> QED
    BY <1>1, <2>1, <2>3 DEF ModemRequest, TypeOK, envVars
<1>7. CASE \E h \in Handles : ModemRelease(h)
  <2>1. PICK h \in Handles : ModemRelease(h)
    BY <1>7
  <2>2. [kind |-> "release", handle |-> h] \in Message
    BY DEF Message, ReleaseMsg
  <2>3. queue' \in Seq(Message) /\ modem' \in [Handles -> ModemState]
    BY <1>0, <2>1, <2>2 DEF ModemRelease, ModemState
  <2> QED
    BY <1>1, <2>1, <2>3 DEF ModemRelease, TypeOK, envVars
<1> QED
  BY <1>2, <1>3, <1>4, <1>5, <1>6, <1>7 DEF FrameworkServes

LEMMA IInvStep == IInv /\ [Next]_vars => IInv'
<1> SUFFICES ASSUME IInv, [Next]_vars
             PROVE  IInv'
  OBVIOUS
<1>1. CASE AdapterStep
  BY <1>1, RequestATLKeepsIInv, ReleaseATLKeepsIInv, AnswerKeepsIInv DEF AdapterStep
<1>2. CASE \/ ReportPdnTypeFromWds \/ FrameworkServes \/ FrameworkLoses \/ NotifyNetwork
           \/ \E n \in Nifs : CreateStateMachine(n)
           \/ \E h \in Handles, n \in Nifs : ModemRequest(h, n)
           \/ \E h \in Handles : ModemRelease(h)
  BY <1>2, EnvironmentKeepsIInv
<1>3. CASE UNCHANGED vars
  BY <1>3 DEF IInv, TypeOK, SubscribersMatchState, vars, smVars, envVars
<1> QED
  BY <1>1, <1>2, <1>3 DEF Next

-----------------------------------------------------------------------------
(* Every variable keeps its type, whatever the modem, the framework and    *)
(* the network do.                                                         *)
THEOREM TypeCorrect == Spec => []TypeOK
<1>1. IInv => TypeOK
  BY DEF IInv
<1> QED
  BY IInvInit, IInvStep, <1>1, PTL DEF Spec

(* No event, in any order, leaves a subscriber on the list of a machine in *)
(* RELEASED or a machine with a connection nobody on its list uses: the    *)
(* comment of Agps.cpp:201 holds, and no subscriber is lost by a machine.  *)
THEOREM SubscribersAlwaysMatch == Spec => []SubscribersMatchState
<1>1. IInv => SubscribersMatchState
  BY DEF IInv
<1> QED
  BY IInvInit, IInvStep, <1>1, PTL DEF Spec

-----------------------------------------------------------------------------
(* What waits on a queue, in terms of sets of messages: is one of S on q,  *)
(* at most one, and one of T behind one of S.                              *)
Has(q, S)       == \E i \in DOMAIN q : q[i] \in S
Once(q, S)      == \A i, j \in DOMAIN q : q[i] \in S /\ q[j] \in S => i = j
Before(q, S, T) == \E i, j \in DOMAIN q : i < j /\ q[i] \in S /\ q[j] \in T

LEMMA AppendDomain ==
  ASSUME NEW M, NEW q \in Seq(M), NEW m \in M
  PROVE  /\ Append(q, m) \in Seq(M)
         /\ DOMAIN Append(q, m) = DOMAIN q \union {Len(q) + 1}
         /\ \A i \in DOMAIN q : Append(q, m)[i] = q[i] /\ i \in Nat /\ i < Len(q) + 1
         /\ Append(q, m)[Len(q) + 1] = m
         /\ Len(q) \in Nat
  OBVIOUS

LEMMA TailDomain ==
  ASSUME NEW M, NEW q \in Seq(M), q # <<>>
  PROVE  /\ Tail(q) \in Seq(M) /\ Head(q) \in M /\ Head(q) = q[1] /\ 1 \in DOMAIN q
         /\ \A i \in DOMAIN Tail(q) : i \in Nat /\ i + 1 \in DOMAIN q /\ Tail(q)[i] = q[i + 1] /\ i > 0
         /\ \A i \in DOMAIN q : i \in Nat /\ (i # 1 => i - 1 \in DOMAIN Tail(q) /\ Tail(q)[i - 1] = q[i])
  OBVIOUS

LEMMA AppendHas ==
  ASSUME NEW M, NEW q \in Seq(M), NEW m \in M, NEW S
  PROVE  Has(Append(q, m), S) <=> Has(q, S) \/ m \in S
  BY AppendDomain DEF Has

LEMMA AppendOnce ==
  ASSUME NEW M, NEW q \in Seq(M), NEW m \in M, NEW S
  PROVE  Once(Append(q, m), S) <=> Once(q, S) /\ (m \in S => ~Has(q, S))
  BY AppendDomain DEF Has, Once

LEMMA AppendBefore ==
  ASSUME NEW M, NEW q \in Seq(M), NEW m \in M, NEW S, NEW T
  PROVE  Before(Append(q, m), S, T) <=> Before(q, S, T) \/ (Has(q, S) /\ m \in T)
<1> DEFINE p == Append(q, m)
<1>1. ASSUME Before(p, S, T)
      PROVE  Before(q, S, T) \/ (Has(q, S) /\ m \in T)
  <2>1. PICK i, j \in DOMAIN p : i < j /\ p[i] \in S /\ p[j] \in T
    BY <1>1 DEF Before
  <2>2. i \in DOMAIN q /\ p[i] = q[i]
    BY <2>1, AppendDomain
  <2>3. CASE j \in DOMAIN q
    <3>1. p[j] = q[j]
      BY <2>3, AppendDomain
    <3> QED
      BY <2>1, <2>2, <2>3, <3>1 DEF Before
  <2>4. CASE j \notin DOMAIN q
    <3>1. p[j] = m
      BY <2>1, <2>4, AppendDomain
    <3> QED
      BY <2>1, <2>2, <3>1 DEF Has
  <2> QED
    BY <2>3, <2>4
<1>2. ASSUME Before(q, S, T)
      PROVE  Before(p, S, T)
  BY <1>2, AppendDomain DEF Before
<1>3. ASSUME Has(q, S), m \in T
      PROVE  Before(p, S, T)
  <2>1. PICK i \in DOMAIN q : q[i] \in S
    BY <1>3 DEF Has
  <2>2. i \in DOMAIN p /\ Len(q) + 1 \in DOMAIN p /\ i < Len(q) + 1 /\ p[i] = q[i] /\ p[Len(q) + 1] = m
    BY <2>1, AppendDomain
  <2> QED
    BY <1>3, <2>1, <2>2 DEF Before
<1> QED
  BY <1>1, <1>2, <1>3

LEMMA TailHas ==
  ASSUME NEW M, NEW q \in Seq(M), q # <<>>, NEW S
  PROVE  Has(q, S) <=> Has(Tail(q), S) \/ Head(q) \in S
<1>1. ASSUME NEW i \in DOMAIN q, q[i] \in S
      PROVE  Has(Tail(q), S) \/ Head(q) \in S
  <2>1. CASE i = 1
    BY <1>1, <2>1, TailDomain
  <2>2. CASE i # 1
    BY <1>1, <2>2, TailDomain DEF Has
  <2> QED
    BY <2>1, <2>2
<1>2. ASSUME NEW i \in DOMAIN Tail(q), Tail(q)[i] \in S
      PROVE  Has(q, S)
  BY <1>2, TailDomain DEF Has
<1>3. Head(q) \in S => Has(q, S)
  BY TailDomain DEF Has
<1> QED
  BY <1>1, <1>2, <1>3 DEF Has

LEMMA TailOnce ==
  ASSUME NEW M, NEW q \in Seq(M), q # <<>>, NEW S
  PROVE  Once(q, S) <=> Once(Tail(q), S) /\ (Head(q) \in S => ~Has(Tail(q), S))
<1> DEFINE p == Tail(q)
<1>1. ASSUME Once(q, S)
      PROVE  Once(p, S) /\ (Head(q) \in S => ~Has(p, S))
  <2>1. ASSUME NEW i \in DOMAIN p, NEW j \in DOMAIN p, p[i] \in S, p[j] \in S
        PROVE  i = j
    <3>1. i \in Nat /\ j \in Nat /\ q[i + 1] \in S /\ q[j + 1] \in S
          /\ i + 1 \in DOMAIN q /\ j + 1 \in DOMAIN q
      BY <2>1, TailDomain
    <3>2. i + 1 = j + 1
      BY <1>1, <3>1 DEF Once
    <3> QED
      BY <3>1, <3>2
  <2>2. ASSUME Head(q) \in S, NEW i \in DOMAIN p, p[i] \in S
        PROVE  FALSE
    <3>1. i \in Nat /\ i > 0 /\ q[i + 1] \in S /\ i + 1 \in DOMAIN q /\ q[1] \in S /\ 1 \in DOMAIN q
      BY <2>2, TailDomain
    <3>2. i + 1 = 1
      BY <1>1, <3>1 DEF Once
    <3> QED
      BY <3>1, <3>2
  <2> QED
    BY <2>1, <2>2 DEF Once, Has
<1>2. ASSUME Once(p, S), Head(q) \in S => ~Has(p, S)
      PROVE  Once(q, S)
  <2> SUFFICES ASSUME NEW i \in DOMAIN q, NEW j \in DOMAIN q, q[i] \in S, q[j] \in S
               PROVE  i = j
    BY DEF Once
  <2>1. CASE i # 1 /\ j # 1
    <3>1. /\ i \in Nat /\ j \in Nat /\ p[i - 1] \in S /\ p[j - 1] \in S
          /\ i - 1 \in DOMAIN p /\ j - 1 \in DOMAIN p
      BY <2>1, TailDomain
    <3>2. i - 1 = j - 1
      BY <1>2, <3>1 DEF Once
    <3> QED
      BY <3>1, <3>2
  <2>2. CASE i = 1 /\ j # 1
    <3>1. Has(p, S) /\ Head(q) \in S
      BY <2>2, TailDomain DEF Has
    <3> QED
      BY <1>2, <3>1
  <2>3. CASE i # 1 /\ j = 1
    <3>1. Has(p, S) /\ Head(q) \in S
      BY <2>3, TailDomain DEF Has
    <3> QED
      BY <1>2, <3>1
  <2> QED
    BY <2>1, <2>2, <2>3
<1> QED
  BY <1>1, <1>2

LEMMA TailBefore ==
  ASSUME NEW M, NEW q \in Seq(M), q # <<>>, NEW S, NEW T
  PROVE  Before(q, S, T) <=> Before(Tail(q), S, T) \/ (Head(q) \in S /\ Has(Tail(q), T))
<1> DEFINE p == Tail(q)
<1>1. ASSUME Before(q, S, T)
      PROVE  Before(p, S, T) \/ (Head(q) \in S /\ Has(p, T))
  <2>1. PICK i, j \in DOMAIN q : i < j /\ q[i] \in S /\ q[j] \in T
    BY <1>1 DEF Before
  <2>2. i \in Nat /\ j \in Nat
    BY <2>1, TailDomain
  <2>3. j # 1
    <3>1. i >= 1
      BY <2>1
    <3> QED
      BY <2>1, <2>2, <3>1
  <2>4. j - 1 \in DOMAIN p /\ p[j - 1] = q[j]
    BY <2>1, <2>3, TailDomain
  <2>5. CASE i = 1
    BY <2>1, <2>4, <2>5, TailDomain DEF Has
  <2>6. CASE i # 1
    <3>1. i - 1 \in DOMAIN p /\ p[i - 1] = q[i] /\ i - 1 < j - 1
      BY <2>1, <2>2, <2>6, TailDomain
    <3> QED
      BY <2>1, <2>4, <3>1 DEF Before
  <2> QED
    BY <2>5, <2>6
<1>2. ASSUME Before(p, S, T)
      PROVE  Before(q, S, T)
  <2>1. PICK i, j \in DOMAIN p : i < j /\ p[i] \in S /\ p[j] \in T
    BY <1>2 DEF Before
  <2>2. i + 1 \in DOMAIN q /\ j + 1 \in DOMAIN q /\ i + 1 < j + 1 /\ p[i] = q[i + 1] /\ p[j] = q[j + 1]
    BY <2>1, TailDomain
  <2> QED
    BY <2>1, <2>2 DEF Before
<1>3. ASSUME Head(q) \in S, Has(p, T)
      PROVE  Before(q, S, T)
  <2>1. PICK j \in DOMAIN p : p[j] \in T
    BY <1>3 DEF Has
  <2>2. j \in Nat /\ j > 0 /\ j + 1 \in DOMAIN q /\ q[j + 1] \in T /\ 1 \in DOMAIN q /\ q[1] \in S
    BY <1>3, <2>1, TailDomain
  <2>3. 1 < j + 1
    BY <2>2
  <2> HIDE DEF p
  <2> QED
    BY <2>2, <2>3 DEF Before
<1> QED
  BY <1>1, <1>2, <1>3

-----------------------------------------------------------------------------
(* The modem's view.  What waits on queue q for handle h of the modem: its *)
(* open requests and its close requests.                                   *)
Requests(h) == {m \in Message : m.kind = "request" /\ m.handle = h}
Releases(h) == {m \in Message : m.kind = "release" /\ m.handle = h}

Asked(q, h)         == Has(q, Requests(h)) /\ Once(q, Requests(h))
WillClose(q, h)     == Has(q, Releases(h))
ClosesAfterAsk(q, h) == Before(q, Requests(h), Releases(h))
Unlisted(h)         == \A n \in Nifs : ~Listed(n, h)

(* Where handle h is, for each of its states: an idle handle may have a    *)
(* late close request on the queue (its call was refused meanwhile), which *)
(* is handled before any later open request; an open request on the queue  *)
(* is the only one, and its handle is on no list; a listed handle is on    *)
(* the list of one machine, and to be closed exactly if the modem asked.   *)
HandleFollowed(h) ==
  /\ \A n, m \in Nifs : Listed(n, h) /\ Listed(m, h) => n = m
  /\ modem[h] = "idle" => ~Has(queue, Requests(h)) /\ Unlisted(h)
  /\ modem[h] = "opening" =>
       \/ Asked(queue, h) /\ ~ClosesAfterAsk(queue, h) /\ Unlisted(h)
       \/ /\ ~Has(queue, Requests(h)) /\ ~WillClose(queue, h)
          /\ \E n \in Nifs : h \in active[n] /\ state[n] \in {"PENDING", "RELEASING"}
  /\ modem[h] = "open" =>
       /\ ~Has(queue, Requests(h)) /\ ~WillClose(queue, h)
       /\ \E n \in Nifs : h \in active[n] /\ state[n] = "ACQUIRED"
  /\ modem[h] = "closing" =>
       \/ Asked(queue, h) /\ ClosesAfterAsk(queue, h) /\ Unlisted(h)
       \/ /\ ~Has(queue, Requests(h)) /\ WillClose(queue, h)
          /\ \E n \in Nifs : h \in active[n]
       \/ ~Has(queue, Requests(h)) /\ \E n \in Nifs : h \in inactive[n]

HandlesFollowed == \A h \in Handles : HandleFollowed(h)

(* Queues p and q hold the same for handle h.                              *)
SameFor(h, p, q) ==
  /\ Has(p, Requests(h)) <=> Has(q, Requests(h))
  /\ Asked(p, h) <=> Asked(q, h)
  /\ WillClose(p, h) <=> WillClose(q, h)
  /\ ClosesAfterAsk(p, h) <=> ClosesAfterAsk(q, h)

(* A message is about handle h if it opens or closes it.                   *)
About(m, h) == m \in Requests(h) \/ m \in Releases(h)

LEMMA AppendForeign ==
  ASSUME NEW h, NEW q \in Seq(Message), NEW m \in Message, ~About(m, h)
  PROVE  SameFor(h, Append(q, m), q)
  BY AppendHas, AppendOnce, AppendBefore
  DEF SameFor, About, Asked, WillClose, ClosesAfterAsk

LEMMA TailForeign ==
  ASSUME NEW h, NEW q \in Seq(Message), q # <<>>, ~About(Head(q), h)
  PROVE  SameFor(h, Tail(q), q)
  BY TailHas, TailOnce, TailBefore
  DEF SameFor, About, Asked, WillClose, ClosesAfterAsk

LEMMA AnswersAreForeign ==
  ASSUME NEW h, NEW m \in Message, m.kind \notin {"request", "release"}
  PROVE  ~About(m, h)
  BY DEF About, Requests, Releases

(* What a step may do to handle h: leave it where it is, grant its call,   *)
(* or drop it and say so.                                                  *)
SameLists(h) ==
  \A n \in Nifs : /\ h \in active'[n] <=> h \in active[n]
                  /\ h \in inactive'[n] <=> h \in inactive[n]

LeavesAlone(h) ==
  /\ modem'[h] = modem[h]
  /\ SameLists(h)
  /\ \A n \in Nifs : h \in active[n] =>
       \/ state'[n] = state[n]
       \/ state[n] \in {"PENDING", "RELEASING"} /\ state'[n] \in {"PENDING", "RELEASING"}

Grants(h) ==
  /\ SameLists(h)
  /\ \E n \in Nifs : h \in active[n] /\ state[n] = "PENDING" /\ state'[n] = "ACQUIRED"
  /\ modem'[h] = IF modem[h] = "opening" THEN "open" ELSE modem[h]

Drops(h) ==
  /\ \E n \in Nifs : Listed(n, h)
  /\ \A n \in Nifs : h \notin active'[n] /\ h \notin inactive'[n]
  /\ modem'[h] = "idle"

LEMMA HandleStaysFollowed ==
  ASSUME IInv, NEW h \in Handles, HandleFollowed(h), SameFor(h, queue', queue),
         LeavesAlone(h) \/ Grants(h) \/ Drops(h)
  PROVE  HandleFollowed(h)'
<1>1. modem[h] \in ModemState
  BY DEF IInv, TypeOK
<1>2. CASE LeavesAlone(h)
  <2>1. modem'[h] = modem[h] /\ SameLists(h)
    BY <1>2 DEF LeavesAlone
  <2>2. \A n \in Nifs : Listed(n, h)' <=> Listed(n, h)
    BY <2>1 DEF SameLists, Listed
  <2>3. \A n \in Nifs : h \in active[n] =>
          /\ state[n] = "ACQUIRED" => state'[n] = "ACQUIRED"
          /\ state[n] \in {"PENDING", "RELEASING"} => state'[n] \in {"PENDING", "RELEASING"}
    BY <1>2 DEF LeavesAlone
  <2> QED
    BY <2>1, <2>2, <2>3 DEF HandleFollowed, SameFor, SameLists, Unlisted
<1>3. CASE Grants(h)
  <2>1. PICK n \in Nifs : h \in active[n] /\ state[n] = "PENDING" /\ state'[n] = "ACQUIRED"
    BY <1>3 DEF Grants
  <2>2. SameLists(h) /\ \A m \in Nifs : Listed(m, h)' <=> Listed(m, h)
    BY <1>3 DEF Grants, SameLists, Listed
  <2>3. modem[h] \in {"opening", "closing"}
    <3>1. Listed(n, h)
      BY <2>1 DEF Listed
    <3>2. \A m \in Nifs : h \in active[m] => m = n
      BY <3>1 DEF HandleFollowed, Listed
    <3> QED
      BY <1>1, <2>1, <3>1, <3>2 DEF HandleFollowed, Unlisted, ModemState
  <2>4. ~Has(queue, Requests(h))
    BY <2>1, <2>3 DEF HandleFollowed, Unlisted, Listed
  <2>5. CASE modem[h] = "opening"
    <3>1. modem'[h] = "open" /\ ~WillClose(queue, h)
      BY <1>3, <2>1, <2>5 DEF Grants, HandleFollowed, Unlisted, Listed
    <3> QED
      BY <2>1, <2>2, <2>4, <3>1 DEF HandleFollowed, SameFor, SameLists
  <2>6. CASE modem[h] = "closing"
    <3>1. modem'[h] = "closing"
      BY <1>3, <2>6 DEF Grants
    <3>2. \/ WillClose(queue, h)
          \/ \E m \in Nifs : h \in inactive[m]
      BY <2>4, <2>6 DEF HandleFollowed, Asked
    <3> QED
      BY <2>1, <2>2, <2>4, <3>1, <3>2 DEF HandleFollowed, SameFor, SameLists
  <2> QED
    BY <2>3, <2>5, <2>6
<1>4. CASE Drops(h)
  <2>1. ~Has(queue, Requests(h))
    BY <1>1, <1>4 DEF Drops, HandleFollowed, Unlisted, ModemState
  <2>2. \A n \in Nifs : ~Listed(n, h)'
    BY <1>4 DEF Drops, Listed
  <2>3. modem'[h] = "idle"
    BY <1>4 DEF Drops
  <2> QED
    BY <2>1, <2>2, <2>3 DEF HandleFollowed, SameFor, Unlisted
<1> QED
  BY <1>2, <1>3, <1>4

(* Each event of a machine, for a handle it is not about.                  *)
LEMMA SubscribeOther ==
  ASSUME IInv, NEW n \in Nifs, NEW g \in Handles, NEW q, Subscribe(n, g, q, fw),
         NEW h \in Handles, h # g
  PROVE  LeavesAlone(h)
<1>1. SameLists(h)
  <2>1. \/ UNCHANGED <<active, inactive>>
        \/ /\ active' = [active EXCEPT ![n] = active[n] \union {g}]
           /\ inactive' = [inactive EXCEPT ![n] = inactive[n]]
    BY DEF Subscribe, SetSubscribers
  <2>2. \A m \in Nifs : /\ (active'[m] = active[m] \/ active'[m] = active[m] \union {g})
                         /\ inactive'[m] = inactive[m]
    BY <2>1 DEF IInv, TypeOK
  <2> QED
    BY <2>2 DEF SameLists
<1>2. modem'[h] = modem[h]
  BY DEF Subscribe, OpenStatus, IInv, TypeOK
<1>3. \A m \in Nifs : \/ state'[m] = state[m]
                      \/ m = n /\ state[m] = "RELEASED"
  BY DEF Subscribe, Become, IInv, TypeOK
<1>4. \A m \in Nifs : h \in active[m] => state[m] # "RELEASED"
  BY DEF IInv, SubscribersMatchState
<1> QED
  BY <1>1, <1>2, <1>3, <1>4 DEF LeavesAlone

LEMMA UnsubscribeOther ==
  ASSUME IInv, NEW n \in Nifs, NEW g \in Handles, NEW q, Unsubscribe(n, g, q, fw),
         NEW h \in Handles, h # g
  PROVE  LeavesAlone(h)
<1>1. SameLists(h)
  BY DEF Unsubscribe, SetSubscribers, SameLists, IInv, TypeOK
<1>2. modem'[h] = modem[h]
  BY DEF Unsubscribe, IInv, TypeOK
<1>3. \A m \in Nifs : \/ state'[m] = state[m]
                      \/ m = n /\ active[m] \subseteq {g}
  BY DEF Unsubscribe, Become, IInv, TypeOK
<1> QED
  BY <1>1, <1>2, <1>3 DEF LeavesAlone

LEMMA GrantedHandles ==
  ASSUME IInv, NEW n \in Nifs, NEW q, Granted(n, q), NEW h \in Handles
  PROVE  LeavesAlone(h) \/ Grants(h)
<1>1. SameLists(h)
  BY DEF Granted, SameLists
<1>2. CASE state[n] = "PENDING"
  <2>1. state' = [state EXCEPT ![n] = "ACQUIRED"] /\ OpenStatus(active[n], TRUE)
    BY <1>2 DEF Granted, Become
  <2>2. modem'[h] = IF h \in active[n] /\ modem[h] = "opening" THEN "open" ELSE modem[h]
    BY <2>1 DEF OpenStatus
  <2>3. state'[n] = "ACQUIRED" /\ \A m \in Nifs : m # n => state'[m] = state[m]
    BY <2>1 DEF IInv, TypeOK
  <2>4. CASE h \in active[n]
    BY <1>1, <1>2, <2>2, <2>3, <2>4 DEF Grants
  <2>5. CASE h \notin active[n]
    BY <1>1, <2>2, <2>3, <2>5 DEF LeavesAlone
  <2> QED
    BY <2>4, <2>5
<1>3. CASE state[n] # "PENDING"
  BY <1>1, <1>3 DEF Granted, LeavesAlone
<1> QED
  BY <1>2, <1>3

LEMMA ReleaseCompleteHandles ==
  ASSUME IInv, NEW n \in Nifs, NEW q, NEW f, state[n] = "RELEASING",
         ReleaseComplete(n, q, f), NEW h \in Handles, HandleFollowed(h)
  PROVE  LeavesAlone(h) \/ Drops(h)
<1>1. /\ modem'[h] = IF h \in inactive[n] THEN "idle" ELSE modem[h]
      /\ active' = [active EXCEPT ![n] = active[n]]
      /\ inactive' = [inactive EXCEPT ![n] = {}]
      /\ \E s \in {"PENDING", "RELEASED"} :
           state' = [state EXCEPT ![n] = s] /\ (s = "RELEASED" => active[n] = {})
  BY DEF ReleaseComplete, CloseStatus, SetSubscribers, Become
<1>2. /\ \A m \in Nifs : m # n => inactive'[m] = inactive[m] /\ state'[m] = state[m]
      /\ \A m \in Nifs : active'[m] = active[m]
      /\ inactive'[n] = {}
      /\ active[n] # {} => state'[n] = "PENDING"
  BY <1>1 DEF IInv, TypeOK
<1>3. CASE h \in inactive[n]
  <2>1. Listed(n, h) /\ h \notin active[n] /\ modem'[h] = "idle"
    BY <1>1, <1>3 DEF Listed, IInv, SubscribersMatchState
  <2>2. \A m \in Nifs : m # n => ~Listed(m, h)
    BY <2>1 DEF HandleFollowed
  <2>3. \A m \in Nifs : h \notin active'[m] /\ h \notin inactive'[m]
    BY <1>2, <2>1, <2>2 DEF Listed
  <2> QED
    BY <2>1, <2>3 DEF Drops
<1>4. CASE h \notin inactive[n]
  <2>1. SameLists(h) /\ modem'[h] = modem[h]
    BY <1>1, <1>2, <1>4 DEF SameLists
  <2> QED
    BY <1>2, <2>1 DEF LeavesAlone
<1> QED
  BY <1>3, <1>4

(* A machine that drops every subscriber, and tells each so.               *)
LEMMA DropAllHandles ==
  ASSUME IInv, NEW n \in Nifs, state[n] \in {"PENDING", "ACQUIRED"},
         Become(n, "RELEASED"), SetSubscribers(n, {}, {}),
         NEW h \in Handles, HandleFollowed(h),
         modem'[h] = IF Listed(n, h) THEN "idle" ELSE modem[h]
  PROVE  LeavesAlone(h) \/ Drops(h)
<1>1. /\ \A m \in Nifs : m # n => /\ active'[m] = active[m] /\ inactive'[m] = inactive[m]
                                  /\ state'[m] = state[m]
      /\ active'[n] = {} /\ inactive'[n] = {}
  BY DEF Become, SetSubscribers, IInv, TypeOK
<1>2. CASE Listed(n, h)
  <2>1. \A m \in Nifs : m # n => ~Listed(m, h)
    BY <1>2 DEF HandleFollowed
  <2> QED
    BY <1>1, <1>2, <2>1 DEF Drops, Listed
<1>3. CASE ~Listed(n, h)
  BY <1>1, <1>3 DEF LeavesAlone, SameLists, Listed
<1> QED
  BY <1>2, <1>3

LEMMA ReleasedHandles ==
  ASSUME IInv, NEW n \in Nifs, NEW q, NEW f, Released(n, q, f),
         NEW h \in Handles, HandleFollowed(h)
  PROVE  LeavesAlone(h) \/ Drops(h)
<1>1. CASE /\ state[n] = "ACQUIRED"
           /\ Become(n, "RELEASED")
           /\ CloseStatus(active[n] \union inactive[n])
           /\ SetSubscribers(n, {}, {})
  <2>1. modem'[h] = IF Listed(n, h) THEN "idle" ELSE modem[h]
    BY <1>1 DEF CloseStatus, Listed
  <2> QED
    BY <1>1, <2>1, DropAllHandles
<1>2. CASE state[n] = "RELEASING" /\ ReleaseComplete(n, q, f)
  BY <1>2, ReleaseCompleteHandles
<1>3. CASE UNCHANGED <<smVars, modem>>
  BY <1>3 DEF LeavesAlone, SameLists, smVars
<1> QED
  BY <1>1, <1>2, <1>3 DEF Released

LEMMA DeniedHandles ==
  ASSUME IInv, NEW n \in Nifs, NEW q, Denied(n, q),
         NEW h \in Handles, HandleFollowed(h)
  PROVE  LeavesAlone(h) \/ Drops(h)
<1>1. CASE /\ state[n] = "PENDING"
           /\ Become(n, "RELEASED")
           /\ OpenStatus(active[n] \union inactive[n], FALSE)
           /\ SetSubscribers(n, {}, {})
  <2>1. modem'[h] = IF Listed(n, h) THEN "idle" ELSE modem[h]
    BY <1>1 DEF OpenStatus, Listed
  <2> QED
    BY <1>1, <2>1, DropAllHandles
<1>2. CASE state[n] = "RELEASING" /\ ReleaseComplete(n, q, fw)
  BY <1>2, ReleaseCompleteHandles
<1>3. CASE UNCHANGED <<smVars, modem>>
  BY <1>3 DEF LeavesAlone, SameLists, smVars
<1> QED
  BY <1>1, <1>2, <1>3 DEF Denied

(* A machine's event leaves on the adapter's queue what it was given, with *)
(* at most the native handler's answer behind it.                          *)
Leaves(q)    == queue' = q \/ \E m \in DataConnMsg : queue' = Append(q, m)
LeftAlone(q) == queue' = q \/ \E m \in DataConnMsg : m.nif = Internet /\ queue' = Append(q, m)

LEMMA DataConnLeaves ==
  ASSUME NEW n \in Nifs, NEW cmd \in DataConnCmd, NEW q, NEW f,
         RequestOrReleaseDataConn(n, cmd, q, f) \/ NoDataConn(q, f)
  PROVE  LeftAlone(q)
<1>1. NativeAnswer(cmd) \in DataConnMsg /\ NativeAnswer(cmd).nif = Internet
  BY DEF NativeAnswer, DataConnMsg, Nifs
<1> QED
  BY <1>1 DEF RequestOrReleaseDataConn, NoDataConn, LeftAlone

LEMMA EventsLeave ==
  ASSUME NEW n \in Nifs, NEW h, NEW q, NEW f,
         \/ Subscribe(n, h, q, f) \/ Unsubscribe(n, h, q, f) \/ Granted(n, q)
         \/ Released(n, q, f) \/ Denied(n, q)
  PROVE  LeftAlone(q) /\ Leaves(q)
<1>1. "REQUEST" \in DataConnCmd /\ "RELEASE" \in DataConnCmd
  BY DEF DataConnCmd
<1>2. ASSUME NEW g, ReleaseComplete(n, q, g)
      PROVE  LeftAlone(q)
  BY <1>1, <1>2, DataConnLeaves DEF ReleaseComplete
<1>3. ASSUME NEW g, NoDataConn(q, g)
      PROVE  LeftAlone(q)
  BY <1>3 DEF NoDataConn, LeftAlone
<1>4. Subscribe(n, h, q, f) => LeftAlone(q)
  BY <1>1, DataConnLeaves DEF Subscribe
<1>5. Unsubscribe(n, h, q, f) => LeftAlone(q)
  BY <1>1, DataConnLeaves DEF Unsubscribe
<1>6. Granted(n, q) \/ Released(n, q, f) \/ Denied(n, q) => LeftAlone(q)
  BY <1>2, <1>3 DEF Granted, Released, Denied
<1>7. LeftAlone(q)
  BY <1>4, <1>5, <1>6
<1> QED
  BY <1>7 DEF LeftAlone, Leaves

LEMMA LeavesSame ==
  ASSUME NEW h, NEW q \in Seq(Message), Leaves(q)
  PROVE  SameFor(h, queue', q)
<1>1. CASE queue' = q
  BY <1>1 DEF SameFor
<1>2. CASE \E m \in DataConnMsg : queue' = Append(q, m)
  <2>1. PICK m \in DataConnMsg : queue' = Append(q, m)
    BY <1>2
  <2>2. m \in Message /\ m.kind \notin {"request", "release"}
    BY DEF Message, DataConnMsg
  <2> QED
    BY <2>1, <2>2, AnswersAreForeign, AppendForeign
<1> QED
  BY <1>1, <1>2 DEF Leaves

(* A message taken from the queue that is not about handle h.              *)
LEMMA TakenForeign ==
  ASSUME TypeOK, queue # <<>>, NEW h, ~About(Head(queue), h), Leaves(Tail(queue))
  PROVE  SameFor(h, queue', queue)
<1>1. queue \in Seq(Message) /\ Tail(queue) \in Seq(Message)
  BY QueueHead DEF TypeOK
<1> QED
  BY <1>1, LeavesSame, TailForeign DEF SameFor

(* What is left for handle h once its open request is taken.               *)
LEMMA TakenRequest ==
  ASSUME TypeOK, queue # <<>>, NEW h, Head(queue) \in Requests(h),
         Once(queue, Requests(h)), Leaves(Tail(queue))
  PROVE  /\ ~Has(queue', Requests(h))
         /\ WillClose(queue', h) <=> ClosesAfterAsk(queue, h)
<1>1. queue \in Seq(Message) /\ Tail(queue) \in Seq(Message)
  BY QueueHead DEF TypeOK
<1>2. ~Has(Tail(queue), Requests(h))
  BY <1>1, TailOnce
<1>3. ~Before(Tail(queue), Requests(h), Releases(h))
  BY <1>2 DEF Has, Before
<1>4. ClosesAfterAsk(queue, h) <=> WillClose(Tail(queue), h)
  BY <1>1, <1>3, TailBefore DEF ClosesAfterAsk, WillClose
<1> QED
  BY <1>1, <1>2, <1>4, LeavesSame DEF SameFor

(* ... and once a close request of its own is taken.                       *)
LEMMA TakenRelease ==
  ASSUME TypeOK, queue # <<>>, NEW h, Head(queue) \in Releases(h), Leaves(Tail(queue))
  PROVE  /\ Has(queue', Requests(h)) <=> Has(queue, Requests(h))
         /\ Asked(queue', h) <=> Asked(queue, h)
         /\ ClosesAfterAsk(queue', h) <=> ClosesAfterAsk(queue, h)
<1>1. queue \in Seq(Message) /\ Tail(queue) \in Seq(Message)
  BY QueueHead DEF TypeOK
<1>2. Head(queue) \notin Requests(h)
  BY DEF Requests, Releases
<1> QED
  BY <1>1, <1>2, LeavesSame, TailHas, TailOnce, TailBefore DEF SameFor, Asked, ClosesAfterAsk

LEMMA RequestATLFollows ==
  ASSUME IInv, HandlesFollowed, RequestATL
  PROVE  HandlesFollowed'
<1> SUFFICES ASSUME NEW n, NEW g, NEW q,
                    n = Head(queue).nif, g = Head(queue).handle, q = Tail(queue)
             PROVE  HandlesFollowed'
  OBVIOUS
<1>1. n \in Nifs /\ g \in Handles /\ q \in Seq(Message) /\ queue # <<>> /\ Head(queue) \in Requests(g)
  BY ReceivesType, QueueHead DEF IInv, RequestATL, Receives, Requests
<1>2. \/ n \in created /\ Subscribe(n, g, q, fw)
      \/ OpenStatus({g}, FALSE) /\ NoDataConn(q, fw) /\ UNCHANGED smVars
  BY DEF RequestATL
<1>3. Leaves(q)
  BY <1>1, <1>2, EventsLeave DEF NoDataConn, Leaves
<1>4. ASSUME NEW h \in Handles, h # g
      PROVE  HandleFollowed(h)'
  <2>1. ~About(Head(queue), h)
    BY <1>1, <1>4 DEF About, Requests, Releases
  <2>2. SameFor(h, queue', queue)
    BY <1>1, <1>3, <2>1, TakenForeign DEF IInv
  <2>3. LeavesAlone(h)
    <3>1. CASE Subscribe(n, g, q, fw)
      BY <1>1, <1>4, <3>1, SubscribeOther
    <3>2. CASE OpenStatus({g}, FALSE) /\ UNCHANGED smVars
      BY <1>4, <3>2 DEF OpenStatus, smVars, LeavesAlone, SameLists
    <3> QED
      BY <1>2, <3>1, <3>2
  <2> QED
    BY <2>2, <2>3, HandleStaysFollowed DEF HandlesFollowed
<1>5. HandleFollowed(g)'
  <2>1. HandleFollowed(g) /\ modem[g] \in ModemState /\ Has(queue, Requests(g))
    BY <1>1, TailHas DEF HandlesFollowed, IInv, TypeOK
  <2>2. Asked(queue, g) /\ Unlisted(g) /\ modem[g] \in {"opening", "closing"}
        /\ (modem[g] = "opening" <=> ~ClosesAfterAsk(queue, g))
    BY <2>1 DEF HandleFollowed, ModemState
  <2>3. ~Has(queue', Requests(g)) /\ (WillClose(queue', g) <=> ClosesAfterAsk(queue, g))
    BY <1>1, <1>3, <2>2, TakenRequest DEF IInv, Asked
  <2>4. CASE OpenStatus({g}, FALSE) /\ UNCHANGED smVars
    <3>1. modem'[g] = "idle" /\ \A m \in Nifs : ~Listed(m, g)'
      BY <1>1, <2>2, <2>4 DEF OpenStatus, smVars, Listed, Unlisted
    <3> QED
      BY <2>3, <3>1 DEF HandleFollowed, Unlisted
  <2>5. CASE Subscribe(n, g, q, fw)
    <3>1. /\ active' = [active EXCEPT ![n] = active[n] \union {g}]
          /\ inactive' = [inactive EXCEPT ![n] = inactive[n]]
      BY <1>1, <2>2, <2>5 DEF Subscribe, SetSubscribers, Unlisted
    <3>2. g \in active'[n] /\ \A m \in Nifs : Listed(m, g)' => m = n
      BY <1>1, <2>2, <3>1 DEF Listed, Unlisted, IInv, TypeOK
    <3>3. CASE state[n] = "ACQUIRED"
      <4>1. state' = state /\ modem'[g] = IF modem[g] = "opening" THEN "open" ELSE modem[g]
        BY <1>1, <2>5, <3>3 DEF Subscribe, OpenStatus
      <4> QED
        BY <1>1, <2>2, <2>3, <3>2, <3>3, <4>1 DEF HandleFollowed
    <3>4. CASE state[n] # "ACQUIRED"
      <4>1. modem' = modem /\ state'[n] \in {"PENDING", "RELEASING"}
        BY <1>1, <2>5, <3>4 DEF Subscribe, Become, IInv, TypeOK
      <4> QED
        BY <1>1, <2>2, <2>3, <3>2, <4>1 DEF HandleFollowed
    <3> QED
      BY <3>3, <3>4
  <2> QED
    BY <1>2, <2>4, <2>5
<1> QED
  BY <1>4, <1>5 DEF HandlesFollowed

LEMMA ReleaseATLFollows ==
  ASSUME IInv, HandlesFollowed, ReleaseATL
  PROVE  HandlesFollowed'
<1> SUFFICES ASSUME NEW g, NEW q, g = Head(queue).handle, q = Tail(queue)
             PROVE  HandlesFollowed'
  OBVIOUS
<1>1. g \in Handles /\ q \in Seq(Message) /\ queue # <<>> /\ Head(queue) \in Releases(g)
  BY ReceivesType, QueueHead DEF IInv, ReleaseATL, Receives, Releases
<1>2. \/ \E n \in Nifs : Listed(n, g) /\ Unsubscribe(n, g, q, fw)
      \/ Unlisted(g) /\ NoDataConn(q, fw) /\ UNCHANGED <<smVars, modem>>
  BY DEF ReleaseATL, Nifs, Unlisted
<1>3. Leaves(q)
  BY <1>1, <1>2, EventsLeave DEF NoDataConn, Leaves
<1>4. ASSUME NEW h \in Handles, h # g
      PROVE  HandleFollowed(h)'
  <2>1. ~About(Head(queue), h)
    BY <1>1, <1>4 DEF About, Requests, Releases
  <2>2. SameFor(h, queue', queue)
    BY <1>1, <1>3, <2>1, TakenForeign DEF IInv
  <2>3. LeavesAlone(h)
    <3>1. CASE \E n \in Nifs : Unsubscribe(n, g, q, fw)
      BY <1>1, <1>4, <3>1, UnsubscribeOther
    <3>2. CASE UNCHANGED <<smVars, modem>>
      BY <3>2 DEF smVars, LeavesAlone, SameLists
    <3> QED
      BY <1>2, <3>1, <3>2
  <2> QED
    BY <2>2, <2>3, HandleStaysFollowed DEF HandlesFollowed
<1>5. HandleFollowed(g)'
  <2>1. HandleFollowed(g) /\ modem[g] \in ModemState /\ WillClose(queue, g)
    BY <1>1, TailHas DEF HandlesFollowed, IInv, TypeOK, WillClose
  <2>2. /\ Has(queue', Requests(g)) <=> Has(queue, Requests(g))
        /\ Asked(queue', g) <=> Asked(queue, g)
        /\ ClosesAfterAsk(queue', g) <=> ClosesAfterAsk(queue, g)
    BY <1>1, <1>3, TakenRelease DEF IInv
  <2>3. CASE Unlisted(g) /\ UNCHANGED <<smVars, modem>>
    <3>1. modem'[g] = modem[g] /\ \A m \in Nifs : ~Listed(m, g)' /\ ~Listed(m, g)
      BY <2>3 DEF smVars, Listed, Unlisted
    <3>2. \A m \in Nifs : g \notin active[m] /\ g \notin inactive[m]
      BY <3>1 DEF Listed
    <3> QED
      BY <2>1, <2>2, <3>1, <3>2 DEF HandleFollowed, Unlisted
  <2>4. ASSUME NEW n \in Nifs, Listed(n, g), Unsubscribe(n, g, q, fw)
        PROVE  HandleFollowed(g)'
    <3>1. /\ active' = [active EXCEPT ![n] = active[n] \ {g}]
          /\ inactive' = [inactive EXCEPT ![n] = inactive[n] \union {g}]
          /\ modem'[g] = modem[g]
      BY <2>4 DEF Unsubscribe, SetSubscribers
    <3>2. g \in inactive'[n] /\ \A m \in Nifs : Listed(m, g)' => m = n
      BY <2>1, <2>4, <3>1 DEF Listed, HandleFollowed, IInv, TypeOK
    <3>3. modem[g] = "closing" /\ ~Has(queue, Requests(g))
      BY <2>1, <2>4 DEF HandleFollowed, Unlisted, ModemState
    <3> QED
      BY <2>2, <3>1, <3>2, <3>3 DEF HandleFollowed
  <2> QED
    BY <1>2, <2>3, <2>4
<1> QED
  BY <1>4, <1>5 DEF HandlesFollowed

LEMMA AnswersFollow ==
  ASSUME IInv, HandlesFollowed,
         AtlOpenSuccess \/ ReportAtlPdn \/ ReportAtlOpenFailed \/ ReportAtlClosed
  PROVE  HandlesFollowed'
<1> SUFFICES ASSUME NEW n, NEW q, n = Head(queue).nif, q = Tail(queue),
                    NEW h \in Handles
             PROVE  HandleFollowed(h)'
  BY DEF HandlesFollowed
<1>1. /\ n \in Nifs /\ q \in Seq(Message) /\ queue # <<>> /\ Head(queue) \in Message
      /\ Head(queue).kind \notin {"request", "release"}
  BY ReceivesType, QueueHead
  DEF IInv, AtlOpenSuccess, ReportAtlPdn, ReportAtlOpenFailed, ReportAtlClosed, Receives
<1>2. \/ NoDataConn(q, fw) /\ UNCHANGED <<smVars, modem>>
      \/ Granted(n, q) \/ Denied(n, q) \/ Released(n, q, fw)
  BY DEF AtlOpenSuccess, ReportAtlPdn, ReportAtlOpenFailed, ReportAtlClosed
<1>3. Leaves(q)
  BY <1>1, <1>2, EventsLeave DEF NoDataConn, Leaves
<1>4. SameFor(h, queue', queue)
  BY <1>1, <1>3, AnswersAreForeign, TakenForeign DEF IInv
<1>5. HandleFollowed(h)
  BY DEF HandlesFollowed
<1>6. LeavesAlone(h) \/ Grants(h) \/ Drops(h)
  <2>1. CASE UNCHANGED <<smVars, modem>>
    BY <2>1 DEF LeavesAlone, SameLists, smVars
  <2> QED
    BY <1>1, <1>2, <1>5, <2>1, GrantedHandles, DeniedHandles, ReleasedHandles
<1> QED
  BY <1>4, <1>5, <1>6, HandleStaysFollowed

LEMMA ModemRequestFollows ==
  ASSUME IInv, HandlesFollowed, NEW g \in Handles, NEW n \in Nifs, ModemRequest(g, n)
  PROVE  HandlesFollowed'
<1> DEFINE m == [kind |-> "request", nif |-> n, handle |-> g]
<1>1. m \in Requests(g) /\ m \notin Releases(g) /\ m \in Message /\ queue \in Seq(Message)
  BY DEF Requests, Releases, Message, RequestMsg, IInv, TypeOK
<1>2. /\ modem[g] = "idle" /\ modem' = [modem EXCEPT ![g] = "opening"]
      /\ queue' = Append(queue, m) /\ UNCHANGED smVars
  BY DEF ModemRequest
<1>3. \A h \in Handles : h # g => ~About(m, h)
  BY DEF About, Requests, Releases
<1> HIDE DEF m
<1>4. ASSUME NEW h \in Handles, h # g
      PROVE  HandleFollowed(h)'
  <2>1. SameFor(h, queue', queue)
    BY <1>1, <1>2, <1>3, <1>4, AppendForeign
  <2>2. LeavesAlone(h)
    BY <1>2, <1>4 DEF LeavesAlone, SameLists, smVars, IInv, TypeOK
  <2> QED
    BY <2>1, <2>2, HandleStaysFollowed DEF HandlesFollowed
<1>5. HandleFollowed(g)'
  <2>1. ~Has(queue, Requests(g)) /\ Unlisted(g)
    BY <1>2 DEF HandlesFollowed, HandleFollowed
  <2>2. Asked(queue', g)
    <3>1. Once(queue, Requests(g))
      BY <2>1 DEF Once, Has
    <3> QED
      BY <1>1, <1>2, <2>1, <3>1, AppendHas, AppendOnce DEF Asked
  <2>3. ~ClosesAfterAsk(queue', g)
    <3>1. ~Before(queue, Requests(g), Releases(g))
      BY <2>1 DEF Before, Has
    <3> QED
      BY <1>1, <1>2, <3>1, AppendBefore DEF ClosesAfterAsk
  <2>4. modem'[g] = "opening" /\ \A k \in Nifs : ~Listed(k, g)'
    BY <1>2, <2>1 DEF Unlisted, Listed, smVars, IInv, TypeOK
  <2> QED
    BY <2>2, <2>3, <2>4 DEF HandleFollowed, Unlisted
<1> QED
  BY <1>4, <1>5 DEF HandlesFollowed

LEMMA ModemReleaseFollows ==
  ASSUME IInv, HandlesFollowed, NEW g \in Handles, ModemRelease(g)
  PROVE  HandlesFollowed'
<1> DEFINE m == [kind |-> "release", handle |-> g]
<1>1. m \notin Requests(g) /\ m \in Releases(g) /\ m \in Message /\ queue \in Seq(Message)
  BY DEF Requests, Releases, Message, ReleaseMsg, IInv, TypeOK
<1>2. /\ modem[g] \in {"opening", "open"} /\ modem' = [modem EXCEPT ![g] = "closing"]
      /\ queue' = Append(queue, m) /\ UNCHANGED smVars
  BY DEF ModemRelease
<1>3. \A h \in Handles : h # g => ~About(m, h)
  BY DEF About, Requests, Releases
<1> HIDE DEF m
<1>4. ASSUME NEW h \in Handles, h # g
      PROVE  HandleFollowed(h)'
  <2>1. SameFor(h, queue', queue)
    BY <1>1, <1>2, <1>3, <1>4, AppendForeign
  <2>2. LeavesAlone(h)
    BY <1>2, <1>4 DEF LeavesAlone, SameLists, smVars, IInv, TypeOK
  <2> QED
    BY <2>1, <2>2, HandleStaysFollowed DEF HandlesFollowed
<1>5. HandleFollowed(g)'
  <2>1. modem'[g] = "closing" /\ \A k \in Nifs : Listed(k, g)' <=> Listed(k, g)
    BY <1>2 DEF Listed, smVars, IInv, TypeOK
  <2>2. /\ Has(queue', Requests(g)) <=> Has(queue, Requests(g))
        /\ Asked(queue', g) <=> Asked(queue, g)
        /\ WillClose(queue', g)
        /\ Has(queue, Requests(g)) => ClosesAfterAsk(queue', g)
    BY <1>1, <1>2, AppendHas, AppendOnce, AppendBefore DEF Asked, WillClose, ClosesAfterAsk
  <2>3. \/ Asked(queue, g) /\ Unlisted(g)
        \/ ~Has(queue, Requests(g)) /\ \E n \in Nifs : g \in active[n]
    BY <1>2 DEF HandlesFollowed, HandleFollowed
  <2>4. \A k, l \in Nifs : Listed(k, g) /\ Listed(l, g) => k = l
    BY DEF HandlesFollowed, HandleFollowed
  <2>5. CASE Asked(queue, g) /\ Unlisted(g)
    BY <2>1, <2>2, <2>4, <2>5 DEF HandleFollowed, Unlisted, Asked
  <2>6. CASE ~Has(queue, Requests(g)) /\ \E n \in Nifs : g \in active[n]
    <3>1. \E n \in Nifs : g \in active'[n]
      BY <1>2, <2>6 DEF smVars
    <3> QED
      BY <2>1, <2>2, <2>4, <2>6, <3>1 DEF HandleFollowed
  <2> QED
    BY <2>3, <2>5, <2>6
<1> QED
  BY <1>4, <1>5 DEF HandlesFollowed

LEMMA ProvidersFollow ==
  ASSUME IInv, HandlesFollowed,
         \/ ReportPdnTypeFromWds \/ FrameworkServes \/ FrameworkLoses \/ NotifyNetwork
         \/ \E n \in Nifs : CreateStateMachine(n)
         \/ UNCHANGED vars
  PROVE  HandlesFollowed'
<1> SUFFICES ASSUME NEW h \in Handles
             PROVE  HandleFollowed(h)'
  BY DEF HandlesFollowed
<1>1. queue \in Seq(Message) /\ HandleFollowed(h) /\ Agnss \in Nifs
  BY DEF IInv, TypeOK, HandlesFollowed, Nifs
<1>2. CASE FrameworkOpensBadApn
  <2>1. Released(Agnss, queue, Tail(fw))
    BY <1>2 DEF FrameworkOpensBadApn
  <2> QED
    BY <1>1, <2>1, EventsLeave, LeavesSame, ReleasedHandles, HandleStaysFollowed
<1>3. CASE UNCHANGED <<smVars, modem>> /\ Leaves(queue)
  <2>1. LeavesAlone(h)
    BY <1>3 DEF smVars, LeavesAlone, SameLists
  <2> QED
    BY <1>1, <1>3, <2>1, LeavesSame, HandleStaysFollowed
<1>4. CASE ReportPdnTypeFromWds
  <2>1. Head(wds) \in Nifs
    BY <1>4 DEF ReportPdnTypeFromWds, IInv, TypeOK
  <2>2. [kind |-> "pdn", nif |-> Head(wds)] \in DataConnMsg
    BY <2>1 DEF DataConnMsg
  <2>3. Leaves(queue)
    BY <1>4, <2>2 DEF ReportPdnTypeFromWds, Leaves
  <2> QED
    BY <1>3, <1>4, <2>3 DEF ReportPdnTypeFromWds
<1>5. CASE FrameworkOpens \/ FrameworkFails \/ FrameworkCloses \/ FrameworkLoses
  <2>1. \A k \in {"open", "failed", "closed"} : [kind |-> k, nif |-> Agnss] \in DataConnMsg
    BY <1>1 DEF DataConnMsg
  <2>2. PICK k \in {"open", "failed", "closed"} : Answer(k)
    BY <1>5 DEF FrameworkOpens, FrameworkFails, FrameworkCloses, FrameworkLoses
  <2>3. Leaves(queue)
    BY <2>1, <2>2 DEF Answer, Leaves
  <2> QED
    BY <1>3, <1>5, <2>3 DEF FrameworkOpens, FrameworkFails, FrameworkCloses, FrameworkLoses
<1>6. CASE NotifyNetwork \/ (\E n \in Nifs : CreateStateMachine(n)) \/ UNCHANGED vars
  BY <1>3, <1>6 DEF NotifyNetwork, CreateStateMachine, vars, Leaves
<1> QED
  BY <1>2, <1>4, <1>5, <1>6 DEF FrameworkServes

LEMMA HandlesFollowedInit == Init => HandlesFollowed
<1> SUFFICES ASSUME Init, NEW h \in Handles
             PROVE  HandleFollowed(h)
  BY DEF HandlesFollowed
<1>1. modem[h] = "idle" /\ \A n \in Nifs : ~Listed(n, h)
  BY DEF Init, Listed
<1>2. queue = <<>> /\ DOMAIN queue = {}
  BY DEF Init
<1>3. ~Has(queue, Requests(h))
  BY <1>2 DEF Has
<1> QED
  BY <1>1, <1>3 DEF HandleFollowed, Unlisted

LEMMA HandlesFollowedStep == IInv /\ HandlesFollowed /\ [Next]_vars => HandlesFollowed'
<1> SUFFICES ASSUME IInv, HandlesFollowed, [Next]_vars
             PROVE  HandlesFollowed'
  OBVIOUS
<1> QED
  BY RequestATLFollows, ReleaseATLFollows, AnswersFollow, ModemRequestFollows,
     ModemReleaseFollows, ProvidersFollow
  DEF Next, AdapterStep

LEMMA FollowedMatches ==
  ASSUME IInv, HandlesFollowed
  PROVE  ModemViewMatches
<1> SUFFICES ASSUME NEW h \in Handles
             PROVE  /\ modem[h] = "opening" =>
                         \/ Queued("request", h)
                         \/ \E n \in Nifs : h \in active[n] /\ state[n] \in {"PENDING", "RELEASING"}
                    /\ modem[h] = "open" =>
                         \E n \in Nifs : h \in active[n] /\ state[n] = "ACQUIRED"
                    /\ modem[h] = "closing" =>
                         Queued("release", h) \/ \E n \in Nifs : h \in inactive[n]
                    /\ modem[h] = "idle" => \A n \in Nifs : ~Listed(n, h)
  BY DEF ModemViewMatches
<1>1. Has(queue, Requests(h)) => Queued("request", h)
  BY DEF Has, Requests, Queued
<1>2. WillClose(queue, h) => Queued("release", h)
  BY DEF Has, Releases, Queued, WillClose
<1>3. ClosesAfterAsk(queue, h) => WillClose(queue, h)
  BY DEF ClosesAfterAsk, WillClose, Before, Has
<1> QED
  BY <1>1, <1>2, <1>3 DEF HandlesFollowed, HandleFollowed, Asked, Unlisted

-----------------------------------------------------------------------------
(* The framework's view, on a steady network.                              *)
Reports(kind) == {m \in Message : m.kind = kind /\ m.nif = Agnss}

(* A grant is on its way to the SUPL machine.                              *)
Granting == \/ Has(queue, Reports("open"))
            \/ Has(queue, Reports("pdn"))
            \/ Has(wds, {Agnss})

(* What the framework was asked for and has not answered, by the machine's *)
(* state.  A grant may be late (of a connection released since), and be    *)
(* taken for the one the machine waits for; no close ever is.              *)
Connection ==
  /\ ~Has(queue, Reports("failed"))
  /\ state[Agnss] # "RELEASING" => ~Has(queue, Reports("closed"))
  /\ state[Agnss] = "RELEASED" => fw = <<>> /\ ~fwUp
  /\ state[Agnss] = "PENDING" =>
       \/ fw = <<"REQUEST">> /\ ~fwUp
       \/ fw = <<>> /\ fwUp /\ Granting
  /\ state[Agnss] = "ACQUIRED" =>
       \/ fw = <<"REQUEST">> /\ ~fwUp
       \/ fw = <<>> /\ fwUp
  /\ state[Agnss] = "RELEASING" =>
       \/ /\ Len(fw) = 2 /\ fw[1] = "REQUEST" /\ fw[2] = "RELEASE"
          /\ ~fwUp /\ ~Has(queue, Reports("closed"))
       \/ fw = <<"RELEASE">> /\ fwUp /\ ~Has(queue, Reports("closed"))
       \/ /\ fw = <<>> /\ ~fwUp
          /\ Has(queue, Reports("closed")) /\ Once(queue, Reports("closed"))

ConnectionFollowed == network = "steady" => Connection

(* A step that brings no news of the SUPL machine's connection.            *)
Quiet ==
  /\ state'[Agnss] = state[Agnss] /\ fw' = fw /\ fwUp' = fwUp
  /\ Has(queue', Reports("failed")) <=> Has(queue, Reports("failed"))
  /\ Has(queue', Reports("closed")) <=> Has(queue, Reports("closed"))
  /\ Once(queue, Reports("closed")) => Once(queue', Reports("closed"))
  /\ state[Agnss] = "PENDING" /\ Granting => Granting'

LEMMA QuietKeepsConnection == Connection /\ Quiet => Connection'
  BY DEF Connection, Quiet

(* What a machine's event leaves of the reports on queue q.                *)
LEMMA EventReports ==
  ASSUME NEW q \in Seq(Message), LeftAlone(q), NEW k
  PROVE  /\ Has(queue', Reports(k)) <=> Has(q, Reports(k))
         /\ Once(queue', Reports(k)) <=> Once(q, Reports(k))
<1>1. CASE queue' = q
  BY <1>1
<1>2. CASE \E m \in DataConnMsg : m.nif = Internet /\ queue' = Append(q, m)
  <2>1. PICK m \in DataConnMsg : m.nif = Internet /\ queue' = Append(q, m)
    BY <1>2
  <2>2. m \in Message /\ m \notin Reports(k)
    BY <2>1 DEF Message, Reports, Internet, Agnss
  <2> QED
    BY <2>1, <2>2, AppendHas, AppendOnce
<1> QED
  BY <1>1, <1>2 DEF LeftAlone

(* ... and what taking the head of the queue does to them.                 *)
LEMMA TakenReports ==
  ASSUME TypeOK, queue # <<>>, LeftAlone(Tail(queue)), NEW k
  PROVE  /\ Has(queue, Reports(k)) <=> Has(queue', Reports(k)) \/ Head(queue) \in Reports(k)
         /\ Once(queue, Reports(k)) <=>
              Once(queue', Reports(k)) /\ (Head(queue) \in Reports(k) => ~Has(queue', Reports(k)))
<1>1. queue \in Seq(Message) /\ Tail(queue) \in Seq(Message)
  BY QueueHead DEF TypeOK
<1> QED
  BY <1>1, EventReports, TailHas, TailOnce

(* A message that is no report for the SUPL machine, taken by another.     *)
LEMMA TakenQuiet ==
  ASSUME TypeOK, queue # <<>>, LeftAlone(Tail(queue)),
         \A k : Head(queue) \notin Reports(k),
         state'[Agnss] = state[Agnss], fw' = fw, fwUp' = fwUp,
         Has(wds, {Agnss}) => Has(wds', {Agnss})
  PROVE  Quiet
  BY TakenReports DEF Quiet, Granting

LEMMA AddedQuiet ==
  ASSUME TypeOK, NEW m \in Message, queue' = Append(queue, m) \/ queue' = queue,
         m \notin Reports("failed"), m \notin Reports("closed"),
         state'[Agnss] = state[Agnss], fw' = fw, fwUp' = fwUp,
         Has(wds, {Agnss}) => Has(wds', {Agnss}) \/ (queue' = Append(queue, m) /\ m \in Reports("pdn"))
  PROVE  Quiet
<1>1. queue \in Seq(Message)
  BY DEF TypeOK
<1>2. ASSUME NEW k
      PROVE  /\ Has(queue', Reports(k)) <=>
                  Has(queue, Reports(k)) \/ (queue' = Append(queue, m) /\ m \in Reports(k))
             /\ m \notin Reports(k) => (Once(queue, Reports(k)) => Once(queue', Reports(k)))
  <2>1. CASE queue' = queue
    BY <2>1
  <2>2. CASE queue' = Append(queue, m)
    BY <1>1, <2>2, AppendHas, AppendOnce
  <2> QED
    BY <2>1, <2>2
<1> QED
  BY <1>2 DEF Quiet, Granting

(* The events of the internet machine do not touch the SUPL one.           *)
LEMMA InternetQuiet ==
  ASSUME TypeOK, NEW h, NEW q,
         \/ Subscribe(Internet, h, q, fw) \/ Unsubscribe(Internet, h, q, fw)
         \/ Granted(Internet, q) \/ Released(Internet, q, fw) \/ Denied(Internet, q)
  PROVE  state'[Agnss] = state[Agnss] /\ fw' = fw
<1>1. Agnss \in Nifs /\ Internet \in Nifs /\ Agnss # Internet
  BY DEF Nifs, Agnss, Internet
<1>2. \A s : Become(Internet, s) => state'[Agnss] = state[Agnss]
  BY <1>1 DEF Become, TypeOK
<1>3. \A cmd : RequestOrReleaseDataConn(Internet, cmd, q, fw) => fw' = fw
  BY DEF RequestOrReleaseDataConn
<1>4. NoDataConn(q, fw) => fw' = fw
  BY DEF NoDataConn
<1>5. ReleaseComplete(Internet, q, fw) => state'[Agnss] = state[Agnss] /\ fw' = fw
  BY <1>2, <1>3, <1>4 DEF ReleaseComplete
<1>6. CASE Subscribe(Internet, h, q, fw)
  BY <1>2, <1>3, <1>4, <1>6 DEF Subscribe
<1>7. CASE Unsubscribe(Internet, h, q, fw)
  BY <1>2, <1>3, <1>4, <1>7 DEF Unsubscribe
<1>8. CASE Granted(Internet, q) \/ Released(Internet, q, fw) \/ Denied(Internet, q)
  BY <1>2, <1>4, <1>5, <1>8 DEF Granted, Released, Denied, smVars
<1> QED
  BY <1>6, <1>7, <1>8

LEMMA RequestATLConnects ==
  ASSUME IInv, Connection, RequestATL
  PROVE  Connection'
<1> SUFFICES ASSUME NEW n, NEW g, NEW q,
                    n = Head(queue).nif, g = Head(queue).handle, q = Tail(queue)
             PROVE  Connection'
  OBVIOUS
<1>1. n \in Nifs /\ q \in Seq(Message) /\ queue # <<>> /\ TypeOK
      /\ \A k \in {"open", "pdn", "failed", "closed"} : Head(queue) \notin Reports(k)
  BY ReceivesType DEF IInv, RequestATL, Receives, Reports
<1>2. \/ Subscribe(n, g, q, fw)
      \/ OpenStatus({g}, FALSE) /\ NoDataConn(q, fw) /\ UNCHANGED smVars
  BY DEF RequestATL
<1>3. fwUp' = fwUp /\ wds' = wds
  BY DEF RequestATL, envVars
<1>4. LeftAlone(q)
  BY <1>1, <1>2, EventsLeave DEF NoDataConn, LeftAlone
<1>5. \A k \in {"open", "pdn", "failed", "closed"} :
        /\ Has(queue', Reports(k)) <=> Has(queue, Reports(k))
        /\ Once(queue', Reports(k)) <=> Once(queue, Reports(k))
  BY <1>1, <1>4, TakenReports
<1>6. CASE state'[Agnss] = state[Agnss] /\ fw' = fw
  <2>1. Quiet
    BY <1>3, <1>5, <1>6 DEF Quiet, Granting
  <2> QED
    BY <2>1, QuietKeepsConnection
<1>7. CASE n = Agnss /\ Subscribe(n, g, q, fw)
  <2>1. CASE state[Agnss] = "RELEASED"
    <3>1. state'[Agnss] = "PENDING" /\ fw' = Append(fw, "REQUEST")
      BY <1>1, <1>7, <2>1 DEF Subscribe, Become, RequestOrReleaseDataConn, Agnss, Internet, TypeOK
    <3>2. fw = <<>> /\ ~fwUp
      BY <2>1 DEF Connection
    <3>3. fw' = <<"REQUEST">>
      BY <3>1, <3>2
    <3> QED
      BY <1>3, <1>5, <2>1, <3>1, <3>2, <3>3 DEF Connection
  <2>2. CASE state[Agnss] # "RELEASED"
    BY <1>6, <1>7, <2>2 DEF Subscribe, NoDataConn
  <2> QED
    BY <2>1, <2>2
<1> QED
  BY <1>1, <1>2, <1>6, <1>7, InternetQuiet DEF NoDataConn, smVars, Nifs

LEMMA ReleaseATLConnects ==
  ASSUME IInv, Connection, ReleaseATL
  PROVE  Connection'
<1> SUFFICES ASSUME NEW g, NEW q, g = Head(queue).handle, q = Tail(queue)
             PROVE  Connection'
  OBVIOUS
<1>1. q \in Seq(Message) /\ queue # <<>> /\ TypeOK
      /\ \A k \in {"open", "pdn", "failed", "closed"} : Head(queue) \notin Reports(k)
  BY ReceivesType DEF IInv, ReleaseATL, Receives, Reports
<1>2. \/ Unsubscribe(Agnss, g, q, fw)
      \/ Unsubscribe(Internet, g, q, fw)
      \/ NoDataConn(q, fw) /\ UNCHANGED <<smVars, modem>>
  BY DEF ReleaseATL
<1>3. fwUp' = fwUp /\ wds' = wds
  BY DEF ReleaseATL, envVars
<1>4. LeftAlone(q)
  BY <1>1, <1>2, EventsLeave DEF NoDataConn, LeftAlone, Nifs
<1>5. \A k \in {"open", "pdn", "failed", "closed"} :
        /\ Has(queue', Reports(k)) <=> Has(queue, Reports(k))
        /\ Once(queue', Reports(k)) <=> Once(queue, Reports(k))
  BY <1>1, <1>4, TakenReports
<1>6. CASE state'[Agnss] = state[Agnss] /\ fw' = fw
  <2>1. Quiet
    BY <1>3, <1>5, <1>6 DEF Quiet, Granting
  <2> QED
    BY <2>1, QuietKeepsConnection
<1>7. CASE Unsubscribe(Agnss, g, q, fw)
  <2>1. CASE state[Agnss] \in {"PENDING", "ACQUIRED"} /\ active[Agnss] \subseteq {g}
    <3>1. state'[Agnss] = "RELEASING" /\ fw' = Append(fw, "RELEASE")
      BY <1>1, <1>7, <2>1
      DEF Unsubscribe, Become, RequestOrReleaseDataConn, Agnss, Internet, Nifs, TypeOK
    <3>2. ~Has(queue', Reports("closed")) /\ ~Has(queue', Reports("failed"))
      BY <1>5, <2>1 DEF Connection
    <3>3. CASE fw = <<"REQUEST">> /\ ~fwUp
      <4>1. Len(fw') = 2 /\ fw'[1] = "REQUEST" /\ fw'[2] = "RELEASE" /\ ~fwUp'
        BY <1>3, <3>1, <3>3
      <4>2. state'[Agnss] # "RELEASED" /\ state'[Agnss] # "PENDING" /\ state'[Agnss] # "ACQUIRED"
        BY <3>1
      <4> QED
        BY <3>1, <3>2, <4>1, <4>2, Zenon DEF Connection
    <3>4. CASE fw = <<>> /\ fwUp
      <4>1. fw' = <<"RELEASE">>
        BY <3>1, <3>4
      <4> QED
        BY <1>3, <3>1, <3>2, <3>4, <4>1 DEF Connection
    <3> QED
      BY <2>1, <3>3, <3>4 DEF Connection
  <2>2. CASE ~(state[Agnss] \in {"PENDING", "ACQUIRED"} /\ active[Agnss] \subseteq {g})
    BY <1>6, <1>7, <2>2 DEF Unsubscribe, NoDataConn
  <2> QED
    BY <2>1, <2>2
<1> QED
  BY <1>1, <1>2, <1>6, <1>7, InternetQuiet DEF NoDataConn, smVars

LEMMA GrantConnects ==
  ASSUME IInv, Connection, NEW n \in Nifs, queue # <<>>, n = Head(queue).nif,
         Head(queue).kind \in {"open", "pdn"}, Granted(n, Tail(queue)),
         fwUp' = fwUp, wds' = wds
  PROVE  Connection'
<1>1. TypeOK /\ \A k \in {"failed", "closed"} : Head(queue) \notin Reports(k)
  BY DEF IInv, Reports
<1>2. LeftAlone(Tail(queue)) /\ fw' = fw
  BY EventsLeave DEF Granted, NoDataConn
<1>3. /\ Has(queue', Reports("failed")) <=> Has(queue, Reports("failed"))
      /\ Has(queue', Reports("closed")) <=> Has(queue, Reports("closed"))
      /\ Once(queue', Reports("closed")) <=> Once(queue, Reports("closed"))
  BY <1>1, <1>2, TakenReports
<1>4. CASE n = Agnss /\ state[Agnss] = "PENDING"
  <2>1. state'[Agnss] = "ACQUIRED"
    BY <1>1, <1>4 DEF Granted, Become, TypeOK
  <2> QED
    BY <1>2, <1>3, <1>4, <2>1 DEF Connection
<1>5. CASE n = Agnss /\ state[Agnss] # "PENDING"
  <2>1. Quiet
    BY <1>2, <1>3, <1>5 DEF Granted, Quiet
  <2> QED
    BY <2>1, QuietKeepsConnection
<1>6. CASE n = Internet
  <2>1. state'[Agnss] = state[Agnss]
    BY <1>1, <1>6, InternetQuiet
  <2>2. \A k : Head(queue) \notin Reports(k)
    BY <1>6 DEF Reports, Internet, Agnss
  <2>3. Quiet
    BY <1>1, <1>2, <2>1, <2>2, TakenQuiet
  <2> QED
    BY <2>3, QuietKeepsConnection
<1> QED
  BY <1>4, <1>5, <1>6 DEF Nifs

LEMMA AnswersConnect ==
  ASSUME IInv, Connection,
         AtlOpenSuccess \/ ReportAtlPdn \/ ReportAtlOpenFailed \/ ReportAtlClosed
  PROVE  Connection'
<1> SUFFICES ASSUME NEW n, NEW q, n = Head(queue).nif, q = Tail(queue)
             PROVE  Connection'
  OBVIOUS
<1>1. n \in Nifs /\ q \in Seq(Message) /\ queue # <<>> /\ Head(queue) \in Message /\ TypeOK
  BY ReceivesType, QueueHead
  DEF IInv, AtlOpenSuccess, ReportAtlPdn, ReportAtlOpenFailed, ReportAtlClosed, Receives
<1>2. fwUp' = fwUp
  BY DEF AtlOpenSuccess, ReportAtlPdn, ReportAtlOpenFailed, ReportAtlClosed, envVars
<1>3. CASE AtlOpenSuccess /\ Wds
  <2>1. /\ wds' = Append(wds, n) /\ queue' = q /\ fw' = fw /\ state' = state
        /\ Head(queue).kind = "open" /\ LeftAlone(q)
    BY <1>3 DEF AtlOpenSuccess, NoDataConn, smVars, Receives, LeftAlone
  <2>2. \A k : k # "open" => Head(queue) \notin Reports(k)
    BY <2>1 DEF Reports
  <2>3. \A k : k # "open" => /\ Has(queue', Reports(k)) <=> Has(queue, Reports(k))
                             /\ Once(queue', Reports(k)) <=> Once(queue, Reports(k))
    BY <1>1, <2>1, <2>2, TakenReports
  <2>4. wds \in Seq(Nifs)
    BY <1>1 DEF TypeOK
  <2>5. Has(wds', {Agnss}) <=> Has(wds, {Agnss}) \/ n = Agnss
    BY <1>1, <2>1, <2>4, AppendHas
  <2>6. Has(queue, Reports("open")) => Has(queue', Reports("open")) \/ n = Agnss
    BY <1>1, <2>1, TakenReports DEF Reports
  <2>7. Quiet
    BY <1>2, <2>1, <2>3, <2>5, <2>6 DEF Quiet, Granting
  <2> QED
    BY <2>7, QuietKeepsConnection
<1>4. CASE (AtlOpenSuccess /\ ~Wds) \/ ReportAtlPdn
  BY <1>1, <1>2, <1>4, GrantConnects DEF AtlOpenSuccess, ReportAtlPdn, Receives
<1>5. CASE ReportAtlOpenFailed \/ ReportAtlClosed
  <2>1. /\ wds' = wds /\ Head(queue).kind \in {"failed", "closed"}
        /\ Denied(n, q) \/ Released(n, q, fw)
    BY <1>5 DEF ReportAtlOpenFailed, ReportAtlClosed, Receives
  <2>2. LeftAlone(q)
    BY <1>1, <2>1, EventsLeave
  <2>3. CASE n = Internet
    <3>1. state'[Agnss] = state[Agnss] /\ fw' = fw
      BY <1>1, <2>1, <2>3, InternetQuiet
    <3>2. \A k : Head(queue) \notin Reports(k)
      BY <2>3 DEF Reports, Internet, Agnss
    <3>3. Quiet
      BY <1>1, <1>2, <2>1, <2>2, <3>1, <3>2, TakenQuiet
    <3> QED
      BY <3>3, QuietKeepsConnection
  <2>4. CASE n = Agnss
    <3>1. Has(queue, Reports("failed")) \/ Has(queue, Reports("closed"))
      <4>1. Head(queue) \in Reports("failed") \/ Head(queue) \in Reports("closed")
        BY <1>1, <2>1, <2>4 DEF Reports
      <4> QED
        BY <1>1, <2>2, <4>1, TakenReports
    <3>2. /\ state[Agnss] = "RELEASING" /\ fw = <<>> /\ ~fwUp
          /\ Once(queue, Reports("closed")) /\ ~Has(queue, Reports("failed"))
      BY <3>1 DEF Connection
    <3>3. Head(queue) \in Reports("closed")
      <4>1. Head(queue) \notin Reports("failed")
        BY <1>1, <2>2, <3>2, TakenReports
      <4> QED
        BY <1>1, <2>1, <2>4, <4>1 DEF Reports
    <3>4. ~Has(queue', Reports("closed")) /\ ~Has(queue', Reports("failed"))
      BY <1>1, <2>2, <3>2, <3>3, TakenReports
    <3>5. ReleaseComplete(Agnss, q, fw)
      BY <2>1, <2>4, <3>2 DEF Denied, Released
    <3>6. \/ state'[Agnss] = "PENDING" /\ fw' = Append(fw, "REQUEST")
          \/ state'[Agnss] = "RELEASED" /\ fw' = fw
      BY <1>1, <2>4, <3>5
      DEF ReleaseComplete, Become, RequestOrReleaseDataConn, NoDataConn, Agnss, Internet, TypeOK
    <3>7. Append(fw, "REQUEST") = <<"REQUEST">>
      BY <3>2
    <3> QED
      BY <1>2, <3>2, <3>4, <3>6, <3>7 DEF Connection
  <2> QED
    BY <1>1, <2>3, <2>4 DEF Nifs
<1> QED
  BY <1>3, <1>4, <1>5

LEMMA OneElement ==
  ASSUME NEW S, NEW s \in Seq(S), Len(s) = 1, NEW b, s[1] = b
  PROVE  s = <<b>>
  OBVIOUS

LEMMA TailOfTwo ==
  ASSUME NEW S, NEW s \in Seq(S), Len(s) = 2, NEW b, s[2] = b
  PROVE  Tail(s) = <<b>>
<1>1. Tail(s) \in Seq(S) /\ Len(Tail(s)) = 1 /\ Tail(s)[1] = b
  OBVIOUS
<1> QED
  BY <1>1, OneElement

LEMMA FrameworkConnects ==
  ASSUME IInv, Connection, FrameworkOpens \/ FrameworkCloses
  PROVE  Connection'
<1>1. queue \in Seq(Message) /\ Agnss \in Nifs /\ state' = state /\ wds' = wds
      /\ fw \in Seq(DataConnCmd) /\ state[Agnss] \in AgpsState
  BY DEF IInv, TypeOK, FrameworkOpens, FrameworkCloses, smVars, Nifs
<1>2. CASE FrameworkOpens
  <2> DEFINE m == [kind |-> "open", nif |-> Agnss]
  <2>1. queue' = Append(queue, m) /\ fwUp' = TRUE /\ fw' = Tail(fw) /\ fw # <<>> /\ Head(fw) = "REQUEST"
    BY <1>2 DEF FrameworkOpens, Answer, Serves
  <2>2. m \in Message /\ m \in Reports("open") /\ m \notin Reports("failed") /\ m \notin Reports("closed")
    BY <1>1 DEF Message, DataConnMsg, Reports
  <2> HIDE DEF m
  <2>3. /\ Has(queue', Reports("failed")) <=> Has(queue, Reports("failed"))
        /\ Has(queue', Reports("closed")) <=> Has(queue, Reports("closed"))
        /\ Has(queue', Reports("open"))
    BY <1>1, <2>1, <2>2, AppendHas
  <2>4. fw # <<"RELEASE">>
    BY <2>1
  <2>5. CASE fw = <<"REQUEST">>
    <3>1. fw' = <<>>
      BY <2>1, <2>5
    <3>2. Len(fw) # 2
      BY <2>5
    <3>3. state[Agnss] \in {"PENDING", "ACQUIRED"}
      BY <1>1, <2>1, <2>4, <2>5, <3>2 DEF Connection, AgpsState
    <3> QED
      BY <1>1, <2>1, <2>3, <3>1, <3>3 DEF Connection, Granting
  <2>6. CASE Len(fw) = 2 /\ fw[1] = "REQUEST" /\ fw[2] = "RELEASE"
    <3>1. fw' = <<"RELEASE">>
      BY <1>1, <2>1, <2>6, TailOfTwo
    <3>2. fw # <<"REQUEST">> /\ fw # <<>>
      BY <2>6
    <3>3. state[Agnss] = "RELEASING" /\ ~Has(queue, Reports("closed"))
      BY <1>1, <2>1, <2>4, <2>6, <3>2 DEF Connection, AgpsState
    <3> QED
      BY <1>1, <2>1, <2>3, <3>1, <3>3, Zenon DEF Connection
  <2> QED
    BY <1>1, <2>1, <2>4, <2>5, <2>6 DEF Connection, AgpsState
<1>3. CASE FrameworkCloses
  <2> DEFINE m == [kind |-> "closed", nif |-> Agnss]
  <2>1. queue' = Append(queue, m) /\ fwUp' = FALSE /\ fw' = Tail(fw) /\ fw # <<>> /\ Head(fw) = "RELEASE"
    BY <1>3 DEF FrameworkCloses, Answer, Serves
  <2>2. m \in Message /\ m \notin Reports("failed") /\ m \in Reports("closed")
    BY <1>1 DEF Message, DataConnMsg, Reports
  <2> HIDE DEF m
  <2>3. fw # <<"REQUEST">> /\ fw[1] # "REQUEST"
    BY <2>1
  <2>4. state[Agnss] = "RELEASING" /\ fw = <<"RELEASE">> /\ ~Has(queue, Reports("closed"))
    BY <1>1, <2>1, <2>3 DEF Connection, AgpsState
  <2>5. fw' = <<>>
    BY <2>1, <2>4
  <2>6. Once(queue, Reports("closed"))
    BY <2>4 DEF Has, Once
  <2>7. /\ Has(queue', Reports("failed")) <=> Has(queue, Reports("failed"))
        /\ Has(queue', Reports("closed")) /\ Once(queue', Reports("closed"))
    BY <1>1, <2>1, <2>2, <2>4, <2>6, AppendHas, AppendOnce
  <2> QED
    BY <1>1, <2>1, <2>4, <2>5, <2>7 DEF Connection
<1> QED
  BY <1>2, <1>3

LEMMA EnvironmentConnects ==
  ASSUME IInv, Connection,
         \/ ReportPdnTypeFromWds \/ NotifyNetwork
         \/ \E n \in Nifs : CreateStateMachine(n)
         \/ \E h \in Handles, n \in Nifs : ModemRequest(h, n)
         \/ \E h \in Handles : ModemRelease(h)
         \/ UNCHANGED vars
  PROVE  Connection'
<1>1. TypeOK /\ wds \in Seq(Nifs) /\ queue \in Seq(Message)
  BY DEF IInv, TypeOK
<1>2. state'[Agnss] = state[Agnss] /\ fw' = fw /\ fwUp' = fwUp
  BY DEF ReportPdnTypeFromWds, NotifyNetwork, CreateStateMachine, ModemRequest, ModemRelease,
         vars, smVars, envVars
<1>3. CASE ReportPdnTypeFromWds
  <2> DEFINE m == [kind |-> "pdn", nif |-> Head(wds)]
  <2>1. wds # <<>> /\ Head(wds) \in Nifs /\ wds' = Tail(wds) /\ queue' = Append(queue, m)
    BY <1>1, <1>3 DEF ReportPdnTypeFromWds
  <2>2. m \in Message /\ m \notin Reports("failed") /\ m \notin Reports("closed")
        /\ (Head(wds) = Agnss => m \in Reports("pdn"))
    BY <2>1 DEF Message, DataConnMsg, Reports
  <2>3. Has(wds, {Agnss}) <=> Has(Tail(wds), {Agnss}) \/ Head(wds) \in {Agnss}
    BY <1>1, <2>1, TailHas
  <2> HIDE DEF m
  <2>4. Quiet
    BY <1>1, <1>2, <2>1, <2>2, <2>3, AddedQuiet
  <2> QED
    BY <2>4, QuietKeepsConnection
<1>4. CASE \E h \in Handles, n \in Nifs : ModemRequest(h, n)
  <2>1. PICK h \in Handles, n \in Nifs : ModemRequest(h, n)
    BY <1>4
  <2> DEFINE m == [kind |-> "request", nif |-> n, handle |-> h]
  <2>2. m \in Message /\ m \notin Reports("failed") /\ m \notin Reports("closed")
    BY DEF Message, RequestMsg, Reports
  <2>3. queue' = Append(queue, m) /\ wds' = wds
    BY <2>1 DEF ModemRequest
  <2> HIDE DEF m
  <2>4. Quiet
    BY <1>1, <1>2, <2>2, <2>3, AddedQuiet
  <2> QED
    BY <2>4, QuietKeepsConnection
<1>5. CASE \E h \in Handles : ModemRelease(h)
  <2>1. PICK h \in Handles : ModemRelease(h)
    BY <1>5
  <2> DEFINE m == [kind |-> "release", handle |-> h]
  <2>2. m \in Message /\ m \notin Reports("failed") /\ m \notin Reports("closed")
    BY DEF Message, ReleaseMsg, Reports
  <2>3. queue' = Append(queue, m) /\ wds' = wds
    BY <2>1 DEF ModemRelease
  <2> HIDE DEF m
  <2>4. Quiet
    BY <1>1, <1>2, <2>2, <2>3, AddedQuiet
  <2> QED
    BY <2>4, QuietKeepsConnection
<1>6. CASE NotifyNetwork \/ (\E n \in Nifs : CreateStateMachine(n)) \/ UNCHANGED vars
  <2>1. queue' = queue /\ wds' = wds
    BY <1>6 DEF NotifyNetwork, CreateStateMachine, vars
  <2>2. Quiet
    BY <1>2, <2>1 DEF Quiet, Granting
  <2> QED
    BY <2>2, QuietKeepsConnection
<1> QED
  BY <1>3, <1>4, <1>5, <1>6

LEMMA ConnectionFollowedInit == Init => ConnectionFollowed
<1> SUFFICES ASSUME Init
             PROVE  Connection
  BY DEF ConnectionFollowed
<1>1. state[Agnss] = "RELEASED" /\ fw = <<>> /\ ~fwUp /\ queue = <<>>
  BY DEF Init, Nifs
<1>2. \A k : ~Has(queue, Reports(k))
  BY <1>1 DEF Has
<1> QED
  BY <1>1, <1>2 DEF Connection

LEMMA ConnectionFollowedStep == IInv /\ ConnectionFollowed /\ [Next]_vars => ConnectionFollowed'
<1> SUFFICES ASSUME IInv, ConnectionFollowed, [Next]_vars, network' = "steady"
             PROVE  Connection'
  BY DEF ConnectionFollowed
<1>1. network = "steady" /\ Connection
  <2>1. network' = network
    BY DEF Next, AdapterStep, RequestATL, ReleaseATL, AtlOpenSuccess, ReportAtlPdn,
           ReportAtlOpenFailed, ReportAtlClosed, ReportPdnTypeFromWds, FrameworkServes,
           FrameworkOpens, FrameworkFails, FrameworkCloses, FrameworkOpensBadApn, FrameworkLoses,
           NotifyNetwork, CreateStateMachine, ModemRequest, ModemRelease, vars, envVars
  <2> QED
    BY <2>1 DEF ConnectionFollowed
<1>2. ~FrameworkFails /\ ~FrameworkOpensBadApn /\ ~FrameworkLoses
  BY <1>1 DEF FrameworkFails, FrameworkOpensBadApn, FrameworkLoses
<1> QED
  BY <1>1, <1>2, RequestATLConnects, ReleaseATLConnects, AnswersConnect, FrameworkConnects,
     EnvironmentConnects
  DEF Next, AdapterStep, FrameworkServes

LEMMA FollowedConnects ==
  ASSUME IInv, ConnectionFollowed
  PROVE  ConnectionMatchesState
<1> SUFFICES ASSUME network = "steady", Settled
             PROVE  fwUp <=> state[Agnss] = "ACQUIRED"
  BY DEF ConnectionMatchesState
<1>1. Connection
  BY DEF ConnectionFollowed
<1>2. fw = <<>> /\ ~Granting /\ ~Has(queue, Reports("closed"))
  BY DEF Settled, Granting, Has, Reports
<1>3. state[Agnss] \in AgpsState
  BY DEF IInv, TypeOK, Nifs
<1> QED
  BY <1>1, <1>2, <1>3 DEF Connection, AgpsState

(* No handle of the modem and no connection of the framework is lost, in   *)
(* any order of requests, releases, refusals, losses and late answers, for *)
(* any number of handles and messages in flight: every handle is where the *)
(* modem believes it to be (NothingIsLost), and on a steady network the    *)
(* framework holds the SUPL connection exactly while the machine does.     *)
THEOREM NothingIsEverLost == Spec => []NothingIsLost
<1>1. IInv /\ HandlesFollowed /\ ConnectionFollowed => NothingIsLost
  BY FollowedMatches, FollowedConnects DEF NothingIsLost
<1> QED
  BY IInvInit, IInvStep, HandlesFollowedInit, HandlesFollowedStep, ConnectionFollowedInit,
     ConnectionFollowedStep, <1>1, PTL DEF Spec

=============================================================================
