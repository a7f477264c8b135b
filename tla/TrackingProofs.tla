--------------------------- MODULE TrackingProofs ---------------------------
(***************************************************************************)
(* Proofs about Tracking, for any sessions and options, any backlog and    *)
(* any engine.                                                             *)
(***************************************************************************)
EXTENDS Tracking, FiniteSetTheorems, TLAPS

-----------------------------------------------------------------------------
(* Sequences: the elements of Append(q, m), Tail(q) and q \o p.            *)

LEMMA AppendElements ==
  ASSUME NEW M, NEW q \in Seq(M), NEW m \in M
  PROVE  /\ Append(q, m) \in Seq(M) /\ Len(Append(q, m)) = Len(q) + 1
         /\ \A i \in 1..Len(q) : Append(q, m)[i] = q[i] /\ i # Len(q) + 1
         /\ Append(q, m)[Len(q) + 1] = m
         /\ Len(q) \in Nat
  OBVIOUS

LEMMA TailElements ==
  ASSUME NEW M, NEW q \in Seq(M), q # <<>>
  PROVE  /\ Tail(q) \in Seq(M) /\ Len(Tail(q)) = Len(q) - 1
         /\ Head(q) = q[1] /\ q[1] \in M /\ 1 \in 1..Len(q)
         /\ \A i \in 1..Len(Tail(q)) : Tail(q)[i] = q[i + 1] /\ i + 1 \in 1..Len(q) /\ i + 1 # 1
         /\ \A i \in 1..Len(q) : i # 1 => i - 1 \in 1..Len(Tail(q)) /\ Tail(q)[i - 1] = q[i]
         /\ Len(q) \in Nat /\ Len(q) > 0
  OBVIOUS

(* Concatenation with one message, and with none.                          *)
LEMMA ConcatIsAppend ==
  ASSUME NEW M, NEW q \in Seq(M), NEW m \in M
  PROVE  q \o <<m>> = Append(q, m)
  OBVIOUS

LEMMA ConcatNothing ==
  ASSUME NEW M, NEW q \in Seq(M)
  PROVE  q \o <<>> = q
  OBVIOUS

-----------------------------------------------------------------------------
(* A set of natural numbers has a least one: the initial segments up to   *)
(* its members are finite, and one of them is within all the others.       *)
LEMMA LeastIsLeast ==
  ASSUME NEW S, S \subseteq Nat, S # {}
  PROVE  Least(S) \in S /\ \A m \in S : Least(S) <= m
<1> DEFINE Segments == {0..n : n \in S}
<1>1. Segments \subseteq FiniteSubsetsOf(Nat)
  <2> SUFFICES ASSUME NEW n \in S
               PROVE  0..n \in SUBSET Nat /\ IsFiniteSet(0..n)
    BY DEF FiniteSubsetsOf
  <2> QED
    BY FS_Interval
<1>2. Segments # {}
  OBVIOUS
<1>3. \E x \in Segments : \A y \in Segments : ~(<<y, x>> \in StrictSubsetOrdering(Nat))
  <2> HIDE DEF Segments
  <2> QED
    BY <1>1, <1>2, FS_StrictSubsetOrderingWellFounded, WFMin
<1>4. PICK n \in S : \A m \in S : ~(<<0..m, 0..n>> \in StrictSubsetOrdering(Nat))
  BY <1>3
<1>5. \A m \in S : n <= m
  <2> SUFFICES ASSUME NEW m \in S, ~(n <= m)
               PROVE  FALSE
    OBVIOUS
  <2>1. 0..m \in SUBSET Nat /\ 0..n \in SUBSET Nat /\ 0..m \subseteq 0..n
    OBVIOUS
  <2>2. n \in 0..n /\ n \notin 0..m
    OBVIOUS
  <2> QED
    BY <2>1, <2>2, <1>4 DEF StrictSubsetOrdering
<1> QED
  BY <1>5 DEF Least

-----------------------------------------------------------------------------
(* Options and sessions.                                                   *)

LEMMA OptionParts ==
  ASSUME NEW o \in Options
  PROVE  /\ o.interval \in Nat /\ o.interval > 0 /\ o.interval \in Intervals
         /\ o.power \in Nat /\ o.distance \in BOOLEAN /\ o # None
<1>1. o \in [interval: Nat \ {0}, power: Nat \ {0}, distance: BOOLEAN]
  BY OptionsAssumption
<1> QED
  BY <1>1 DEF Intervals, None

LEMMA IntervalsAreLengths == \A i \in Intervals : i \in Nat /\ i > 0
  BY OptionParts DEF Intervals

LEMMA LiveParts ==
  ASSUME sessions \in [Sessions -> Options \union {None}], NEW s \in Live
  PROVE  s \in Sessions /\ sessions[s] \in Options
  BY DEF Live, Tracks

LEMMA LeastIntervalFacts ==
  ASSUME sessions \in [Sessions -> Options \union {None}], NEW S, S \subseteq Live, S # {}
  PROVE  /\ LeastInterval(S) \in Intervals
         /\ \E s \in S : LeastInterval(S) = sessions[s].interval
         /\ \A s \in S : LeastInterval(S) <= sessions[s].interval
<1> DEFINE I == {sessions[s].interval : s \in S}
<1>1. I \subseteq Intervals /\ I \subseteq Nat
  BY LiveParts, OptionParts
<1>2. I # {}
  OBVIOUS
<1>3. LeastInterval(S) \in I /\ \A i \in I : LeastInterval(S) <= i
  <2> HIDE DEF I
  <2>1. Least(I) \in I /\ \A i \in I : Least(I) <= i
    BY <1>1, <1>2, LeastIsLeast
  <2> QED
    BY <2>1 DEF LeastInterval, I
<1> QED
  BY <1>1, <1>3

LEMMA LeastOfTwo ==
  ASSUME NEW i \in Intervals, NEW j \in Intervals
  PROVE  /\ Least({i, j}) \in Intervals /\ Least({i, j}) <= i /\ Least({i, j}) <= j
<1> DEFINE S == {i, j}
<1>1. S \subseteq Nat /\ S # {} /\ S \subseteq Intervals
  BY IntervalsAreLengths
<1>2. Least(S) \in S /\ \A m \in S : Least(S) <= m
  <2> HIDE DEF S
  <2> QED
    BY <1>1, LeastIsLeast
<1> QED
  BY <1>1, <1>2

-----------------------------------------------------------------------------
(* What the engine calls of each decision are.  Within S: at an interval   *)
(* that serves every session of S.                                         *)
Within(i, S) == \A s \in S : i <= sessions[s].interval

LEMMA LeastOfBoth ==
  ASSUME sessions \in [Sessions -> Options \union {None}], NEW S, S \subseteq Live, S # {}, NEW i \in Intervals
  PROVE  /\ Least({i, LeastInterval(S)}) \in Intervals
         /\ Least({i, LeastInterval(S)}) <= i
         /\ Within(Least({i, LeastInterval(S)}), S)
<1>1. LeastInterval(S) \in Intervals /\ Within(LeastInterval(S), S)
  BY LeastIntervalFacts DEF Within
<1>2. /\ Least({i, LeastInterval(S)}) \in Intervals /\ Least({i, LeastInterval(S)}) <= i
      /\ Least({i, LeastInterval(S)}) <= LeastInterval(S)
  BY <1>1, LeastOfTwo
<1>3. \A s \in S : sessions[s].interval \in Nat
  BY LiveParts, OptionParts
<1>4. LeastInterval(S) \in Nat /\ Least({i, LeastInterval(S)}) \in Nat
  BY <1>1, <1>2, IntervalsAreLengths
<1>5. Within(Least({i, LeastInterval(S)}), S)
  <2> SUFFICES ASSUME NEW s \in S
               PROVE  Least({i, LeastInterval(S)}) <= sessions[s].interval
    BY DEF Within
  <2>1. LeastInterval(S) <= sessions[s].interval
    BY <1>1 DEF Within
  <2> QED
    BY <1>2, <1>3, <1>4, <2>1
<1> QED
  BY <1>2, <1>5

LEMMA StartMultiplexFacts ==
  ASSUME sessions \in [Sessions -> Options \union {None}], NEW s \in Sessions, NEW o \in Options
  PROVE  \/ StartMultiplex(s, o) = <<>> /\ \E t \in Live : sessions[t].interval <= o.interval
         \/ \E i \in Intervals : /\ StartMultiplex(s, o) = StartFix(i, [of |-> "start", key |-> s])
                                 /\ i <= o.interval /\ Within(i, Live)
<1>1. CASE Live = {}
  <2>1. o.interval \in Intervals /\ o.interval <= o.interval
    BY OptionParts
  <2> QED
    BY <1>1, <2>1 DEF StartMultiplex, Within
<1>2. CASE Live # {}
  <2>1. o.interval \in Intervals /\ o.interval \in Nat
    BY OptionParts
  <2>2. PICK t \in Live : LeastInterval(Live) = sessions[t].interval
    BY <1>2, LeastIntervalFacts
  <2>3. sessions[t].interval \in Nat
    BY LiveParts, OptionParts
  <2>4. CASE o.interval < LeastInterval(Live) \/ o.power < LeastPower(Live)
    BY <1>2, <2>1, <2>4, LeastOfBoth DEF StartMultiplex
  <2>5. CASE ~(o.interval < LeastInterval(Live) \/ o.power < LeastPower(Live))
    <3>1. StartMultiplex(s, o) = <<>>
      BY <1>2, <2>5 DEF StartMultiplex
    <3>2. sessions[t].interval <= o.interval
      BY <2>1, <2>2, <2>3, <2>5
    <3> QED
      BY <3>1, <3>2
  <2> QED
    BY <2>4, <2>5
<1> QED
  BY <1>1, <1>2

LEMMA UpdateMultiplexFacts ==
  ASSUME sessions \in [Sessions -> Options \union {None}], NEW s \in Live, NEW o \in Options
  PROVE  \/ /\ UpdateMultiplex(s, o) = <<>>
            /\ \/ o.interval = sessions[s].interval
               \/ \E t \in Live \ {s} : sessions[t].interval <= o.interval
         \/ \E i \in Intervals :
              /\ UpdateMultiplex(s, o) = StartFix(i, [of |-> "update", key |-> s, old |-> sessions[s]])
              /\ i <= o.interval /\ Within(i, Live \ {s})
<1> DEFINE others == Live \ {s}
<1>0. others \subseteq Live /\ o.interval \in Intervals /\ o.interval \in Nat
  BY OptionParts
<1>1. CASE o.interval = sessions[s].interval /\ o.power = sessions[s].power
  BY <1>1 DEF UpdateMultiplex
<1>2. CASE ~(o.interval = sessions[s].interval /\ o.power = sessions[s].power) /\ others = {}
  BY <1>0, <1>2 DEF UpdateMultiplex, Within
<1>3. CASE ~(o.interval = sessions[s].interval /\ o.power = sessions[s].power) /\ others # {}
  <2>2. PICK t \in others : LeastInterval(others) = sessions[t].interval
    BY <1>0, <1>3, LeastIntervalFacts
  <2>3. sessions[t].interval \in Nat
    BY LiveParts, OptionParts
  <2>4. CASE o.interval < LeastInterval(others) \/ o.power < LeastPower(others)
    <3>1. UpdateMultiplex(s, o) = StartFix(Least({o.interval, LeastInterval(others)}),
                                           [of |-> "update", key |-> s, old |-> sessions[s]])
      BY <1>3, <2>4 DEF UpdateMultiplex
    <3> QED
      BY <1>0, <1>3, <3>1, LeastOfBoth
  <2>5. CASE ~(o.interval < LeastInterval(others) \/ o.power < LeastPower(others))
    <3>1. UpdateMultiplex(s, o) = <<>>
      BY <1>3, <2>5 DEF UpdateMultiplex
    <3>2. sessions[t].interval <= o.interval
      BY <1>0, <2>2, <2>3, <2>5
    <3> QED
      BY <3>1, <3>2
  <2> QED
    BY <2>4, <2>5
<1> QED
  BY <1>1, <1>2, <1>3

LEMMA StopMultiplexFacts ==
  ASSUME sessions \in [Sessions -> Options \union {None}], NEW s \in Live
  PROVE  \/ StopMultiplex(s) = <<>> /\ Live \ {s} # {}
         \/ StopMultiplex(s) = StopFix([of |-> "stop", key |-> s]) /\ Live \ {s} = {}
         \/ \E i \in Intervals : /\ StopMultiplex(s) = StartFix(i, [of |-> "restart", key |-> s])
                                 /\ Live \ {s} # {} /\ Within(i, Live \ {s})
<1> DEFINE others == Live \ {s}
<1>1. CASE others = {}
  BY <1>1 DEF StopMultiplex
<1>2. CASE others # {}
  <2>1. LeastInterval(others) \in Intervals /\ Within(LeastInterval(others), others)
    BY <1>2, LeastIntervalFacts DEF Within
  <2>2. CASE \/ sessions[s].interval < LeastInterval(others)
             \/ sessions[s].power < LeastPower(others)
    BY <1>2, <2>1, <2>2 DEF StopMultiplex
  <2>3. CASE ~(\/ sessions[s].interval < LeastInterval(others)
               \/ sessions[s].power < LeastPower(others))
    BY <1>2, <2>3 DEF StopMultiplex
  <2> QED
    BY <2>2, <2>3
<1> QED
  BY <1>1, <1>2

LEMMA RestartFixFacts ==
  ASSUME sessions \in [Sessions -> Options \union {None}]
  PROVE  \/ RestartFix = <<>> /\ Live = {}
         \/ \E i \in Intervals : RestartFix = StartFix(i, Nobody) /\ Live # {} /\ Within(i, Live)
  BY LeastIntervalFacts DEF RestartFix, Within

-----------------------------------------------------------------------------
(* Types.                                                                  *)

LEMMA TypeInit == Init => TypeOK
<1> SUFFICES ASSUME Init
             PROVE  TypeOK
  OBVIOUS
<1>1. api \in Seq(ApiCall)
  BY DEF Init, ApiCall
<1>2. pending \in Seq(Command) /\ queue \in Seq(Message)
  BY DEF Init
<1>3. client \in [Sessions -> ClientState]
  BY DEF Init, ClientState
<1>4. sessions \in [Sessions -> Options \union {None}] /\ owed \in [Sessions -> Int]
  BY DEF Init
<1>5. fix \in Intervals \union {Off} /\ world \in Worlds
  BY DEF Init
<1>6. capsKnown \in BOOLEAN /\ clients \subseteq Sessions
  BY DEF Init
<1> QED
  BY <1>1, <1>2, <1>3, <1>4, <1>5, <1>6 DEF TypeOK

LEMMA StartFixType ==
  ASSUME NEW i \in Intervals, NEW then \in Response
  PROVE  /\ [call |-> "startFix", interval |-> i, then |-> then] \in ApiCall
         /\ StartFix(i, then) \in Seq(ApiCall)
<1>1. [call |-> "startFix", interval |-> i, then |-> then] \in ApiCall
  BY DEF ApiCall
<1> QED
  BY <1>1 DEF StartFix

LEMMA StopFixType ==
  ASSUME NEW then \in Response
  PROVE  [call |-> "stopFix", then |-> then] \in ApiCall /\ StopFix(then) \in Seq(ApiCall)
<1>1. [call |-> "stopFix", then |-> then] \in ApiCall
  BY DEF ApiCall
<1> QED
  BY <1>1 DEF StopFix

LEMMA ResponseTypes ==
  ASSUME NEW s \in Sessions
  PROVE  /\ [of |-> "start", key |-> s] \in Response /\ [of |-> "stop", key |-> s] \in Response
         /\ [of |-> "restart", key |-> s] \in Response
         /\ \A o \in Options : [of |-> "update", key |-> s, old |-> o] \in Response
         /\ Nobody \in Response
  BY DEF Response, Nobody

LEMMA DecisionTypes ==
  ASSUME sessions \in [Sessions -> Options \union {None}], NEW s \in Sessions, NEW o \in Options
  PROVE  /\ StartMultiplex(s, o) \in Seq(ApiCall)
         /\ s \in Live => UpdateMultiplex(s, o) \in Seq(ApiCall)
         /\ StartFix(o.interval, Nobody) \in Seq(ApiCall)
<1>0. <<>> \in Seq(ApiCall)
  OBVIOUS
<1>1. StartMultiplex(s, o) \in Seq(ApiCall)
  BY <1>0, StartMultiplexFacts, StartFixType, ResponseTypes
<1>2. s \in Live => UpdateMultiplex(s, o) \in Seq(ApiCall)
  BY <1>0, UpdateMultiplexFacts, StartFixType, ResponseTypes, LiveParts
<1>3. StartFix(o.interval, Nobody) \in Seq(ApiCall)
  BY StartFixType, ResponseTypes, OptionParts
<1> QED
  BY <1>1, <1>2, <1>3

LEMMA EndingTypes ==
  ASSUME sessions \in [Sessions -> Options \union {None}]
  PROVE  /\ \A s \in Live : StopMultiplex(s) \in Seq(ApiCall)
         /\ RestartFix \in Seq(ApiCall) /\ SuspendFix \in Seq(ApiCall)
         /\ [call |-> "configure"] \in ApiCall /\ [call |-> "open"] \in ApiCall
<1>0. <<>> \in Seq(ApiCall)
  OBVIOUS
<1>1. Nobody \in Response
  BY DEF Response, Nobody
<1>2. ASSUME NEW s \in Live
      PROVE  StopMultiplex(s) \in Seq(ApiCall)
  <2>1. [of |-> "stop", key |-> s] \in Response /\ [of |-> "restart", key |-> s] \in Response
    BY LiveParts, ResponseTypes
  <2>2. StopFix([of |-> "stop", key |-> s]) \in Seq(ApiCall)
    BY <2>1, StopFixType
  <2>3. \A i \in Intervals : StartFix(i, [of |-> "restart", key |-> s]) \in Seq(ApiCall)
    BY <2>1, StartFixType
  <2> QED
    BY <1>0, <2>2, <2>3, StopMultiplexFacts
<1>3. RestartFix \in Seq(ApiCall)
  BY <1>0, <1>1, RestartFixFacts, StartFixType
<1>4. SuspendFix \in Seq(ApiCall)
  <2>1. StopFix(Nobody) \in Seq(ApiCall)
    BY <1>1, StopFixType
  <2> QED
    BY <1>0, <2>1 DEF SuspendFix
<1>5. [call |-> "configure"] \in ApiCall /\ [call |-> "open"] \in ApiCall
  BY DEF ApiCall
<1> QED
  BY <1>2, <1>3, <1>4, <1>5

(* The message at the head of the queue.                                   *)
LEMMA HeadParts ==
  ASSUME TypeOK, NEW kind, Receives(kind)
  PROVE  /\ queue # <<>> /\ Head(queue) \in Message /\ Head(queue).kind = kind /\ Tail(queue) \in Seq(Message)
         /\ kind \in {"start", "update", "stop", "remove"} => Head(queue) \in Command /\ Head(queue).key \in Sessions
         /\ kind \in {"start", "update"} => Head(queue).options \in Options
         /\ kind = "response" => /\ Head(queue).to \in Response /\ Head(queue).ok \in BOOLEAN
                                 /\ Head(queue).to.of # "nobody" => Head(queue).to.key \in Sessions
                                 /\ Head(queue).to.of = "update" => Head(queue).to.old \in Options
<1>1. queue # <<>> /\ queue \in Seq(Message) /\ Head(queue).kind = kind
  BY DEF TypeOK, Receives
<1>2. Head(queue) \in Message /\ Tail(queue) \in Seq(Message)
  BY <1>1
<1> DEFINE m == Head(queue)
<1> HIDE DEF m
<1>3. m \in Message /\ m.kind = kind
  BY <1>1, <1>2 DEF m
<1>4. /\ kind \in {"start", "update", "stop", "remove"} => m \in Command /\ m.key \in Sessions
      /\ kind \in {"start", "update"} => m.options \in Options
  BY <1>3 DEF Message, Command
<1>5. kind = "response" => m.to \in Response /\ m.ok \in BOOLEAN
  BY <1>3 DEF Message, Command
<1>6. kind = "response" => /\ m.to.of # "nobody" => m.to.key \in Sessions
                           /\ m.to.of = "update" => m.to.old \in Options
  BY <1>5 DEF Response
<1> QED
  BY <1>1, <1>2, <1>4, <1>5, <1>6 DEF m

LEMMA ReportType ==
  ASSUME TypeOK, NEW s \in Sessions
  PROVE  /\ AfterReport(s) \in [Sessions -> Int]
         /\ \A ok \in BOOLEAN : /\ AfterStart(s, ok) \in [Sessions -> ClientState]
                               /\ AfterStop(s, ok) \in [Sessions -> ClientState]
<1>1. owed \in [Sessions -> Int] /\ client \in [Sessions -> ClientState]
  BY DEF TypeOK
<1>2. AfterReport(s) \in [Sessions -> Int]
  BY <1>1 DEF AfterReport
<1>3. \A ok \in BOOLEAN : AfterStart(s, ok) \in [Sessions -> ClientState]
  BY <1>1 DEF AfterStart, ClientState
<1>4. \A ok \in BOOLEAN : AfterStop(s, ok) \in [Sessions -> ClientState]
  BY <1>1 DEF AfterStop, ClientState
<1> QED
  BY <1>2, <1>3, <1>4

LEMMA PostType ==
  ASSUME TypeOK, NEW calls \in Seq(ApiCall), PostCalls(calls)
  PROVE  api' \in Seq(ApiCall)
<1>1. api \in Seq(ApiCall)
  BY DEF TypeOK
<1> QED
  BY <1>1 DEF PostCalls

LEMMA SaveType ==
  ASSUME TypeOK, NEW s \in Sessions, NEW o \in Options \union {None}, Save(s, o)
  PROVE  sessions' \in [Sessions -> Options \union {None}]
  BY DEF TypeOK, Save

(* One lemma for each group of actions.                                    *)

TakenTypes ==
  /\ capsKnown' \in BOOLEAN
  /\ clients' \subseteq Sessions
  /\ pending' \in Seq(Command \union {Freed})
  /\ queue' \in Seq(Message)
  /\ fix' \in Intervals \union {Off}
  /\ world' \in Worlds

LEMMA TypeParts ==
  ASSUME TakenTypes, sessions' \in [Sessions -> Options \union {None}], api' \in Seq(ApiCall),
         client' \in [Sessions -> ClientState], owed' \in [Sessions -> Int]
  PROVE  TypeOK'
  BY DEF TypeOK, TakenTypes

LEMMA TakenType ==
  ASSUME TypeOK, NEW kind, Receives(kind), queue' = Tail(queue),
         UNCHANGED <<capsKnown, clients, pending, fix, world>>
  PROVE  TakenTypes
  BY HeadParts DEF TypeOK, TakenTypes

LEMMA KeptTypes ==
  ASSUME TypeOK
  PROVE  /\ UNCHANGED sessions => sessions' \in [Sessions -> Options \union {None}]
         /\ UNCHANGED api => api' \in Seq(ApiCall)
         /\ UNCHANGED client => client' \in [Sessions -> ClientState]
         /\ UNCHANGED owed => owed' \in [Sessions -> Int]
  BY DEF TypeOK

LEMMA WaitType == TypeOK /\ Wait => TypeOK'
<1> SUFFICES ASSUME TypeOK, Wait
             PROVE  TypeOK'
  OBVIOUS
<1>1. Head(queue) \in Command /\ Tail(queue) \in Seq(Message)
  BY HeadParts DEF Wait
<1>2. pending' \in Seq(Command \union {Freed})
  BY <1>1 DEF Wait, TypeOK
<1>3. TakenTypes
  BY <1>1, <1>2 DEF TakenTypes, TypeOK, Wait
<1> QED
  BY <1>3, TypeParts, KeptTypes DEF Wait, clientVars

LEMMA StartTrackingType == TypeOK /\ StartTracking => TypeOK'
<1> SUFFICES ASSUME TypeOK, StartTracking
             PROVE  TypeOK'
  OBVIOUS
<1> DEFINE s == Head(queue).key
           o == Head(queue).options
<1>1. s \in Sessions /\ o \in Options /\ TakenTypes
  BY HeadParts, TakenType DEF StartTracking
<1> HIDE DEF s, o
<1>2. /\ Save(s, o) /\ PostCalls(StartMultiplex(s, o))
      /\ \/ UNCHANGED clientVars
         \/ owed' = AfterReport(s) /\ client' = AfterStart(s, TRUE)
  BY DEF StartTracking, s, o
<1>3. sessions' \in [Sessions -> Options \union {None}]
  BY <1>1, <1>2, SaveType
<1>4. api' \in Seq(ApiCall)
  BY <1>1, <1>2, DecisionTypes, PostType DEF TypeOK
<1>5. client' \in [Sessions -> ClientState] /\ owed' \in [Sessions -> Int]
  BY <1>1, <1>2, ReportType, KeptTypes DEF clientVars
<1> QED
  BY <1>1, <1>3, <1>4, <1>5, TypeParts

LEMMA UpdateTrackingType == TypeOK /\ UpdateTracking => TypeOK'
<1> SUFFICES ASSUME TypeOK, UpdateTracking
             PROVE  TypeOK'
  OBVIOUS
<1> DEFINE s == Head(queue).key
           o == Head(queue).options
<1>1. s \in Sessions /\ o \in Options /\ TakenTypes
  BY HeadParts, TakenType DEF UpdateTracking
<1> HIDE DEF s, o
<1>2. /\ Save(s, o) /\ PostCalls(UpdateMultiplex(s, o)) /\ Tracks(s) /\ UNCHANGED client
      /\ owed' \in {owed, AfterReport(s)}
  BY DEF UpdateTracking, s, o
<1>3. sessions' \in [Sessions -> Options \union {None}]
  BY <1>1, <1>2, SaveType
<1>4. api' \in Seq(ApiCall)
  BY <1>1, <1>2, DecisionTypes, PostType DEF TypeOK, Live
<1>5. client' \in [Sessions -> ClientState] /\ owed' \in [Sessions -> Int]
  BY <1>1, <1>2, ReportType, KeptTypes
<1> QED
  BY <1>1, <1>3, <1>4, <1>5, TypeParts

LEMMA SwitchToDistanceType == TypeOK /\ SwitchToDistance => TypeOK'
<1> SUFFICES ASSUME TypeOK, SwitchToDistance
             PROVE  TypeOK'
  OBVIOUS
<1> DEFINE s == Head(queue).key
           o == Head(queue).options
<1>1. s \in Sessions /\ o \in Options /\ TakenTypes
  BY HeadParts, TakenType DEF SwitchToDistance
<1> HIDE DEF s, o
<1>2. /\ Save(s, o) /\ PostCalls(StopMultiplex(s) \o StartFix(o.interval, Nobody)) /\ Tracks(s) /\ UNCHANGED client
      /\ owed' \in {owed, AfterReport(s)}
  BY DEF SwitchToDistance, s, o
<1>3. sessions' \in [Sessions -> Options \union {None}]
  BY <1>1, <1>2, SaveType
<1>4. api' \in Seq(ApiCall)
  <2>1. StopMultiplex(s) \in Seq(ApiCall) /\ StartFix(o.interval, Nobody) \in Seq(ApiCall)
    BY <1>1, <1>2, DecisionTypes, EndingTypes DEF TypeOK, Live
  <2>2. StopMultiplex(s) \o StartFix(o.interval, Nobody) \in Seq(ApiCall)
    BY <2>1
  <2> QED
    BY <1>2, <2>2, PostType
<1>5. client' \in [Sessions -> ClientState] /\ owed' \in [Sessions -> Int]
  BY <1>1, <1>2, ReportType, KeptTypes
<1> QED
  BY <1>1, <1>3, <1>4, <1>5, TypeParts

LEMMA StopTrackingType == TypeOK /\ StopTracking => TypeOK'
<1> SUFFICES ASSUME TypeOK, StopTracking
             PROVE  TypeOK'
  OBVIOUS
<1> DEFINE s == Head(queue).key
<1>1. s \in Sessions /\ TakenTypes
  BY HeadParts, TakenType DEF StopTracking
<1> HIDE DEF s
<1>2. /\ \/ Save(s, None) /\ PostCalls(StopMultiplex(s)) /\ Tracks(s)
         \/ UNCHANGED <<sessions, api>>
      /\ owed' \in {owed, AfterReport(s)}
      /\ client' \in {client, AfterStop(s, TRUE), AfterStop(s, FALSE)}
  BY DEF StopTracking, s, clientVars
<1>3. sessions' \in [Sessions -> Options \union {None}]
  BY <1>1, <1>2, SaveType, KeptTypes
<1>4. api' \in Seq(ApiCall)
  <2>1. CASE Tracks(s) /\ PostCalls(StopMultiplex(s))
    <3>1. StopMultiplex(s) \in Seq(ApiCall)
      BY <1>1, <2>1, EndingTypes DEF TypeOK, Live
    <3> QED
      BY <2>1, <3>1, PostType
  <2> QED
    BY <1>2, <2>1, KeptTypes
<1>5. client' \in [Sessions -> ClientState] /\ owed' \in [Sessions -> Int]
  BY <1>1, <1>2, ReportType, KeptTypes
<1> QED
  BY <1>1, <1>3, <1>4, <1>5, TypeParts

LEMMA StopClientSessionsType == TypeOK /\ StopClientSessions => TypeOK'
<1> SUFFICES ASSUME TypeOK, StopClientSessions
             PROVE  TypeOK'
  OBVIOUS
<1> DEFINE s == Head(queue).key
<1>1. s \in Sessions /\ TakenTypes
  BY HeadParts DEF StopClientSessions, TakenTypes, TypeOK
<1> HIDE DEF s
<1>2. /\ \/ Save(s, None) /\ PostCalls(StopMultiplex(s)) /\ Tracks(s)
         \/ UNCHANGED <<sessions, api>>
      /\ UNCHANGED <<client, owed>>
  BY DEF StopClientSessions, s, clientVars
<1>3. sessions' \in [Sessions -> Options \union {None}]
  BY <1>1, <1>2, SaveType, KeptTypes
<1>4. api' \in Seq(ApiCall)
  <2>1. CASE Tracks(s) /\ PostCalls(StopMultiplex(s))
    <3>1. StopMultiplex(s) \in Seq(ApiCall)
      BY <1>1, <2>1, EndingTypes DEF TypeOK, Live
    <3> QED
      BY <2>1, <3>1, PostType
  <2> QED
    BY <1>2, <2>1, KeptTypes
<1> QED
  BY <1>1, <1>2, <1>3, <1>4, KeptTypes, TypeParts

LEMMA ConcatType ==
  ASSUME NEW M, NEW q \in Seq(M), NEW p \in Seq(M)
  PROVE  q \o p \in Seq(M)
  OBVIOUS

LEMMA PendingAreMessages ==
  ASSUME NEW q \in Seq(Command \union {Freed})
  PROVE  q \in Seq(Message)
<1>1. Command \union {Freed} \subseteq Message
  BY DEF Message, Freed
<1> QED
  BY <1>1

(* What SendPending leaves in mPendingMsgs.                                *)
LEMMA PendingSent ==
  ASSUME TypeOK, SendPending
  PROVE  /\ queue' = Tail(queue) \o pending /\ pending \in Seq(Message)
         /\ pending' \in Seq(Command \union {Freed}) /\ Len(pending') = Len(pending)
         /\ \A i \in 1..Len(pending') : pending'[i] = Freed
<1>1. pending \in Seq(Command \union {Freed})
  BY DEF TypeOK
<1>2. DOMAIN pending = 1..Len(pending) /\ Len(pending) \in Nat
  BY <1>1
<1>3. pending' = [i \in 1..Len(pending) |-> Freed]
  BY <1>2 DEF SendPending
<1> QED
  BY <1>1, <1>2, <1>3, PendingAreMessages DEF SendPending

LEMMA EngineUpType == TypeOK /\ EngineUp => TypeOK'
<1> SUFFICES ASSUME TypeOK, EngineUp
             PROVE  TypeOK'
  OBVIOUS
<1>1. queue' \in Seq(Message)
  <2>1. Tail(queue) \in Seq(Message) /\ pending \in Seq(Message)
    BY HeadParts, PendingSent DEF EngineUp, TypeOK
  <2>2. queue' = Tail(queue) \o pending
    BY PendingSent DEF EngineUp
  <2> QED
    BY <2>1, <2>2, ConcatType
<1>2. TakenTypes
  BY <1>1, PendingSent DEF EngineUp, TakenTypes, TypeOK
<1>3. api' \in Seq(ApiCall)
  BY EndingTypes, PostType DEF EngineUp, TypeOK
<1> QED
  BY <1>2, <1>3, KeptTypes, TypeParts DEF EngineUp, clientVars

LEMMA ReconfigureType == TypeOK /\ Reconfigure => TypeOK'
<1> SUFFICES ASSUME TypeOK, Reconfigure
             PROVE  TypeOK'
  OBVIOUS
<1>1. TakenTypes
  BY TakenType DEF Reconfigure, adapterVars
<1>2. api' \in Seq(ApiCall)
  <2>1. /\ SuspendFix \in Seq(ApiCall) /\ RestartFix \in Seq(ApiCall)
        /\ <<[call |-> "configure"]>> \in Seq(ApiCall)
    BY EndingTypes DEF TypeOK
  <2>2. SuspendFix \o <<[call |-> "configure"]>> \in Seq(ApiCall)
    BY <2>1, ConcatType
  <2>3. SuspendFix \o <<[call |-> "configure"]>> \o RestartFix \in Seq(ApiCall)
    BY <2>1, <2>2, ConcatType
  <2> QED
    BY <2>3, PostType DEF Reconfigure
<1> QED
  BY <1>1, <1>2, KeptTypes, TypeParts DEF Reconfigure, adapterVars, clientVars

LEMMA RespondedType ==
  TypeOK /\ (StartResponded \/ UpdateResponded \/ StopResponded) => TypeOK'
<1> SUFFICES ASSUME TypeOK, StartResponded \/ UpdateResponded \/ StopResponded
             PROVE  TypeOK'
  OBVIOUS
<1> DEFINE to == Head(queue).to
           s  == to.key
           ok == Head(queue).ok
<1>1. Receives("response") /\ TakenTypes /\ to.of \in {"start", "update", "stop", "restart"}
  BY TakenType DEF StartResponded, UpdateResponded, StopResponded
<1>2. s \in Sessions /\ ok \in BOOLEAN /\ (to.of = "update" => to.old \in Options)
  <2>1. to.of # "nobody"
    BY <1>1
  <2> QED
    BY <1>1, <2>1, HeadParts
<1>3. /\ \/ UNCHANGED sessions
         \/ Save(s, None)
         \/ to.of = "update" /\ Save(s, to.old)
      /\ UNCHANGED api
  BY DEF StartResponded, UpdateResponded, StopResponded
<1>4. owed' = AfterReport(s) /\ client' \in {client, AfterStart(s, ok), AfterStop(s, ok)}
  BY DEF StartResponded, UpdateResponded, StopResponded
<1> HIDE DEF to, s, ok
<1>5. sessions' \in [Sessions -> Options \union {None}]
  BY <1>2, <1>3, SaveType, KeptTypes
<1>6. client' \in [Sessions -> ClientState] /\ owed' \in [Sessions -> Int]
  BY <1>2, <1>4, ReportType, KeptTypes
<1> QED
  BY <1>1, <1>3, <1>5, <1>6, KeptTypes, TypeParts

LEMMA NothingReportedType ==
  TypeOK /\ (StartWithoutCallbacks \/ UpdateUnknown) => TypeOK'
<1> SUFFICES ASSUME TypeOK, StartWithoutCallbacks \/ UpdateUnknown
             PROVE  TypeOK'
  OBVIOUS
<1>1. CASE StartWithoutCallbacks
  <2>1. TakenTypes
    BY <1>1, TakenType DEF StartWithoutCallbacks, adapterVars
  <2> QED
    BY <1>1, <2>1, KeptTypes, TypeParts DEF StartWithoutCallbacks, adapterVars, clientVars
<1>2. CASE UpdateUnknown
  <2>1. TakenTypes /\ Head(queue).key \in Sessions
    BY <1>2, TakenType, HeadParts DEF UpdateUnknown, adapterVars
  <2>2. owed' \in [Sessions -> Int]
    BY <1>2, <2>1, ReportType DEF UpdateUnknown
  <2> QED
    BY <1>2, <2>1, <2>2, KeptTypes, TypeParts DEF UpdateUnknown, adapterVars
<1> QED
  BY <1>1, <1>2

(* The calls at the head of the LocApi's queue.                            *)
LEMMA CallParts ==
  ASSUME TypeOK, NEW call, Runs(call)
  PROVE  /\ api # <<>> /\ Head(api) \in ApiCall /\ Head(api).call = call /\ Tail(api) \in Seq(ApiCall)
         /\ call = "startFix" => Head(api).interval \in Intervals
         /\ call \in {"startFix", "stopFix"} => Head(api).then \in Response
<1>1. api # <<>> /\ api \in Seq(ApiCall) /\ Head(api).call = call
  BY DEF TypeOK, Runs
<1>2. Head(api) \in ApiCall /\ Tail(api) \in Seq(ApiCall)
  BY <1>1
<1> DEFINE c == Head(api)
<1> HIDE DEF c
<1>3. c \in ApiCall /\ c.call = call
  BY <1>1, <1>2 DEF c
<1>4. /\ call = "startFix" => c.interval \in Intervals
      /\ call \in {"startFix", "stopFix"} => c.then \in Response
  BY <1>3 DEF ApiCall
<1> QED
  BY <1>1, <1>2, <1>4 DEF c

LEMMA ReturnToSenderType ==
  ASSUME TypeOK, NEW ok \in BOOLEAN, Head(api).then \in Response, ReturnToSender(ok)
  PROVE  queue' \in Seq(Message)
<1> DEFINE m == [kind |-> "response", to |-> Head(api).then, ok |-> ok]
<1>1. m \in Message
  BY DEF Message
<1> HIDE DEF m
<1>2. queue' \in {queue, Append(queue, m)} /\ queue \in Seq(Message)
  BY DEF ReturnToSender, TypeOK, m
<1> QED
  BY <1>1, <1>2

LEMMA ApiStepType == TypeOK /\ ApiStep => TypeOK'
<1> SUFFICES ASSUME TypeOK, ApiStep
             PROVE  TypeOK'
  OBVIOUS
<1>1. CASE StartTimeBasedTracking
  <2>1. Head(api).then \in Response /\ Head(api).interval \in Intervals /\ Tail(api) \in Seq(ApiCall)
    BY <1>1, CallParts DEF StartTimeBasedTracking
  <2>2. queue' \in Seq(Message)
    BY <1>1, <2>1, ReturnToSenderType DEF StartTimeBasedTracking
  <2>3. TakenTypes
    BY <1>1, <2>1, <2>2 DEF StartTimeBasedTracking, TakenTypes, TypeOK, adapterVars
  <2> QED
    BY <1>1, <2>1, <2>3, KeptTypes, TypeParts DEF StartTimeBasedTracking, adapterVars, clientVars
<1>2. CASE StopTimeBasedTracking
  <2>1. Head(api).then \in Response /\ Tail(api) \in Seq(ApiCall)
    BY <1>2, CallParts DEF StopTimeBasedTracking
  <2>2. queue' \in Seq(Message)
    BY <1>2, <2>1, ReturnToSenderType DEF StopTimeBasedTracking
  <2>3. TakenTypes
    BY <1>2, <2>1, <2>2 DEF StopTimeBasedTracking, TakenTypes, TypeOK, adapterVars
  <2> QED
    BY <1>2, <2>1, <2>3, KeptTypes, TypeParts DEF StopTimeBasedTracking, adapterVars, clientVars
<1>3. CASE Configure
  <2>1. Tail(api) \in Seq(ApiCall)
    BY <1>3, CallParts DEF Configure
  <2>2. TakenTypes
    BY <1>3 DEF Configure, TakenTypes, TypeOK, adapterVars
  <2> QED
    BY <1>3, <2>1, <2>2, KeptTypes, TypeParts DEF Configure, adapterVars, clientVars
<1>4. CASE Open
  <2>1. Tail(api) \in Seq(ApiCall)
    BY <1>4, CallParts DEF Open
  <2>2. [kind |-> "engineUp"] \in Message
    BY DEF Message
  <2>3. queue' \in Seq(Message)
    BY <1>4, <2>2 DEF Open, TypeOK
  <2>4. TakenTypes
    BY <1>4, <2>3 DEF Open, TakenTypes, TypeOK, adapterVars
  <2> QED
    BY <1>4, <2>1, <2>4, KeptTypes, TypeParts DEF Open, adapterVars, clientVars
<1> QED
  BY <1>1, <1>2, <1>3, <1>4 DEF ApiStep

LEMMA EngineDownType == TypeOK /\ EngineDown => TypeOK'
<1> SUFFICES ASSUME TypeOK, EngineDown
             PROVE  TypeOK'
  OBVIOUS
<1>1. api' \in Seq(ApiCall)
  <2>1. [call |-> "open"] \in ApiCall
    BY DEF ApiCall
  <2> QED
    BY <2>1 DEF EngineDown, TypeOK
<1>2. TakenTypes
  BY DEF EngineDown, TakenTypes, TypeOK, adapterVars
<1> QED
  BY <1>1, <1>2, KeptTypes, TypeParts DEF EngineDown, adapterVars, clientVars

LEMMA CommandsType == TypeOK /\ ClientStep => TypeOK'
<1> SUFFICES ASSUME TypeOK, ClientStep
             PROVE  TypeOK'
  OBVIOUS
<1>1. UNCHANGED <<adapterVars, api, fix, world>>
  BY DEF ClientStep, StartTrackingCommand, UpdateTrackingOptionsCommand, StopTrackingCommand,
         RemoveClientCommand, ReconfigureCommand
<1>2. \E m \in Message : queue' = Append(queue, m)
  BY DEF ClientStep, StartTrackingCommand, UpdateTrackingOptionsCommand, StopTrackingCommand,
         RemoveClientCommand, ReconfigureCommand, SendCommand, Message, Command
<1>3. queue' \in Seq(Message)
  BY <1>2 DEF TypeOK
<1>4. client' \in [Sessions -> ClientState] /\ owed' \in [Sessions -> Int]
  <2>1. \A s \in Sessions, c \in ClientState : Expect(s, c) => /\ client' \in [Sessions -> ClientState]
                                                               /\ owed' \in [Sessions -> Int]
    BY DEF Expect, TypeOK
  <2>2. \A s \in Sessions, o \in Options : StartTrackingCommand(s, o) => Expect(s, "starting")
    BY DEF StartTrackingCommand
  <2>3. \A s \in Sessions, o \in Options : UpdateTrackingOptionsCommand(s, o) => Expect(s, client[s])
    BY DEF UpdateTrackingOptionsCommand
  <2>4. \A s \in Sessions : StopTrackingCommand(s) => Expect(s, "stopping")
    BY DEF StopTrackingCommand
  <2>5. \A s \in Sessions : RemoveClientCommand(s) => /\ client' = [client EXCEPT ![s] = "removed"]
                                                      /\ owed' = owed
    BY DEF RemoveClientCommand
  <2>6. "starting" \in ClientState /\ "stopping" \in ClientState /\ "removed" \in ClientState
    BY DEF ClientState
  <2>7. \A s \in Sessions : client[s] \in ClientState
    BY DEF TypeOK
  <2>8. ReconfigureCommand => UNCHANGED <<client, owed>>
    BY DEF ReconfigureCommand, clientVars
  <2>9. client \in [Sessions -> ClientState] /\ owed \in [Sessions -> Int]
    BY DEF TypeOK
  <2> QED
    BY <2>1, <2>2, <2>3, <2>4, <2>5, <2>6, <2>7, <2>8, <2>9 DEF ClientStep
<1>5. TakenTypes
  BY <1>1, <1>3 DEF TakenTypes, TypeOK, adapterVars
<1> QED
  BY <1>1, <1>4, <1>5, KeptTypes, TypeParts DEF adapterVars

LEMMA TypeStep == TypeOK /\ [Next]_vars => TypeOK'
<1> SUFFICES ASSUME TypeOK, [Next]_vars
             PROVE  TypeOK'
  OBVIOUS
<1>1. CASE UNCHANGED vars
  <2>1. TakenTypes
    BY <1>1 DEF TypeOK, TakenTypes, vars, adapterVars, clientVars
  <2> QED
    BY <1>1, <2>1, KeptTypes, TypeParts DEF vars, adapterVars, clientVars
<1>2. CASE AdapterStep
  BY <1>2, WaitType, NothingReportedType, StartTrackingType, UpdateTrackingType, SwitchToDistanceType,
     StopTrackingType, StopClientSessionsType, EngineUpType, ReconfigureType, RespondedType DEF AdapterStep
<1> QED
  BY <1>1, <1>2, ApiStepType, EngineDownType, CommandsType DEF Next

-----------------------------------------------------------------------------
(* What is in a sequence.                                                  *)
Among(q) == {q[i] : i \in 1..Len(q)}

LEMMA AmongNothing == Among(<<>>) = {}
  BY DEF Among

LEMMA AmongAppend ==
  ASSUME NEW M, NEW q \in Seq(M), NEW m \in M
  PROVE  Among(Append(q, m)) = Among(q) \union {m}
<1>1. \A x \in Among(q) : x \in Among(Append(q, m))
  BY AppendElements DEF Among
<1>2. m \in Among(Append(q, m))
  <2>1. Len(q) + 1 \in 1..Len(Append(q, m)) /\ Append(q, m)[Len(q) + 1] = m
    BY AppendElements
  <2> QED
    BY <2>1 DEF Among
<1>3. ASSUME NEW i \in 1..Len(Append(q, m))
      PROVE  Append(q, m)[i] \in Among(q) \union {m}
  <2>1. CASE i = Len(q) + 1
    BY <2>1, AppendElements
  <2>2. CASE i # Len(q) + 1
    <3>1. i \in 1..Len(q) /\ Append(q, m)[i] = q[i]
      BY <2>2, AppendElements
    <3> QED
      BY <3>1 DEF Among
  <2> QED
    BY <2>1, <2>2
<1> QED
  BY <1>1, <1>2, <1>3 DEF Among

LEMMA AmongTail ==
  ASSUME NEW M, NEW q \in Seq(M), q # <<>>
  PROVE  Among(q) = Among(Tail(q)) \union {Head(q)}
<1>1. Head(q) \in Among(q)
  BY TailElements DEF Among
<1>2. \A x \in Among(Tail(q)) : x \in Among(q)
  BY TailElements DEF Among
<1>3. ASSUME NEW i \in 1..Len(q)
      PROVE  q[i] \in Among(Tail(q)) \union {Head(q)}
  <2>1. CASE i = 1
    BY <2>1, TailElements
  <2>2. CASE i # 1
    <3>1. i - 1 \in 1..Len(Tail(q)) /\ Tail(q)[i - 1] = q[i]
      BY <2>2, TailElements
    <3> QED
      BY <3>1 DEF Among
  <2> QED
    BY <2>1, <2>2
<1> QED
  BY <1>1, <1>2, <1>3 DEF Among

LEMMA AmongConcat ==
  ASSUME NEW M, NEW q \in Seq(M), NEW p \in Seq(M)
  PROVE  Among(q \o p) = Among(q) \union Among(p)
<1>1. /\ Len(q \o p) = Len(q) + Len(p) /\ Len(q) \in Nat /\ Len(p) \in Nat
      /\ \A i \in 1..Len(q) : (q \o p)[i] = q[i]
      /\ \A i \in 1..Len(p) : (q \o p)[Len(q) + i] = p[i]
      /\ \A i \in 1..Len(q \o p) : (q \o p)[i] = IF i <= Len(q) THEN q[i] ELSE p[i - Len(q)]
  OBVIOUS
<1>2. \A i \in 1..Len(q) : i \in 1..Len(q \o p)
  BY <1>1
<1>3. \A i \in 1..Len(p) : Len(q) + i \in 1..Len(q \o p)
  BY <1>1
<1>4. \A i \in 1..Len(q \o p) : i \in 1..Len(q) \/ (i - Len(q) \in 1..Len(p) /\ ~(i <= Len(q)))
  BY <1>1
<1>5. ASSUME NEW x \in Among(q \o p)
      PROVE  x \in Among(q) \union Among(p)
  <2>1. PICK i \in 1..Len(q \o p) : x = (q \o p)[i]
    BY DEF Among
  <2>2. CASE i \in 1..Len(q)
    BY <1>1, <2>1, <2>2 DEF Among
  <2>3. CASE i - Len(q) \in 1..Len(p) /\ ~(i <= Len(q))
    <3>1. x = p[i - Len(q)]
      BY <1>1, <2>1, <2>3
    <3> QED
      BY <2>3, <3>1 DEF Among
  <2> QED
    BY <1>4, <2>2, <2>3
<1>6. \A x \in Among(q) : x \in Among(q \o p)
  BY <1>1, <1>2 DEF Among
<1>7. ASSUME NEW i \in 1..Len(p)
      PROVE  p[i] \in Among(q \o p)
  <2>1. Len(q) + i \in 1..Len(q \o p) /\ (q \o p)[Len(q) + i] = p[i]
    BY <1>1, <1>3
  <2> QED
    BY <2>1 DEF Among
<1>8. \A x \in Among(p) : x \in Among(q \o p)
  BY <1>7 DEF Among
<1> QED
  BY <1>5, <1>6, <1>8

-----------------------------------------------------------------------------
(* Where the waiting calls lead.  h[k] is the interval of the fix after the *)
(* first k calls of q, if all succeed; no fix is running at a configure.   *)
Fixes == Intervals \union {Off}

Effect(c, v) ==
  IF c.call = "startFix" THEN c.interval
  ELSE IF c.call \in {"stopFix", "open"} THEN Off ELSE v

Course(h, q, f) ==
  /\ h \in [0..Len(q) -> Fixes] /\ h[0] = f
  /\ \A k \in 1..Len(q) : /\ h[k] = Effect(q[k], h[k - 1])
                          /\ q[k].call = "configure" => h[k - 1] = Off

Leads(f, q, v) == \E h : Course(h, q, f) /\ h[Len(q)] = v

LEMMA EffectType ==
  ASSUME NEW c \in ApiCall, NEW v \in Fixes
  PROVE  Effect(c, v) \in Fixes
  BY DEF Effect, ApiCall, Fixes

LEMMA LeadsNowhere ==
  /\ \A v \in Fixes : Leads(v, <<>>, v)
  /\ \A f, v : Leads(f, <<>>, v) => f = v
<1>1. ASSUME NEW v \in Fixes
      PROVE  Leads(v, <<>>, v)
  <2> DEFINE h == [k \in 0..0 |-> v]
  <2>1. Course(h, <<>>, v) /\ h[Len(<<>>)] = v
    BY DEF Course
  <2> QED
    BY <2>1 DEF Leads
<1>2. \A f, v : Leads(f, <<>>, v) => f = v
  BY DEF Leads, Course
<1> QED
  BY <1>1, <1>2

LEMMA LeadsType ==
  ASSUME NEW q \in Seq(ApiCall), NEW f, NEW v, Leads(f, q, v)
  PROVE  v \in Fixes /\ f \in Fixes
  BY DEF Leads, Course

LEMMA LeadsAppend ==
  ASSUME NEW q \in Seq(ApiCall), NEW c \in ApiCall, NEW f, NEW v, Leads(f, q, v),
         c.call = "configure" => v = Off
  PROVE  Leads(f, Append(q, c), Effect(c, v))
<1> DEFINE p == Append(q, c)
<1>1. PICK h : Course(h, q, f) /\ h[Len(q)] = v
  BY DEF Leads
<1> DEFINE g == [k \in 0..Len(p) |-> IF k \in 0..Len(q) THEN h[k] ELSE Effect(c, v)]
<1>2. /\ Len(p) = Len(q) + 1 /\ Len(q) \in Nat /\ p[Len(q) + 1] = c
      /\ \A k \in 1..Len(q) : p[k] = q[k]
  BY AppendElements
<1> HIDE DEF p
<1>3. v \in Fixes
  BY LeadsType
<1>4. /\ \A k \in 0..Len(q) : k \in 0..Len(p) /\ g[k] = h[k]
      /\ g[Len(p)] = Effect(c, v)
  BY <1>2
<1>5. g \in [0..Len(p) -> Fixes]
  BY <1>1, <1>3, EffectType DEF Course
<1>6. g[0] = f
  BY <1>1, <1>2, <1>4 DEF Course
<1>7. ASSUME NEW k \in 1..Len(p)
      PROVE  g[k] = Effect(p[k], g[k - 1]) /\ (p[k].call = "configure" => g[k - 1] = Off)
  <2> HIDE DEF g
  <2>1. CASE k \in 1..Len(q)
    <3>1. g[k] = h[k] /\ g[k - 1] = h[k - 1] /\ p[k] = q[k]
      BY <1>2, <1>4, <2>1
    <3> QED
      BY <1>1, <2>1, <3>1 DEF Course
  <2>2. CASE k = Len(q) + 1
    <3>1. g[k] = Effect(c, v) /\ g[k - 1] = v /\ p[k] = c
      BY <1>1, <1>2, <1>4, <2>2
    <3> QED
      BY <3>1
  <2> QED
    BY <1>2, <2>1, <2>2
<1> HIDE DEF g
<1>8. Course(g, p, f)
  BY <1>5, <1>6, <1>7 DEF Course
<1> QED
  BY <1>4, <1>8 DEF Leads, p

LEMMA LeadsTail ==
  ASSUME NEW q \in Seq(ApiCall), NEW f, NEW v, Leads(f, q, v), q # <<>>
  PROVE  /\ Leads(Effect(Head(q), f), Tail(q), v)
         /\ Head(q).call = "configure" => f = Off
<1> DEFINE p == Tail(q)
<1>1. PICK h : Course(h, q, f) /\ h[Len(q)] = v
  BY DEF Leads
<1> DEFINE g == [k \in 0..Len(p) |-> h[k + 1]]
<1>2. /\ Len(p) = Len(q) - 1 /\ Len(q) \in Nat /\ Len(q) > 0 /\ Head(q) = q[1] /\ 1 \in 1..Len(q)
      /\ \A k \in 1..Len(p) : p[k] = q[k + 1] /\ k + 1 \in 1..Len(q)
  BY TailElements
<1> HIDE DEF p
<1>3. g \in [0..Len(p) -> Fixes]
  BY <1>1, <1>2 DEF Course
<1>4. g[0] = Effect(Head(q), f) /\ (Head(q).call = "configure" => f = Off)
  BY <1>1, <1>2 DEF Course
<1>5. g[Len(p)] = v
  BY <1>1, <1>2
<1>6. ASSUME NEW k \in 1..Len(p)
      PROVE  g[k] = Effect(p[k], g[k - 1]) /\ (p[k].call = "configure" => g[k - 1] = Off)
  <2>1. g[k] = h[k + 1] /\ g[k - 1] = h[(k + 1) - 1] /\ p[k] = q[k + 1] /\ k + 1 \in 1..Len(q)
    BY <1>2
  <2> HIDE DEF g
  <2> QED
    BY <1>1, <2>1 DEF Course
<1> HIDE DEF g
<1>7. Course(g, p, Effect(Head(q), f))
  BY <1>3, <1>4, <1>6 DEF Course
<1> QED
  BY <1>4, <1>5, <1>7 DEF Leads, p

(* If the fix is lost now, the calls lead to the same fix, or to none when *)
(* no call starts or stops it.                                             *)
LEMMA LeadsLost ==
  ASSUME NEW q \in Seq(ApiCall), NEW f, NEW v, Leads(f, q, v)
  PROVE  \E w \in {v, Off} : Leads(Off, q, w)
<1>1. PICK h : Course(h, q, f) /\ h[Len(q)] = v
  BY DEF Leads
<1> DEFINE Sets(k) == \E j \in 1..k : q[j].call \in {"startFix", "stopFix", "open"}
           g == [k \in 0..Len(q) |-> IF Sets(k) THEN h[k] ELSE Off]
<1>2. Len(q) \in Nat /\ Off \in Fixes
  BY DEF Fixes
<1>3. g \in [0..Len(q) -> Fixes]
  BY <1>1, <1>2 DEF Course
<1>4. g[0] = Off
  BY <1>2
<1>5. g[Len(q)] \in {v, Off}
  BY <1>1, <1>2
<1>6. ASSUME NEW k \in 1..Len(q)
      PROVE  g[k] = Effect(q[k], g[k - 1]) /\ (q[k].call = "configure" => g[k - 1] = Off)
  <2>1. k - 1 \in 0..Len(q) /\ k \in 0..Len(q) /\ k \in 1..k
    BY <1>2
  <2>2. h[k] = Effect(q[k], h[k - 1]) /\ (q[k].call = "configure" => h[k - 1] = Off)
    BY <1>1 DEF Course
  <2>3. g[k - 1] \in {h[k - 1], Off}
    BY <2>1
  <2>4. CASE q[k].call \in {"startFix", "stopFix", "open"}
    <3>1. g[k] = h[k]
      BY <2>1, <2>4
    <3>2. q[k].call # "configure" /\ Effect(q[k], g[k - 1]) = Effect(q[k], h[k - 1])
      BY <2>4 DEF Effect
    <3> QED
      BY <2>2, <3>1, <3>2
  <2>5. CASE q[k].call \notin {"startFix", "stopFix", "open"}
    <3>1. Sets(k) <=> Sets(k - 1)
      <4>1. ASSUME NEW j \in 1..k, j \notin 1..(k - 1)
            PROVE  j = k
        BY <4>1
      <4>2. \A j \in 1..(k - 1) : j \in 1..k
        OBVIOUS
      <4> QED
        BY <2>5, <4>1, <4>2
    <3>2. h[k] = h[k - 1]
      BY <2>2, <2>5 DEF Effect
    <3>3. g[k] = g[k - 1]
      <4> HIDE DEF Sets
      <4> QED
        BY <2>1, <3>1, <3>2
    <3>4. Effect(q[k], g[k - 1]) = g[k - 1]
      BY <2>5 DEF Effect
    <3> QED
      BY <2>2, <2>3, <3>3, <3>4
  <2> QED
    BY <2>4, <2>5
<1> HIDE DEF g
<1>7. Course(g, q, Off)
  BY <1>3, <1>4, <1>6 DEF Course
<1> QED
  BY <1>5, <1>7 DEF Leads

(* The same for the calls a decision posts.                                *)
LEMMA PostNothing ==
  ASSUME TypeOK, NEW v, Leads(fix, api, v), UNCHANGED fix, UNCHANGED api \/ PostCalls(<<>>)
  PROVE  Leads(fix', api', v)
<1>1. api' = api
  BY ConcatNothing DEF PostCalls, TypeOK
<1> QED
  BY <1>1

LEMMA LeadsStart ==
  ASSUME NEW q \in Seq(ApiCall), NEW f, NEW v, Leads(f, q, v), NEW i \in Intervals, NEW then \in Response
  PROVE  /\ Leads(f, q \o StartFix(i, then), i)
         /\ q \o StartFix(i, then) = Append(q, [call |-> "startFix", interval |-> i, then |-> then])
<1> DEFINE c == [call |-> "startFix", interval |-> i, then |-> then]
<1>1. c \in ApiCall /\ c.call # "configure" /\ Effect(c, v) = i
  BY StartFixType DEF Effect
<1> HIDE DEF c
<1>2. Leads(f, Append(q, c), i)
  BY <1>1, LeadsAppend
<1>3. q \o <<c>> = Append(q, c)
  BY <1>1, ConcatIsAppend
<1> QED
  BY <1>2, <1>3 DEF StartFix, c

LEMMA LeadsStop ==
  ASSUME NEW q \in Seq(ApiCall), NEW f, NEW v, Leads(f, q, v), NEW then \in Response
  PROVE  /\ Leads(f, q \o StopFix(then), Off)
         /\ q \o StopFix(then) = Append(q, [call |-> "stopFix", then |-> then])
<1> DEFINE c == [call |-> "stopFix", then |-> then]
<1>1. c \in ApiCall /\ c.call # "configure" /\ Effect(c, v) = Off
  BY StopFixType DEF Effect
<1> HIDE DEF c
<1>2. Leads(f, Append(q, c), Off)
  BY <1>1, LeadsAppend
<1>3. q \o <<c>> = Append(q, c)
  BY <1>1, ConcatIsAppend
<1> QED
  BY <1>2, <1>3 DEF StopFix, c

LEMMA LeadsConfigure ==
  ASSUME NEW q \in Seq(ApiCall), NEW f, Leads(f, q, Off)
  PROVE  /\ Leads(f, q \o <<[call |-> "configure"]>>, Off)
         /\ q \o <<[call |-> "configure"]>> \in Seq(ApiCall)
<1> DEFINE c == [call |-> "configure"]
<1>1. c \in ApiCall /\ Effect(c, Off) = Off
  BY DEF Effect, ApiCall
<1> HIDE DEF c
<1>2. Leads(f, Append(q, c), Off)
  BY <1>1, LeadsAppend
<1>3. q \o <<c>> = Append(q, c) /\ Append(q, c) \in Seq(ApiCall)
  BY <1>1, ConcatIsAppend, AppendElements
<1> QED
  BY <1>2, <1>3 DEF c

(* No call that waits is lost when others are posted.                      *)
LEMMA PostKeeps ==
  ASSUME NEW q \in Seq(ApiCall), NEW p \in Seq(ApiCall)
  PROVE  Among(q) \subseteq Among(q \o p)
  BY AmongConcat

-----------------------------------------------------------------------------
(* The engine follows the sessions: the calls that wait lead to a fix that *)
(* serves those that are tracked now, unless an engine that came back is   *)
(* not yet told of them.                                                   *)
Reopens ==
  \/ \E c \in Among(api) : c.call = "open"
  \/ \E m \in Among(queue) : m.kind = "engineUp"

Serves(v) ==
  /\ Live = {} => v = Off
  /\ Live # {} => v # Off \/ Reopens
  /\ world = "plain" => Within(v, Live)

FixFollows == world # "flaky" => \E v : Leads(fix, api, v) /\ Serves(v)

(* What each kind of world rules out.                                      *)
WorldRules ==
  /\ world # "distance" =>
       /\ pending = <<>>
       /\ \A m \in Among(queue) : m.kind \in {"start", "update"} => ~m.options.distance
  /\ world # "flaky" => \A m \in Among(queue) : m.kind = "response" => m.ok

LEMMA AmongMessages ==
  \A q, p \in Seq(Message) : Among(q \o p) = Among(q) \union Among(p)
  BY AmongConcat

LEMMA HeadAmong ==
  ASSUME TypeOK, queue # <<>>
  PROVE  /\ Head(queue) \in Among(queue)
         /\ \A m \in Among(queue) : m = Head(queue) \/ m \in Among(Tail(queue))
         /\ Among(Tail(queue)) \subseteq Among(queue)
  BY AmongTail DEF TypeOK

LEMMA CallAmong ==
  ASSUME TypeOK, api # <<>>
  PROVE  /\ Head(api) \in Among(api)
         /\ \A c \in Among(api) : c = Head(api) \/ c \in Among(Tail(api))
         /\ Among(Tail(api)) \subseteq Among(api)
  BY AmongTail DEF TypeOK

(* The adapter's steps other than EngineUp take a message and post calls.  *)
LEMMA ReopensStays ==
  ASSUME TypeOK, Reopens, queue # <<>>, Head(queue).kind # "engineUp", queue' = Tail(queue),
         Among(api) \subseteq Among(api')
  PROVE  Reopens'
<1>1. \A m \in Among(queue) : m.kind = "engineUp" => m \in Among(queue')
  BY HeadAmong
<1> QED
  BY <1>1 DEF Reopens

LEMMA SaveParts ==
  ASSUME TypeOK, NEW s \in Sessions, NEW o, Save(s, o)
  PROVE  /\ sessions'[s] = o /\ \A t \in Sessions \ {s} : sessions'[t] = sessions[t]
         /\ Live' = IF o = None THEN Live \ {s} ELSE Live \union {s}
<1>1. sessions'[s] = o /\ \A t \in Sessions \ {s} : sessions'[t] = sessions[t]
  BY DEF TypeOK, Save
<1> QED
  BY <1>1 DEF Live, Tracks

(* A session that is saved at o, and the fix at v or less for the others.  *)
LEMMA ServesSaved ==
  ASSUME TypeOK, NEW s \in Sessions, NEW o \in Options, Save(s, o), NEW v \in Fixes, UNCHANGED world,
         v # Off \/ Reopens',
         world = "plain" => v <= o.interval /\ Within(v, Live \ {s})
  PROVE  Serves(v)'
<1>1. /\ sessions'[s] = o /\ Live' = Live \union {s}
      /\ \A t \in Live \ {s} : sessions'[t] = sessions[t]
  BY SaveParts, OptionParts DEF Live
<1>2. world = "plain" => Within(v, Live)'
  BY <1>1 DEF Within
<1> QED
  BY <1>1, <1>2 DEF Serves

LEMMA ServesEnded ==
  ASSUME TypeOK, NEW s \in Sessions, Save(s, None), NEW v \in Fixes, UNCHANGED world,
         Live \ {s} = {} => v = Off,
         Live \ {s} # {} => v # Off \/ Reopens',
         world = "plain" => Within(v, Live \ {s})
  PROVE  Serves(v)'
<1>1. Live' = Live \ {s} /\ \A t \in Live \ {s} : sessions'[t] = sessions[t]
  BY SaveParts DEF Live
<1>2. world = "plain" => Within(v, Live)'
  BY <1>1 DEF Within
<1> QED
  BY <1>1, <1>2 DEF Serves

LEMMA ServesKept ==
  ASSUME NEW v, Serves(v), UNCHANGED <<sessions, world>>, Reopens => Reopens'
  PROVE  Serves(v)'
<1>1. Live' = Live /\ (Within(v, Live)' <=> Within(v, Live))
  BY DEF Live, Tracks, Within
<1> QED
  BY <1>1 DEF Serves

LEMMA AmongTyped ==
  ASSUME NEW M, NEW q \in Seq(M)
  PROVE  Among(q) \subseteq M
  BY DEF Among

(* Every step of the adapter takes the message at the head of the queue,   *)
(* and only EngineUp puts others back.                                     *)
LEMMA AdapterTakes ==
  ASSUME TypeOK, AdapterStep
  PROVE  /\ queue # <<>> /\ UNCHANGED <<fix, world>>
         /\ queue' = Tail(queue) \/ EngineUp
         /\ UNCHANGED pending \/ Wait \/ EngineUp
<1>1. CASE Wait \/ StartWithoutCallbacks \/ StartTracking
  BY <1>1 DEF Wait, StartWithoutCallbacks, StartTracking, Receives, adapterVars
<1>2. CASE UpdateUnknown \/ UpdateTracking \/ SwitchToDistance
  BY <1>2 DEF UpdateUnknown, UpdateTracking, SwitchToDistance, Receives, adapterVars
<1>3. CASE StopTracking \/ StopClientSessions \/ EngineUp \/ Reconfigure
  BY <1>3 DEF StopTracking, StopClientSessions, EngineUp, Reconfigure, Receives, adapterVars
<1>4. CASE StartResponded \/ UpdateResponded \/ StopResponded
  BY <1>4 DEF StartResponded, UpdateResponded, StopResponded, Receives, adapterVars
<1> QED
  BY <1>1, <1>2, <1>3, <1>4 DEF AdapterStep

(* What a step of the engine adds to the adapter's queue.                  *)
LEMMA ApiTakes ==
  ASSUME TypeOK, ApiStep
  PROVE  /\ api # <<>> /\ api' = Tail(api) /\ UNCHANGED <<adapterVars, clientVars, world>>
         /\ \/ UNCHANGED queue /\ ~Runs("open")
            \/ \E ok \in BOOLEAN :
                 /\ Head(api).call \in {"startFix", "stopFix"} /\ Head(api).then # Nobody
                 /\ Head(api).then \in Response /\ (ok \/ world = "flaky")
                 /\ queue' = Append(queue, [kind |-> "response", to |-> Head(api).then, ok |-> ok])
            \/ Head(api).call = "open" /\ queue' = Append(queue, [kind |-> "engineUp"])
         /\ world # "flaky" => fix' = Effect(Head(api), fix)
<1>1. CASE StartTimeBasedTracking
  <2>1. Head(api).then \in Response /\ Head(api).call = "startFix"
    BY <1>1, CallParts DEF StartTimeBasedTracking
  <2>2. \/ fix' = Head(api).interval /\ ReturnToSender(TRUE)
        \/ world = "flaky" /\ ReturnToSender(FALSE)
    BY <1>1 DEF StartTimeBasedTracking
  <2>3. world # "flaky" => fix' = Effect(Head(api), fix)
    BY <2>1, <2>2 DEF Effect
  <2>4. api # <<>> /\ api' = Tail(api) /\ UNCHANGED <<adapterVars, clientVars, world>>
    BY <1>1 DEF StartTimeBasedTracking, Runs
  <2> QED
    BY <2>1, <2>2, <2>3, <2>4 DEF ReturnToSender, Runs
<1>2. CASE StopTimeBasedTracking
  <2>1. Head(api).then \in Response /\ Head(api).call = "stopFix"
    BY <1>2, CallParts DEF StopTimeBasedTracking
  <2>2. \/ fix' = Off /\ ReturnToSender(TRUE)
        \/ world = "flaky" /\ ReturnToSender(FALSE)
    BY <1>2 DEF StopTimeBasedTracking
  <2>3. world # "flaky" => fix' = Effect(Head(api), fix)
    BY <2>1, <2>2 DEF Effect
  <2>4. api # <<>> /\ api' = Tail(api) /\ UNCHANGED <<adapterVars, clientVars, world>>
    BY <1>2 DEF StopTimeBasedTracking, Runs
  <2> QED
    BY <2>1, <2>2, <2>3, <2>4 DEF ReturnToSender, Runs
<1>3. CASE Configure
  BY <1>3 DEF Configure, Runs, Effect
<1>4. CASE Open
  BY <1>4 DEF Open, Runs, Effect
<1> QED
  BY <1>1, <1>2, <1>3, <1>4 DEF ApiStep

(* What a client adds to it.                                               *)
LEMMA ClientSends ==
  ASSUME TypeOK, ClientStep
  PROVE  /\ UNCHANGED <<adapterVars, api, fix, world>>
         /\ \E m \in Message : /\ queue' = Append(queue, m) /\ m.kind \notin {"response", "engineUp"}
                               /\ m.kind \in {"start", "update"} /\ m.options.distance => world = "distance"
<1>1. UNCHANGED <<adapterVars, api, fix, world>>
  BY DEF ClientStep, StartTrackingCommand, UpdateTrackingOptionsCommand, StopTrackingCommand,
         RemoveClientCommand, ReconfigureCommand
<1>2. ASSUME NEW s \in Sessions, NEW o \in Options,
             StartTrackingCommand(s, o) \/ UpdateTrackingOptionsCommand(s, o)
      PROVE  \E m \in Message : /\ queue' = Append(queue, m) /\ m.kind \notin {"response", "engineUp"}
                                /\ m.kind \in {"start", "update"} /\ m.options.distance => world = "distance"
  BY <1>2 DEF StartTrackingCommand, UpdateTrackingOptionsCommand, SendCommand, Message, Command
<1>3. ASSUME NEW s \in Sessions, StopTrackingCommand(s) \/ RemoveClientCommand(s)
      PROVE  \E m \in Message : queue' = Append(queue, m) /\ m.kind \in {"stop", "remove"}
  BY <1>3 DEF StopTrackingCommand, RemoveClientCommand, SendCommand, Message, Command
<1>4. ASSUME ReconfigureCommand
      PROVE  \E m \in Message : queue' = Append(queue, m) /\ m.kind = "reconfigure"
  BY <1>4 DEF ReconfigureCommand, SendCommand, Message
<1> QED
  BY <1>1, <1>2, <1>3, <1>4 DEF ClientStep

LEMMA WorldRulesInit == Init => WorldRules
  BY AmongNothing DEF Init, WorldRules

LEMMA WorldRulesStep == TypeOK /\ WorldRules /\ [Next]_vars => WorldRules'
<1> SUFFICES ASSUME TypeOK, WorldRules, [Next]_vars
             PROVE  WorldRules'
  OBVIOUS
<1>0. queue \in Seq(Message) /\ pending \in Seq(Command \union {Freed})
  BY DEF TypeOK
<1>1. CASE UNCHANGED vars
  BY <1>1 DEF WorldRules, vars, adapterVars
<1>2. CASE AdapterStep
  <2>1. UNCHANGED world
    BY <1>2, AdapterTakes
  <2>2. Among(queue') \subseteq Among(queue) \union Among(pending)
    <3>1. CASE queue' = Tail(queue)
      BY <1>2, <3>1, AdapterTakes, HeadAmong
    <3>2. CASE EngineUp
      <4>1. queue' = Tail(queue) \o pending /\ queue # <<>>
        BY <3>2 DEF EngineUp, SendPending, Receives
      <4>2. Tail(queue) \in Seq(Message) /\ pending \in Seq(Message)
        <5>1. Tail(queue) \in Seq(Message)
          BY <1>0, <4>1, TailElements
        <5>2. pending \in Seq(Message)
          BY <1>0, PendingAreMessages
        <5> QED
          BY <5>1, <5>2
      <4>3. Among(queue') = Among(Tail(queue)) \union Among(pending)
        <5>1. Among(Tail(queue) \o pending) = Among(Tail(queue)) \union Among(pending)
          BY <4>2, AmongMessages
        <5> QED
          BY <4>1, <5>1
      <4>4. Among(Tail(queue)) \subseteq Among(queue)
        BY <4>1, HeadAmong
      <4> QED
        BY <4>3, <4>4
    <3> QED
      BY <1>2, <3>1, <3>2, AdapterTakes
  <2>3. \A m \in Among(pending) : m.kind # "response"
    BY <1>0, AmongTyped DEF Command, Freed
  <2>4. world # "distance" => pending' = <<>>
    <3>0. world # "distance" => pending = <<>>
      BY DEF WorldRules
    <3>2. CASE EngineUp
      <4>1. Len(pending') = Len(pending) /\ pending' \in Seq(Command \union {Freed})
        BY <3>2, PendingSent DEF EngineUp
      <4>2. \A p \in Seq(Command \union {Freed}) : Len(p) = 0 => p = <<>>
        OBVIOUS
      <4> QED
        BY <3>0, <4>1, <4>2
    <3>1. CASE Wait
      <4>1. queue # <<>> /\ Head(queue).kind \in {"start", "update"} /\ Head(queue).options.distance
        BY <3>1 DEF Wait, Receives, MustWait
      <4>2. Head(queue) \in Among(queue)
        BY <4>1, HeadAmong
      <4> QED
        BY <4>1, <4>2 DEF WorldRules
    <3> QED
      BY <1>2, <3>0, <3>1, <3>2, AdapterTakes
  <2>5. world # "distance" => Among(pending) = {}
    BY AmongNothing DEF WorldRules
  <2> QED
    BY <2>1, <2>2, <2>3, <2>4, <2>5 DEF WorldRules
<1>3. CASE ApiStep
  <2>1. UNCHANGED <<pending, world>>
    BY <1>3, ApiTakes DEF adapterVars
  <2>2. \A ok \in BOOLEAN : Head(api).then \in Response =>
          [kind |-> "response", to |-> Head(api).then, ok |-> ok] \in Message
    BY DEF Message
  <2>3. [kind |-> "engineUp"] \in Message
    BY DEF Message
  <2>4. \/ UNCHANGED queue
        \/ \E m \in Message : /\ queue' = Append(queue, m)
                              /\ \/ m.kind = "engineUp"
                                 \/ m.kind = "response" /\ (m.ok \/ world = "flaky")
    BY <1>3, <2>2, <2>3, ApiTakes
  <2>5. \A m \in Message : queue' = Append(queue, m) => Among(queue') = Among(queue) \union {m}
    BY <1>0, AmongAppend
  <2> QED
    BY <2>1, <2>4, <2>5 DEF WorldRules
<1>4. CASE EngineDown
  BY <1>4 DEF EngineDown, WorldRules, adapterVars
<1>5. CASE ClientStep
  <2>1. UNCHANGED <<pending, world>>
    BY <1>5, ClientSends DEF adapterVars
  <2>2. PICK m \in Message : /\ queue' = Append(queue, m) /\ m.kind \notin {"response", "engineUp"}
                             /\ m.kind \in {"start", "update"} /\ m.options.distance => world = "distance"
    BY <1>5, ClientSends
  <2>3. Among(queue') = Among(queue) \union {m}
    BY <1>0, <2>2, AmongAppend
  <2> QED
    BY <2>1, <2>2, <2>3 DEF WorldRules
<1> QED
  BY <1>1, <1>2, <1>3, <1>4, <1>5 DEF Next

-----------------------------------------------------------------------------
(* Each action keeps the fix at the sessions' service.                     *)
LeadsServed == \E v : Leads(fix, api, v) /\ Serves(v)

LEMMA StartServes ==
  TypeOK /\ LeadsServed /\ StartTracking => LeadsServed'
<1> SUFFICES ASSUME TypeOK, LeadsServed, StartTracking
             PROVE  LeadsServed'
  OBVIOUS
<1> DEFINE s == Head(queue).key
           o == Head(queue).options
           then == [of |-> "start", key |-> s]
<1>1. PICK v : Leads(fix, api, v) /\ Serves(v)
  BY DEF LeadsServed
<1>2. s \in Sessions /\ o \in Options
  BY HeadParts DEF StartTracking
<1>3. /\ Save(s, o) /\ PostCalls(StartMultiplex(s, o)) /\ UNCHANGED <<fix, world>>
      /\ queue # <<>> /\ queue' = Tail(queue) /\ Head(queue).kind = "start"
  BY DEF StartTracking, Receives
<1> HIDE DEF s, o
<1>4. /\ api \in Seq(ApiCall) /\ sessions \in [Sessions -> Options \union {None}]
      /\ v \in Fixes /\ then \in Response /\ fix \in Fixes
  BY <1>1, <1>2, LeadsType, ResponseTypes DEF TypeOK, Fixes
<1>5. CASE /\ StartMultiplex(s, o) = <<>>
           /\ \E t \in Live : sessions[t].interval <= o.interval
  <2>1. Leads(fix', api', v)
    BY <1>1, <1>3, <1>5, PostNothing
  <2>2. api' = api
    BY <1>3, <1>4, <1>5, ConcatNothing DEF PostCalls
  <2>3. v # Off \/ Reopens'
    <3>1. v # Off \/ Reopens
      BY <1>1, <1>5 DEF Serves
    <3> QED
      BY <1>3, <2>2, <3>1, ReopensStays
  <2>4. world = "plain" => v <= o.interval /\ Within(v, Live \ {s})
    <3>1. PICK t \in Live : sessions[t].interval <= o.interval
      BY <1>5
    <3>2. sessions[t].interval \in Nat /\ o.interval \in Nat /\ v \in Nat
      BY <1>2, <1>4, LiveParts, OptionParts, IntervalsAreLengths DEF Fixes, Off
    <3> QED
      BY <1>1, <3>1, <3>2 DEF Serves, Within
  <2>5. Serves(v)'
    BY <1>2, <1>3, <1>4, <2>3, <2>4, ServesSaved
  <2> QED
    BY <2>1, <2>5 DEF LeadsServed
<1>6. ASSUME NEW i \in Intervals, StartMultiplex(s, o) = StartFix(i, then),
             i <= o.interval, Within(i, Live)
      PROVE  LeadsServed'
  <2>1. Leads(fix', api', i)
    BY <1>1, <1>3, <1>4, <1>6, LeadsStart DEF PostCalls
  <2>2. i \in Fixes /\ i # Off
    BY IntervalsAreLengths DEF Fixes, Off
  <2>3. Within(i, Live \ {s})
    BY <1>6 DEF Within
  <2>4. Serves(i)'
    BY <1>2, <1>3, <1>6, <2>2, <2>3, ServesSaved
  <2> QED
    BY <2>1, <2>4 DEF LeadsServed
<1> QED
  BY <1>2, <1>4, <1>5, <1>6, StartMultiplexFacts

LEMMA UpdateServes ==
  TypeOK /\ LeadsServed /\ UpdateTracking => LeadsServed'
<1> SUFFICES ASSUME TypeOK, LeadsServed, UpdateTracking
             PROVE  LeadsServed'
  OBVIOUS
<1> DEFINE s == Head(queue).key
           o == Head(queue).options
           then == [of |-> "update", key |-> s, old |-> sessions[s]]
<1>1. PICK v : Leads(fix, api, v) /\ Serves(v)
  BY DEF LeadsServed
<1>2. s \in Sessions /\ o \in Options
  BY HeadParts DEF UpdateTracking
<1>3. /\ Save(s, o) /\ PostCalls(UpdateMultiplex(s, o)) /\ UNCHANGED <<fix, world>> /\ Tracks(s)
      /\ queue # <<>> /\ queue' = Tail(queue) /\ Head(queue).kind = "update"
  BY DEF UpdateTracking, Receives
<1> HIDE DEF s, o
<1>4. /\ api \in Seq(ApiCall) /\ sessions \in [Sessions -> Options \union {None}]
      /\ v \in Fixes /\ s \in Live
  BY <1>1, <1>2, <1>3, LeadsType DEF TypeOK, Live
<1>5. then \in Response
  BY <1>2, <1>4, ResponseTypes, LiveParts
<1> HIDE DEF then
<1>6. CASE /\ UpdateMultiplex(s, o) = <<>>
           /\ \/ o.interval = sessions[s].interval
              \/ \E t \in Live \ {s} : sessions[t].interval <= o.interval
  <2>1. Leads(fix', api', v)
    BY <1>1, <1>3, <1>6, PostNothing
  <2>2. api' = api
    BY <1>3, <1>4, <1>6, ConcatNothing DEF PostCalls
  <2>3. v # Off \/ Reopens'
    <3>1. v # Off \/ Reopens
      BY <1>1, <1>4 DEF Serves
    <3> QED
      BY <1>3, <2>2, <3>1, ReopensStays
  <2>4. world = "plain" => v <= o.interval /\ Within(v, Live \ {s})
    <3>1. PICK t \in Live : sessions[t].interval <= o.interval
      <4>1. o.interval \in Nat
        BY <1>2, OptionParts
      <4> QED
        BY <1>4, <1>6, <4>1
    <3>2. sessions[t].interval \in Nat /\ o.interval \in Nat /\ v \in Nat
      BY <1>2, <1>4, LiveParts, OptionParts, IntervalsAreLengths DEF Fixes, Off
    <3> QED
      BY <1>1, <3>1, <3>2 DEF Serves, Within
  <2>5. Serves(v)'
    BY <1>2, <1>3, <1>4, <2>3, <2>4, ServesSaved
  <2> QED
    BY <2>1, <2>5 DEF LeadsServed
<1>7. ASSUME NEW i \in Intervals, UpdateMultiplex(s, o) = StartFix(i, then),
             i <= o.interval, Within(i, Live \ {s})
      PROVE  LeadsServed'
  <2>1. Leads(fix', api', i)
    BY <1>1, <1>3, <1>4, <1>5, <1>7, LeadsStart DEF PostCalls
  <2>2. i \in Fixes /\ i # Off
    BY IntervalsAreLengths DEF Fixes, Off
  <2>4. Serves(i)'
    BY <1>2, <1>3, <1>7, <2>2, ServesSaved
  <2> QED
    BY <2>1, <2>4 DEF LeadsServed
<1> QED
  BY <1>2, <1>4, <1>6, <1>7, UpdateMultiplexFacts DEF then

(* The end of a session: the multiplexing of a stop.                       *)
LEMMA StopLeads ==
  ASSUME TypeOK, NEW s \in Live, NEW v, Leads(fix, api, v), Serves(v)
  PROVE  \E w \in Fixes : /\ Leads(fix, api \o StopMultiplex(s), w) /\ api \o StopMultiplex(s) \in Seq(ApiCall)
                          /\ Live \ {s} = {} => w = Off
                          /\ Live \ {s} # {} => w # Off \/ Reopens
                          /\ world = "plain" => Within(w, Live \ {s})
<1>1. /\ api \in Seq(ApiCall) /\ sessions \in [Sessions -> Options \union {None}] /\ s \in Sessions
      /\ v \in Fixes /\ Off \in Fixes
  BY LeadsType, LiveParts DEF TypeOK, Fixes
<1>2. [of |-> "stop", key |-> s] \in Response /\ [of |-> "restart", key |-> s] \in Response
  BY <1>1, ResponseTypes
<1>0. api \o StopMultiplex(s) \in Seq(ApiCall)
  BY <1>1, EndingTypes, ConcatType
<1>3. CASE StopMultiplex(s) = <<>> /\ Live \ {s} # {}
  <2>1. Leads(fix, api \o StopMultiplex(s), v)
    BY <1>1, <1>3, ConcatNothing
  <2>2. /\ v # Off \/ Reopens
        /\ world = "plain" => Within(v, Live \ {s})
    BY DEF Serves, Within
  <2> QED
    BY <1>0, <1>1, <1>3, <2>1, <2>2
<1>4. CASE StopMultiplex(s) = StopFix([of |-> "stop", key |-> s]) /\ Live \ {s} = {}
  <2>1. Leads(fix, api \o StopMultiplex(s), Off)
    BY <1>1, <1>2, <1>4, LeadsStop
  <2>2. Within(Off, Live \ {s})
    BY <1>4 DEF Within
  <2> QED
    BY <1>0, <1>1, <1>4, <2>1, <2>2
<1>5. ASSUME NEW i \in Intervals, StopMultiplex(s) = StartFix(i, [of |-> "restart", key |-> s]),
             Live \ {s} # {}, Within(i, Live \ {s})
      PROVE  /\ Leads(fix, api \o StopMultiplex(s), i) /\ i \in Fixes /\ i # Off
             /\ Live \ {s} # {} /\ Within(i, Live \ {s})
  <2>1. Leads(fix, api \o StopMultiplex(s), i)
    BY <1>1, <1>2, <1>5, LeadsStart
  <2> QED
    BY <1>5, <2>1, IntervalsAreLengths DEF Fixes, Off
<1> QED
  BY <1>0, <1>1, <1>3, <1>4, <1>5, StopMultiplexFacts

LEMMA SwitchServes ==
  TypeOK /\ WorldRules /\ LeadsServed /\ SwitchToDistance => LeadsServed'
<1> SUFFICES ASSUME TypeOK, WorldRules, LeadsServed, SwitchToDistance
             PROVE  LeadsServed'
  OBVIOUS
<1> DEFINE s == Head(queue).key
           o == Head(queue).options
<1>1. PICK v : Leads(fix, api, v) /\ Serves(v)
  BY DEF LeadsServed
<1>2. s \in Sessions /\ o \in Options
  BY HeadParts DEF SwitchToDistance
<1>3. /\ Save(s, o) /\ PostCalls(StopMultiplex(s) \o StartFix(o.interval, Nobody)) /\ UNCHANGED <<fix, world>>
      /\ Tracks(s) /\ o.distance /\ queue # <<>> /\ queue' = Tail(queue) /\ Head(queue).kind = "update"
  BY DEF SwitchToDistance, Receives
<1>4. world = "distance"
  BY <1>3, HeadAmong DEF WorldRules
<1> HIDE DEF s, o
<1>5. s \in Live
  BY <1>2, <1>3 DEF Live
<1>6. PICK w \in Fixes : /\ Leads(fix, api \o StopMultiplex(s), w) /\ api \o StopMultiplex(s) \in Seq(ApiCall)
                         /\ Live \ {s} = {} => w = Off
                         /\ Live \ {s} # {} => w # Off \/ Reopens
                         /\ world = "plain" => Within(w, Live \ {s})
  BY <1>1, <1>5, StopLeads
<1>7. PICK i \in Intervals : i = o.interval
  BY <1>2, OptionParts
<1>8. Nobody \in Response /\ i \in Fixes /\ i # Off
  BY IntervalsAreLengths DEF Response, Nobody, Fixes, Off
<1>9. Leads(fix, (api \o StopMultiplex(s)) \o StartFix(i, Nobody), i)
  BY <1>6, <1>8, LeadsStart
<1>10. api' = (api \o StopMultiplex(s)) \o StartFix(i, Nobody)
  <2>1. /\ api \in Seq(ApiCall) /\ StopMultiplex(s) \in Seq(ApiCall)
        /\ StartFix(i, Nobody) \in Seq(ApiCall)
    BY <1>5, <1>8, EndingTypes, StartFixType DEF TypeOK
  <2>2. \A p, q, r \in Seq(ApiCall) : p \o (q \o r) = (p \o q) \o r
    OBVIOUS
  <2> QED
    BY <1>3, <1>7, <2>1, <2>2 DEF PostCalls
<1>11. Serves(i)'
  BY <1>2, <1>3, <1>4, <1>8, ServesSaved
<1> QED
  BY <1>3, <1>9, <1>10, <1>11 DEF LeadsServed

LEMMA EndServes ==
  ASSUME TypeOK, LeadsServed, NEW s \in Sessions, UNCHANGED <<fix, world>>,
         queue # <<>>, queue' = Tail(queue), Head(queue).kind # "engineUp",
         \/ Tracks(s) /\ Save(s, None) /\ PostCalls(StopMultiplex(s))
         \/ UNCHANGED <<sessions, api>>
  PROVE  LeadsServed'
<1>1. PICK v : Leads(fix, api, v) /\ Serves(v)
  BY DEF LeadsServed
<1>2. CASE Tracks(s) /\ Save(s, None) /\ PostCalls(StopMultiplex(s))
  <2>1. s \in Live
    BY <1>2 DEF Live
  <2>2. PICK w \in Fixes : /\ Leads(fix, api \o StopMultiplex(s), w) /\ api \o StopMultiplex(s) \in Seq(ApiCall)
                           /\ Live \ {s} = {} => w = Off
                           /\ Live \ {s} # {} => w # Off \/ Reopens
                           /\ world = "plain" => Within(w, Live \ {s})
    BY <1>1, <2>1, StopLeads
  <2>3. Among(api) \subseteq Among(api')
    BY <1>2, <2>1, EndingTypes, PostKeeps DEF PostCalls, TypeOK
  <2>4. Reopens => Reopens'
    BY <2>3, ReopensStays
  <2>5. Serves(w)'
    BY <1>2, <2>2, <2>4, ServesEnded
  <2> QED
    BY <1>2, <2>2, <2>5 DEF LeadsServed, PostCalls
<1>3. CASE UNCHANGED <<sessions, api>>
  <2>1. Reopens => Reopens'
    BY <1>3, ReopensStays
  <2>2. Serves(v)'
    BY <1>1, <1>3, <2>1, ServesKept
  <2> QED
    BY <1>1, <1>3, <2>2 DEF LeadsServed
<1> QED
  BY <1>2, <1>3

(* The restart of the sessions, by itself and after a suspension.          *)
LEMMA RestartLeads ==
  ASSUME TypeOK, NEW q \in Seq(ApiCall), NEW v, Leads(fix, q, v), Live = {} => v = Off
  PROVE  \E w \in Fixes : /\ Leads(fix, q \o RestartFix, w)
                          /\ Live = {} => w = Off
                          /\ Live # {} => w # Off
                          /\ Within(w, Live)
<1>1. sessions \in [Sessions -> Options \union {None}] /\ Nobody \in Response /\ v \in Fixes
  BY LeadsType DEF TypeOK, Response, Nobody
<1>2. CASE RestartFix = <<>> /\ Live = {}
  <2>1. Leads(fix, q \o RestartFix, v)
    BY <1>2, ConcatNothing
  <2>2. Within(v, Live)
    BY <1>2 DEF Within
  <2> QED
    BY <1>1, <1>2, <2>1, <2>2
<1>3. ASSUME NEW i \in Intervals, RestartFix = StartFix(i, Nobody), Live # {}, Within(i, Live)
      PROVE  i \in Fixes /\ i # Off /\ Leads(fix, q \o RestartFix, i) /\ Live # {} /\ Within(i, Live)
  <2>1. Leads(fix, q \o RestartFix, i)
    BY <1>1, <1>3, LeadsStart
  <2> QED
    BY <1>3, <2>1, IntervalsAreLengths DEF Fixes, Off
<1> QED
  BY <1>1, <1>2, <1>3, RestartFixFacts

LEMMA EngineUpServes ==
  TypeOK /\ LeadsServed /\ EngineUp => LeadsServed'
<1> SUFFICES ASSUME TypeOK, LeadsServed, EngineUp
             PROVE  LeadsServed'
  OBVIOUS
<1>1. PICK v : Leads(fix, api, v) /\ Serves(v)
  BY DEF LeadsServed
<1>2. PICK w \in Fixes : /\ Leads(fix, api \o RestartFix, w)
                         /\ Live = {} => w = Off
                         /\ Live # {} => w # Off
                         /\ Within(w, Live)
  BY <1>1, RestartLeads DEF TypeOK, Serves
<1>3. api' = api \o RestartFix /\ UNCHANGED <<fix, sessions, world>>
  BY DEF EngineUp, PostCalls
<1>4. Live' = Live /\ (Within(w, Live)' <=> Within(w, Live))
  BY <1>3 DEF Live, Tracks, Within
<1> QED
  BY <1>2, <1>3, <1>4 DEF LeadsServed, Serves

LEMMA ReconfigureServes ==
  TypeOK /\ LeadsServed /\ Reconfigure => LeadsServed'
<1> SUFFICES ASSUME TypeOK, LeadsServed, Reconfigure
             PROVE  LeadsServed'
  OBVIOUS
<1> DEFINE configure == <<[call |-> "configure"]>>
<1>1. PICK v : Leads(fix, api, v) /\ Serves(v)
  BY DEF LeadsServed
<1>2. /\ api' = api \o (SuspendFix \o configure \o RestartFix)
      /\ UNCHANGED <<fix, sessions, world>>
  BY DEF Reconfigure, PostCalls, adapterVars
<1>3. /\ api \in Seq(ApiCall) /\ SuspendFix \in Seq(ApiCall) /\ RestartFix \in Seq(ApiCall)
      /\ configure \in Seq(ApiCall) /\ Nobody \in Response
  BY EndingTypes DEF TypeOK, Response, Nobody
<1>4. Leads(fix, api \o SuspendFix, Off) /\ api \o SuspendFix \in Seq(ApiCall)
  <2>1. CASE Live = {}
    <3>1. SuspendFix = <<>> /\ v = Off
      BY <1>1, <2>1 DEF SuspendFix, Serves
    <3> QED
      BY <1>1, <1>3, <3>1, ConcatNothing
  <2>2. CASE Live # {}
    <3>1. SuspendFix = StopFix(Nobody)
      BY <2>2 DEF SuspendFix
    <3>2. Leads(fix, api \o SuspendFix, Off)
      BY <1>1, <1>3, <3>1, LeadsStop
    <3> QED
      BY <1>3, <3>2, ConcatType
  <2> QED
    BY <2>1, <2>2
<1> DEFINE q == api \o SuspendFix \o configure
<1>5. Leads(fix, q, Off) /\ q \in Seq(ApiCall)
  BY <1>4, LeadsConfigure
<1>6. api' = q \o RestartFix
  <2> HIDE DEF configure, q
  <2>1. SuspendFix \in Seq(ApiCall) /\ configure \in Seq(ApiCall) /\ RestartFix \in Seq(ApiCall)
    BY <1>3
  <2>2. api \o (SuspendFix \o configure \o RestartFix) = api \o SuspendFix \o configure \o RestartFix
    BY <1>3, <2>1
  <2> QED
    BY <1>2, <2>2 DEF q
<1> HIDE DEF q, configure
<1>7. PICK w \in Fixes : /\ Leads(fix, q \o RestartFix, w)
                         /\ Live = {} => w = Off
                         /\ Live # {} => w # Off
                         /\ Within(w, Live)
  BY <1>5, RestartLeads
<1>8. Live' = Live /\ (Within(w, Live)' <=> Within(w, Live))
  BY <1>2 DEF Live, Tracks, Within
<1> QED
  BY <1>2, <1>6, <1>7, <1>8 DEF LeadsServed, Serves

(* The steps that leave the sessions and the calls alone.                  *)
LEMMA KeptServes ==
  ASSUME TypeOK, LeadsServed, UNCHANGED <<sessions, api, fix, world>>, Reopens => Reopens'
  PROVE  LeadsServed'
<1>1. PICK v : Leads(fix, api, v) /\ Serves(v)
  BY DEF LeadsServed
<1>2. Serves(v)'
  BY <1>1, ServesKept
<1> QED
  BY <1>1, <1>2 DEF LeadsServed

LEMMA AdapterServes ==
  ASSUME TypeOK, WorldRules, world # "flaky", LeadsServed, AdapterStep
  PROVE  LeadsServed'
<1>1. ASSUME Wait \/ StartWithoutCallbacks \/ UpdateUnknown
      PROVE  LeadsServed'
  <2>1. /\ UNCHANGED <<sessions, api, fix, world>> /\ queue' = Tail(queue) /\ queue # <<>>
        /\ Head(queue).kind # "engineUp"
    BY <1>1 DEF Wait, StartWithoutCallbacks, UpdateUnknown, Receives, adapterVars
  <2>2. Reopens => Reopens'
    BY <2>1, ReopensStays
  <2> QED
    BY <2>1, <2>2, KeptServes
<1>2. ASSUME StopTracking \/ StopClientSessions
      PROVE  LeadsServed'
  <2> DEFINE s == Head(queue).key
  <2>1. s \in Sessions
    BY <1>2, HeadParts DEF StopTracking, StopClientSessions
  <2>2. /\ UNCHANGED <<fix, world>> /\ queue # <<>> /\ queue' = Tail(queue)
        /\ Head(queue).kind \in {"stop", "remove"}
        /\ \/ Tracks(s) /\ Save(s, None) /\ PostCalls(StopMultiplex(s))
           \/ UNCHANGED <<sessions, api>>
    BY <1>2 DEF StopTracking, StopClientSessions, Receives
  <2> HIDE DEF s
  <2> QED
    BY <2>1, <2>2, EndServes
<1>3. ASSUME StartResponded \/ UpdateResponded \/ StopResponded
      PROVE  LeadsServed'
  <2>1. Head(queue).kind = "response" /\ queue # <<>> /\ queue' = Tail(queue) /\ UNCHANGED <<api, fix, world>>
    BY <1>3 DEF StartResponded, UpdateResponded, StopResponded, Receives
  <2>2. Head(queue).ok
    BY <2>1, HeadAmong DEF WorldRules
  <2>3. UNCHANGED sessions
    BY <1>3, <2>2 DEF StartResponded, UpdateResponded, StopResponded
  <2>4. Reopens => Reopens'
    BY <2>1, ReopensStays
  <2> QED
    BY <2>1, <2>3, <2>4, KeptServes
<1> QED
  BY <1>1, <1>2, <1>3, StartServes, UpdateServes, SwitchServes, EngineUpServes, ReconfigureServes
     DEF AdapterStep

LEMMA ApiServes ==
  ASSUME TypeOK, world # "flaky", LeadsServed, ApiStep
  PROVE  LeadsServed'
<1>1. PICK v : Leads(fix, api, v) /\ Serves(v)
  BY DEF LeadsServed
<1>2. /\ api # <<>> /\ api' = Tail(api) /\ UNCHANGED <<sessions, world>>
      /\ fix' = Effect(Head(api), fix)
  BY ApiTakes DEF adapterVars
<1>3. Leads(fix', api', v)
  BY <1>1, <1>2, LeadsTail DEF TypeOK
<1>4. Reopens => Reopens'
  <2>1. Among(queue) \subseteq Among(queue')
    <3>1. \/ UNCHANGED queue
          \/ \E m \in Message : queue' = Append(queue, m)
      BY ApiTakes DEF Message
    <3>2. \A m \in Message : Among(queue) \subseteq Among(Append(queue, m))
      BY AmongAppend DEF TypeOK
    <3> QED
      BY <3>1, <3>2
  <2>2. Head(api).call = "open" => \E m \in Among(queue') : m.kind = "engineUp"
    <3> SUFFICES ASSUME Head(api).call = "open"
                 PROVE  \E m \in Among(queue') : m.kind = "engineUp"
      OBVIOUS
    <3>1. queue' = Append(queue, [kind |-> "engineUp"]) /\ [kind |-> "engineUp"] \in Message
      BY <1>2, ApiTakes DEF Runs, Message
    <3>2. [kind |-> "engineUp"] \in Among(queue')
      BY <3>1, AmongAppend DEF TypeOK
    <3> QED
      BY <3>2
  <2>3. \A c \in Among(api) : c = Head(api) \/ c \in Among(api')
    BY <1>2, CallAmong
  <2> QED
    BY <2>1, <2>2, <2>3 DEF Reopens
<1>5. Serves(v)'
  BY <1>1, <1>2, <1>4, ServesKept
<1> QED
  BY <1>3, <1>5 DEF LeadsServed

LEMMA EngineDownServes ==
  ASSUME TypeOK, LeadsServed, EngineDown
  PROVE  LeadsServed'
<1>1. PICK v : Leads(fix, api, v) /\ Serves(v)
  BY DEF LeadsServed
<1> DEFINE open == [call |-> "open"]
<1>2. /\ open \in ApiCall /\ api \in Seq(ApiCall) /\ open.call = "open"
      /\ api' = Append(api, open) /\ fix' = Off /\ UNCHANGED <<sessions, world>>
  BY DEF EngineDown, ApiCall, TypeOK, adapterVars
<1>3. \A w : Effect(open, w) = Off
  BY DEF Effect
<1> HIDE DEF open
<1>4. Leads(fix', api', Off)
  BY <1>1, <1>2, <1>3, LeadsLost, LeadsAppend
<1>5. Reopens'
  BY <1>2, AmongAppend DEF Reopens
<1>6. Within(Off, Live)'
  <2>1. Live' = Live /\ sessions' = sessions
    BY <1>2 DEF Live, Tracks
  <2>2. \A s \in Live : Off <= sessions[s].interval
    BY LiveParts, OptionParts DEF Off, TypeOK
  <2> QED
    BY <2>1, <2>2 DEF Within
<1> QED
  BY <1>4, <1>5, <1>6 DEF LeadsServed, Serves

LEMMA FixFollowsInit == Init => FixFollows
<1> SUFFICES ASSUME Init
             PROVE  FixFollows
  OBVIOUS
<1> DEFINE open == [call |-> "open"]
<1>1. open \in ApiCall /\ <<>> \in Seq(ApiCall) /\ api = Append(<<>>, open) /\ fix = Off /\ open.call = "open"
  BY DEF Init, ApiCall
<1>2. \A w : Effect(open, w) = Off
  BY DEF Effect
<1> HIDE DEF open
<1>3. Leads(Off, <<>>, Off)
  BY LeadsNowhere DEF Fixes
<1>4. Leads(fix, api, Off)
  BY <1>1, <1>2, <1>3, LeadsAppend
<1>5. Live = {}
  BY DEF Init, Live, Tracks
<1> QED
  BY <1>4, <1>5 DEF FixFollows, Serves, Within

LEMMA FixFollowsStep == TypeOK /\ WorldRules /\ FixFollows /\ [Next]_vars => FixFollows'
<1> SUFFICES ASSUME TypeOK, WorldRules, FixFollows, [Next]_vars, world' # "flaky"
             PROVE  LeadsServed'
  BY DEF FixFollows, LeadsServed
<1>1. UNCHANGED world
  BY AdapterTakes, ApiTakes, ClientSends DEF Next, EngineDown, vars
<1>2. LeadsServed /\ world # "flaky"
  BY <1>1 DEF FixFollows, LeadsServed
<1>3. CASE UNCHANGED vars
  <2>1. UNCHANGED <<sessions, api, fix, world, queue>>
    BY <1>3 DEF vars, adapterVars
  <2> QED
    BY <1>2, <2>1, KeptServes DEF Reopens
<1>4. CASE ClientStep
  <2>1. UNCHANGED <<sessions, api, fix, world>> /\ \E m \in Message : queue' = Append(queue, m)
    BY <1>4, ClientSends DEF adapterVars
  <2>2. Among(queue) \subseteq Among(queue')
    BY <2>1, AmongAppend DEF TypeOK
  <2>3. Reopens => Reopens'
    BY <2>1, <2>2 DEF Reopens
  <2> QED
    BY <1>2, <2>1, <2>3, KeptServes
<1> QED
  BY <1>2, <1>3, <1>4, AdapterServes, ApiServes, EngineDownServes DEF Next

-----------------------------------------------------------------------------
(* Once both queues are empty the engine serves the sessions.              *)

LEMMA ServedOnceQuiet ==
  ASSUME TypeOK, FixFollows
  PROVE  FixServesSessions
<1> SUFFICES ASSUME Quiescent, world # "flaky"
             PROVE  /\ fix = Off <=> Live = {}
                    /\ world = "plain" => \A s \in Live : fix <= sessions[s].interval
  BY DEF FixServesSessions
<1>1. PICK v : Leads(fix, api, v) /\ Serves(v)
  BY DEF FixFollows
<1>2. fix = v
  BY <1>1, LeadsNowhere DEF Quiescent
<1>3. ~Reopens
  BY AmongNothing DEF Reopens, Quiescent
<1> QED
  BY <1>1, <1>2, <1>3 DEF Serves, Within

LEMMA SuspendedAtConfigure ==
  ASSUME TypeOK, FixFollows
  PROVE  ConfiguredWhileSuspended
<1> SUFFICES ASSUME world # "flaky", Runs("configure")
             PROVE  fix = Off
  BY DEF ConfiguredWhileSuspended
<1>1. PICK v : Leads(fix, api, v)
  BY DEF FixFollows
<1> QED
  BY <1>1, LeadsTail DEF TypeOK, Runs

EngineInv == TypeOK /\ WorldRules /\ FixFollows

LEMMA EngineInvariant == Spec => []EngineInv
<1>1. Init => EngineInv
  BY TypeInit, WorldRulesInit, FixFollowsInit DEF EngineInv
<1>2. EngineInv /\ [Next]_vars => EngineInv'
  BY TypeStep, WorldRulesStep, FixFollowsStep DEF EngineInv
<1> QED
  BY <1>1, <1>2, PTL DEF Spec

(* Where engine calls succeed, whatever order starts, updates, stops,      *)
(* removals, engine restarts and reconfigurations come in: once both       *)
(* queues are empty the engine runs a fix exactly if a session is tracked  *)
(* (startTimeBasedTrackingMultiplex, updateTrackingMultiplex,              *)
(* stopTimeBasedTrackingMultiplex and checkAndRestartTimeBasedSession of   *)
(* GnssAdapter.cpp), at an interval that serves every session.             *)
THEOREM EngineServesSessions == Spec => []FixServesSessions
<1>1. EngineInv => FixServesSessions
  BY ServedOnceQuiet DEF EngineInv
<1> QED
  BY <1>1, EngineInvariant, PTL

(* Where engine calls succeed, the engine is never configured while a fix  *)
(* runs (suspendSessions before gnssUpdateSvConfig and the others).        *)
THEOREM SuspendedWhileConfigured == Spec => []ConfiguredWhileSuspended
<1>1. EngineInv => ConfiguredWhileSuspended
  BY SuspendedAtConfigure DEF EngineInv
<1> QED
  BY <1>1, EngineInvariant, PTL

-----------------------------------------------------------------------------
(* What a session's client was told.  Sent(s, kinds): a command of session *)
(* s that waits in the adapter's queue; Due(s, ofs): an answer to session  *)
(* s's client that is on its way back, or will be.                         *)
Is(m, kinds, s) == m.kind \in kinds /\ m.key = s

Sent(s, kinds) == \E m \in Among(queue) : Is(m, kinds, s)

Answers(call, s, ofs) ==
  call.call \in {"startFix", "stopFix"} /\ call.then.of \in ofs /\ call.then.key = s

Due(s, ofs) ==
  \/ \E m \in Among(queue) : m.kind = "response" /\ m.to.of \in ofs /\ m.to.key = s
  \/ \E c \in Among(api) : Answers(c, s, ofs)

(* Where engine calls succeed, a client that started a session and did not *)
(* stop it has nothing under way that would end it, and is tracked from    *)
(* the moment its start is decided.                                        *)
StartsHeld(s) ==
  /\ s \notin clients \/ Sent(s, {"remove"}) => client[s] = "removed"
  /\ client[s] \in {"new", "starting", "started"} => ~Sent(s, {"stop"})
  /\ client[s] = "started" => Tracks(s)
  /\ client[s] \in {"new", "starting"} /\ Due(s, {"start"}) => Tracks(s)

StartsFollow == world # "flaky" => \A s \in Sessions : StartsHeld(s)

(* In a plain world the commands of a session are over with its stop, and  *)
(* the session is when the stop is decided.                                *)
Over(s) == ~Sent(s, {"start", "update", "stop"}) /\ ~Tracks(s)

StopsHeld(s) ==
  /\ \A i, j \in 1..Len(queue) : i < j /\ Is(queue[i], {"stop", "remove"}, s)
                                     => ~Is(queue[j], {"start", "update", "stop"}, s)
  /\ client[s] \in {"new", "starting", "started"} => ~Due(s, {"stop", "restart"})
  /\ client[s] = "stopping" => \/ Sent(s, {"stop"}) /\ ~Due(s, {"stop", "restart"})
                               \/ Over(s)
  /\ client[s] = "stopped" => Over(s)
  /\ client[s] = "removed" => \/ Sent(s, {"remove"})
                              \/ ~Sent(s, {"start", "update"}) /\ ~Tracks(s)

StopsFollow == world = "plain" => \A s \in Sessions : StopsHeld(s)

-----------------------------------------------------------------------------
(* How each kind of step changes what is sent and what is due.             *)

LEMMA SentTaken ==
  ASSUME TypeOK, queue # <<>>, queue' = Tail(queue), NEW s, NEW kinds
  PROVE  Sent(s, kinds) <=> Sent(s, kinds)' \/ Is(Head(queue), kinds, s)
<1>1. Among(queue) = Among(queue') \union {Head(queue)}
  BY HeadAmong
<1> QED
  BY <1>1 DEF Sent

LEMMA SentAppended ==
  ASSUME TypeOK, NEW m \in Message, queue' = Append(queue, m), NEW s, NEW kinds
  PROVE  Sent(s, kinds)' <=> Sent(s, kinds) \/ Is(m, kinds, s)
<1>1. Among(queue') = Among(queue) \union {m}
  BY AmongAppend DEF TypeOK
<1> QED
  BY <1>1 DEF Sent

(* Posts(ofs): the new calls answer the session at the head of the queue,  *)
(* and only with ofs, or nobody.                                           *)
Posts(ofs) ==
  \A c \in Among(api') :
    \/ c \in Among(api)
    \/ c.call \in {"configure", "open"}
    \/ c.then.of = "nobody"
    \/ c.then.of \in ofs /\ c.then.key = Head(queue).key

LEMMA DueTaken ==
  ASSUME TypeOK, \A m \in Among(queue') : m.kind = "response" => m \in Among(queue),
         NEW ofs, Posts(ofs), NEW s, NEW wanted, "nobody" \notin wanted, Due(s, wanted)'
  PROVE  Due(s, wanted) \/ (s = Head(queue).key /\ ofs \intersect wanted # {})
<1>1. CASE \E m \in Among(queue') : m.kind = "response" /\ m.to.of \in wanted /\ m.to.key = s
  BY <1>1 DEF Due
<1>2. ASSUME NEW c \in Among(api'), Answers(c, s, wanted)
      PROVE  Due(s, wanted) \/ (s = Head(queue).key /\ ofs \intersect wanted # {})
  <2>1. c.call \in {"startFix", "stopFix"} /\ c.then.of \in wanted /\ c.then.key = s
    BY <1>2 DEF Answers
  <2>2. CASE c \in Among(api)
    BY <1>2, <2>2 DEF Due
  <2>3. CASE c.then.of \in ofs /\ c.then.key = Head(queue).key
    BY <2>1, <2>3
  <2> QED
    BY <2>1, <2>2, <2>3 DEF Posts
<1> QED
  BY <1>1, <1>2 DEF Due

LEMMA AmongOne ==
  ASSUME NEW M, NEW q \in Seq(M), NEW m \in M
  PROVE  Among(q \o <<m>>) = Among(q) \union {m} /\ q \o <<m>> \in Seq(M)
<1>1. q \o <<m>> = Append(q, m)
  BY ConcatIsAppend
<1>2. Append(q, m) \in Seq(M) /\ Among(Append(q, m)) = Among(q) \union {m}
  BY AmongAppend, AppendElements
<1> QED
  BY <1>1, <1>2

LEMMA PostsNothing ==
  ASSUME TypeOK, NEW ofs, UNCHANGED api \/ PostCalls(<<>>)
  PROVE  Posts(ofs)
<1>1. api' = api
  BY ConcatNothing DEF PostCalls, TypeOK
<1> QED
  BY <1>1 DEF Posts

LEMMA PostsStart ==
  ASSUME TypeOK, NEW i \in Intervals, NEW then \in Response, PostCalls(StartFix(i, then)), NEW ofs,
         then.of = "nobody" \/ (then.of \in ofs /\ then.key = Head(queue).key)
  PROVE  Posts(ofs)
<1> DEFINE c == [call |-> "startFix", interval |-> i, then |-> then]
<1>1. c \in ApiCall /\ c.then = then
  BY StartFixType
<1> HIDE DEF c
<1>2. Among(api') = Among(api) \union {c}
  BY <1>1, AmongOne DEF PostCalls, StartFix, c, TypeOK
<1> QED
  BY <1>1, <1>2 DEF Posts

LEMMA PostsStop ==
  ASSUME TypeOK, NEW then \in Response, PostCalls(StopFix(then)), NEW ofs,
         then.of = "nobody" \/ (then.of \in ofs /\ then.key = Head(queue).key)
  PROVE  Posts(ofs)
<1> DEFINE c == [call |-> "stopFix", then |-> then]
<1>1. c \in ApiCall /\ c.then = then
  BY StopFixType
<1> HIDE DEF c
<1>2. Among(api') = Among(api) \union {c}
  BY <1>1, AmongOne DEF PostCalls, StopFix, c, TypeOK
<1> QED
  BY <1>1, <1>2 DEF Posts

LEMMA PostsEnd ==
  ASSUME TypeOK, NEW s \in Live, s = Head(queue).key, PostCalls(StopMultiplex(s))
  PROVE  Posts({"stop", "restart"})
<1>1. sessions \in [Sessions -> Options \union {None}] /\ s \in Sessions
  BY LiveParts DEF TypeOK
<1>2. [of |-> "stop", key |-> s] \in Response /\ [of |-> "restart", key |-> s] \in Response
  BY <1>1, ResponseTypes
<1>3. CASE StopMultiplex(s) = <<>>
  BY <1>3, PostsNothing
<1>4. CASE StopMultiplex(s) = StopFix([of |-> "stop", key |-> s])
  <2>1. PostCalls(StopFix([of |-> "stop", key |-> s]))
    BY <1>4
  <2> QED
    BY <1>2, <2>1, PostsStop
<1>5. ASSUME NEW i \in Intervals, StopMultiplex(s) = StartFix(i, [of |-> "restart", key |-> s])
      PROVE  Posts({"stop", "restart"})
  <2>1. PostCalls(StartFix(i, [of |-> "restart", key |-> s]))
    BY <1>5
  <2> QED
    BY <1>2, <2>1, PostsStart
<1> QED
  BY <1>1, <1>3, <1>4, <1>5, StopMultiplexFacts

-----------------------------------------------------------------------------
(* What a step of the adapter means to session s, where engine calls       *)
(* succeed.                                                                *)
Effects(s) ==
  /\ s \notin clients' => s \notin clients \/ Is(Head(queue), {"remove"}, s)
  /\ Is(Head(queue), {"stop", "remove"}, s) => ~Tracks(s)'
  /\ Tracks(s) => Tracks(s)' \/ Is(Head(queue), {"stop", "remove"}, s)
  /\ Tracks(s)' => Tracks(s) \/ Is(Head(queue), {"start", "update"}, s)
  /\ \/ client'[s] = client[s]
     \/ client[s] = "starting" /\ client'[s] = "started" /\ (Tracks(s)' \/ Due(s, {"start"}))
     \/ /\ client[s] = "stopping" /\ client'[s] = "stopped"
        /\ Is(Head(queue), {"stop"}, s) \/ Due(s, {"stop", "restart"})
  /\ Due(s, {"start"})' => Due(s, {"start"}) \/ Tracks(s)'
  /\ Due(s, {"stop", "restart"})' =>
       Due(s, {"stop", "restart"}) \/ Is(Head(queue), {"stop", "remove"}, s) \/ world = "distance"

(* A step that answers nobody new, and changes no session.                 *)
LEMMA QuietEffects ==
  ASSUME TypeOK, NEW s \in Sessions, UNCHANGED <<clients, sessions>>, Posts({}), client'[s] = client[s],
         \A m \in Among(queue') : m.kind = "response" => m \in Among(queue),
         Head(queue).kind \notin {"stop", "remove"}
  PROVE  Effects(s)
<1>1. Tracks(s)' <=> Tracks(s)
  BY DEF Tracks
<1>2. \A wanted : "nobody" \notin wanted /\ Due(s, wanted)' => Due(s, wanted)
  BY DueTaken
<1> QED
  BY <1>1, <1>2 DEF Effects, Is

LEMMA TracksAfter ==
  ASSUME TypeOK, NEW s \in Sessions, NEW t \in Sessions
  PROVE  /\ \A o \in Options : Save(t, o) => (Tracks(s)' <=> s = t \/ Tracks(s))
         /\ Save(t, None) => (Tracks(s)' <=> s # t /\ Tracks(s))
<1>1. ASSUME NEW o \in Options, Save(t, o)
      PROVE  Tracks(s)' <=> s = t \/ Tracks(s)
  BY <1>1, SaveParts, OptionParts DEF Tracks
<1>2. ASSUME Save(t, None)
      PROVE  Tracks(s)' <=> s # t /\ Tracks(s)
  BY <1>2, SaveParts DEF Tracks
<1> QED
  BY <1>1, <1>2

LEMMA StartEffects ==
  ASSUME TypeOK, StartTracking, NEW s \in Sessions
  PROVE  Effects(s)
<1> DEFINE t == Head(queue).key
           o == Head(queue).options
<1>1. t \in Sessions /\ o \in Options
  BY HeadParts DEF StartTracking
<1>2. /\ Save(t, o) /\ PostCalls(StartMultiplex(t, o)) /\ UNCHANGED clients
      /\ queue # <<>> /\ queue' = Tail(queue) /\ Head(queue).kind = "start"
      /\ client' = AfterStart(t, TRUE) \/ UNCHANGED client
  BY DEF StartTracking, Receives, clientVars
<1>3. Posts({"start"})
  <2>1. sessions \in [Sessions -> Options \union {None}] /\ [of |-> "start", key |-> t] \in Response
    BY <1>1, ResponseTypes DEF TypeOK
  <2>2. CASE StartMultiplex(t, o) = <<>>
    BY <1>2, <2>2, PostsNothing
  <2>3. ASSUME NEW i \in Intervals, StartMultiplex(t, o) = StartFix(i, [of |-> "start", key |-> t])
        PROVE  Posts({"start"})
    <3>1. PostCalls(StartFix(i, [of |-> "start", key |-> t]))
      BY <1>2, <2>3
    <3> QED
      BY <2>1, <3>1, PostsStart
  <2> QED
    BY <1>1, <2>1, <2>2, <2>3, StartMultiplexFacts
<1>4. Is(Head(queue), {"start", "update"}, s) <=> s = t
  BY <1>2 DEF Is
<1> HIDE DEF t, o
<1>5. Tracks(s)' <=> s = t \/ Tracks(s)
  BY <1>1, <1>2, TracksAfter
<1>6. \A m \in Among(queue') : m.kind = "response" => m \in Among(queue)
  BY <1>2, HeadAmong
<1>7. Due(s, {"start"})' => Due(s, {"start"}) \/ s = t
  BY <1>3, <1>6, DueTaken DEF t
<1>8. Due(s, {"stop", "restart"})' => Due(s, {"stop", "restart"})
  BY <1>3, <1>6, DueTaken
<1>9. \/ client'[s] = client[s]
      \/ s = t /\ client[s] = "starting" /\ client'[s] = "started"
  BY <1>1, <1>2 DEF AfterStart, TypeOK
<1>10. ~Is(Head(queue), {"stop", "remove"}, s)
  BY <1>2 DEF Is
<1> QED
  BY <1>2, <1>4, <1>5, <1>7, <1>8, <1>9, <1>10 DEF Effects

LEMMA UpdateEffects ==
  ASSUME TypeOK, UpdateTracking, NEW s \in Sessions
  PROVE  Effects(s)
<1> DEFINE t == Head(queue).key
           o == Head(queue).options
           then == [of |-> "update", key |-> t, old |-> sessions[t]]
<1>1. t \in Sessions /\ o \in Options
  BY HeadParts DEF UpdateTracking
<1>2. /\ Save(t, o) /\ PostCalls(UpdateMultiplex(t, o)) /\ UNCHANGED <<clients, client>> /\ Tracks(t)
      /\ queue # <<>> /\ queue' = Tail(queue) /\ Head(queue).kind = "update"
  BY DEF UpdateTracking, Receives
<1>3. Posts({"update"})
  <2>1. sessions \in [Sessions -> Options \union {None}] /\ t \in Live
    BY <1>1, <1>2 DEF TypeOK, Live
  <2>2. then \in Response /\ then.of = "update" /\ then.key = t
    BY <1>1, <2>1, ResponseTypes, LiveParts
  <2>3. CASE UpdateMultiplex(t, o) = <<>>
    BY <1>2, <2>3, PostsNothing
  <2>4. ASSUME NEW i \in Intervals, UpdateMultiplex(t, o) = StartFix(i, then)
        PROVE  Posts({"update"})
    <3>1. PostCalls(StartFix(i, then))
      BY <1>2, <2>4
    <3> HIDE DEF then
    <3> QED
      BY <2>2, <3>1, PostsStart
  <2> QED
    BY <1>1, <2>1, <2>3, <2>4, UpdateMultiplexFacts
<1> HIDE DEF t, o
<1>5. Tracks(s)' <=> Tracks(s)
  BY <1>1, <1>2, TracksAfter
<1>6. \A m \in Among(queue') : m.kind = "response" => m \in Among(queue)
  BY <1>2, HeadAmong
<1>7. Due(s, {"start"})' => Due(s, {"start"})
  BY <1>3, <1>6, DueTaken
<1>8. Due(s, {"stop", "restart"})' => Due(s, {"stop", "restart"})
  BY <1>3, <1>6, DueTaken
<1>9. ~Is(Head(queue), {"stop", "remove"}, s)
  BY <1>2 DEF Is
<1> QED
  BY <1>2, <1>5, <1>7, <1>8, <1>9 DEF Effects

LEMMA SwitchEffects ==
  ASSUME TypeOK, WorldRules, SwitchToDistance, NEW s \in Sessions
  PROVE  Effects(s)
<1> DEFINE t == Head(queue).key
           o == Head(queue).options
<1>1. t \in Sessions /\ o \in Options
  BY HeadParts DEF SwitchToDistance
<1>2. /\ Save(t, o) /\ PostCalls(StopMultiplex(t) \o StartFix(o.interval, Nobody)) /\ UNCHANGED <<clients, client>>
      /\ queue # <<>> /\ queue' = Tail(queue) /\ Head(queue).kind = "update" /\ Tracks(t) /\ o.distance
  BY DEF SwitchToDistance, Receives
<1>3. world = "distance"
  BY <1>2, HeadAmong DEF WorldRules
<1>4. Posts({"stop", "restart", "nobody"})
  <2>1. sessions \in [Sessions -> Options \union {None}] /\ t \in Live /\ api \in Seq(ApiCall)
    BY <1>1, <1>2 DEF TypeOK, Live
  <2>2. StopMultiplex(t) \in Seq(ApiCall) /\ Nobody \in Response /\ o.interval \in Intervals
    BY <1>1, <2>1, EndingTypes, OptionParts DEF Response, Nobody
  <2> DEFINE c == [call |-> "startFix", interval |-> o.interval, then |-> Nobody]
  <2>3. c \in ApiCall /\ StartFix(o.interval, Nobody) = <<c>> /\ c.then.of = "nobody"
    BY <2>2, StartFixType DEF StartFix, Nobody
  <2> HIDE DEF c
  <2>4. <<c>> \in Seq(ApiCall) /\ Among(<<c>>) = {c}
    BY <2>3 DEF Among
  <2>5. Among(api') = Among(api) \union Among(StopMultiplex(t)) \union {c}
    <3>1. Among(StopMultiplex(t) \o <<c>>) = Among(StopMultiplex(t)) \union {c}
      <4>1. \A p \in Seq(ApiCall) : Among(p \o <<c>>) = Among(p) \union {c}
        BY <2>3, AmongOne
      <4> QED
        BY <2>2, <4>1
    <3>2. StopMultiplex(t) \o <<c>> \in Seq(ApiCall)
      BY <2>2, <2>4, ConcatType
    <3>3. api' = api \o (StopMultiplex(t) \o <<c>>)
      BY <1>2, <2>3 DEF PostCalls
    <3> HIDE DEF t, o
    <3>0. \A q, p \in Seq(ApiCall) : Among(q \o p) = Among(q) \union Among(p)
      BY AmongConcat
    <3>4. Among(api') = Among(api) \union Among(StopMultiplex(t) \o <<c>>)
      BY <2>1, <3>0, <3>2, <3>3
    <3> QED
      BY <3>1, <3>4
  <2>6. \A b \in Among(StopMultiplex(t)) : b.then.of \in {"stop", "restart"} /\ b.then.key = t
    <3>1. CASE StopMultiplex(t) = <<>>
      BY <3>1, AmongNothing
    <3>2. CASE StopMultiplex(t) = StopFix([of |-> "stop", key |-> t])
      BY <3>2 DEF Among, StopFix
    <3>3. ASSUME NEW i \in Intervals, StopMultiplex(t) = StartFix(i, [of |-> "restart", key |-> t])
          PROVE  \A b \in Among(StopMultiplex(t)) : b.then.of \in {"stop", "restart"} /\ b.then.key = t
      BY <3>3 DEF Among, StartFix
    <3> QED
      BY <2>1, <3>1, <3>2, <3>3, StopMultiplexFacts
  <2> QED
    BY <2>3, <2>5, <2>6 DEF Posts
<1> HIDE DEF t, o
<1>5. Tracks(s)' <=> Tracks(s)
  BY <1>1, <1>2, TracksAfter
<1>6. \A m \in Among(queue') : m.kind = "response" => m \in Among(queue)
  BY <1>2, HeadAmong
<1>7. Due(s, {"start"})' => Due(s, {"start"})
  BY <1>4, <1>6, DueTaken
<1>9. ~Is(Head(queue), {"stop", "remove"}, s)
  BY <1>2 DEF Is
<1> QED
  BY <1>2, <1>3, <1>5, <1>7, <1>9 DEF Effects

LEMMA StopEffects ==
  ASSUME TypeOK, StopTracking, NEW s \in Sessions
  PROVE  Effects(s)
<1> DEFINE t == Head(queue).key
<1>1. t \in Sessions
  BY HeadParts DEF StopTracking
<1>2. /\ UNCHANGED clients /\ queue # <<>> /\ queue' = Tail(queue) /\ Head(queue).kind = "stop"
      /\ client' \in {client, AfterStop(t, TRUE), AfterStop(t, FALSE)}
      /\ \/ Tracks(t) /\ Save(t, None) /\ PostCalls(StopMultiplex(t))
         \/ ~Tracks(t) /\ UNCHANGED <<sessions, api>>
  BY DEF StopTracking, Receives, clientVars
<1>3. Posts({"stop", "restart"})
  <2>1. CASE Tracks(t) /\ PostCalls(StopMultiplex(t))
    BY <1>1, <2>1, PostsEnd DEF Live
  <2> QED
    BY <1>2, <2>1, PostsNothing
<1>4. Is(Head(queue), {"stop", "remove"}, s) <=> s = t
  BY <1>2 DEF Is
<1>5. Is(Head(queue), {"stop"}, s) <=> s = t
  BY <1>2 DEF Is
<1> HIDE DEF t
<1>6. Tracks(s)' <=> s # t /\ Tracks(s)
  <2>1. CASE Save(t, None)
    BY <1>1, <2>1, TracksAfter
  <2>2. CASE ~Tracks(t) /\ UNCHANGED sessions
    BY <2>2 DEF Tracks
  <2> QED
    BY <1>2, <2>1, <2>2
<1>7. \A m \in Among(queue') : m.kind = "response" => m \in Among(queue)
  BY <1>2, HeadAmong
<1>8. Due(s, {"start"})' => Due(s, {"start"})
  BY <1>3, <1>7, DueTaken
<1>9. Due(s, {"stop", "restart"})' => Due(s, {"stop", "restart"}) \/ s = t
  BY <1>3, <1>7, DueTaken DEF t
<1>10. \/ client'[s] = client[s]
       \/ s = t /\ client[s] = "stopping" /\ client'[s] = "stopped"
  BY <1>1, <1>2 DEF AfterStop, TypeOK
<1> QED
  BY <1>2, <1>4, <1>5, <1>6, <1>8, <1>9, <1>10 DEF Effects

LEMMA RemoveEffects ==
  ASSUME TypeOK, StopClientSessions, NEW s \in Sessions
  PROVE  Effects(s)
<1> DEFINE t == Head(queue).key
<1>1. t \in Sessions
  BY HeadParts DEF StopClientSessions
<1>2. /\ clients' = clients \ {t} /\ queue # <<>> /\ queue' = Tail(queue) /\ Head(queue).kind = "remove"
      /\ UNCHANGED client
      /\ \/ Tracks(t) /\ Save(t, None) /\ PostCalls(StopMultiplex(t))
         \/ ~Tracks(t) /\ UNCHANGED <<sessions, api>>
  BY DEF StopClientSessions, Receives, clientVars
<1>3. Posts({"stop", "restart"})
  <2>1. CASE Tracks(t) /\ PostCalls(StopMultiplex(t))
    BY <1>1, <2>1, PostsEnd DEF Live
  <2> QED
    BY <1>2, <2>1, PostsNothing
<1>4. Is(Head(queue), {"stop", "remove"}, s) <=> s = t
  BY <1>2 DEF Is
<1>5. Is(Head(queue), {"remove"}, s) <=> s = t
  BY <1>2 DEF Is
<1> HIDE DEF t
<1>6. Tracks(s)' <=> s # t /\ Tracks(s)
  <2>1. CASE Save(t, None)
    BY <1>1, <2>1, TracksAfter
  <2>2. CASE ~Tracks(t) /\ UNCHANGED sessions
    BY <2>2 DEF Tracks
  <2> QED
    BY <1>2, <2>1, <2>2
<1>7. \A m \in Among(queue') : m.kind = "response" => m \in Among(queue)
  BY <1>2, HeadAmong
<1>8. Due(s, {"start"})' => Due(s, {"start"})
  BY <1>3, <1>7, DueTaken
<1>9. Due(s, {"stop", "restart"})' => Due(s, {"stop", "restart"}) \/ s = t
  BY <1>3, <1>7, DueTaken DEF t
<1> QED
  BY <1>2, <1>4, <1>5, <1>6, <1>8, <1>9 DEF Effects

(* The engine comes up, or is configured: the calls answer nobody.         *)
LEMMA NobodyPosted ==
  ASSUME TypeOK
  PROVE  /\ \A c \in Among(RestartFix) : c.then.of = "nobody"
         /\ \A c \in Among(SuspendFix) : c.then.of = "nobody"
<1>1. sessions \in [Sessions -> Options \union {None}]
  BY DEF TypeOK
<1>2. ASSUME RestartFix = <<>>
      PROVE  \A c \in Among(RestartFix) : c.then.of = "nobody"
  BY <1>2, AmongNothing
<1>3. ASSUME NEW i \in Intervals, RestartFix = StartFix(i, Nobody)
      PROVE  \A c \in Among(RestartFix) : c.then.of = "nobody"
  BY <1>3 DEF Among, StartFix, Nobody
<1>4. \A c \in Among(RestartFix) : c.then.of = "nobody"
  BY <1>1, <1>2, <1>3, RestartFixFacts
<1>5. \A c \in Among(SuspendFix) : c.then.of = "nobody"
  <2>1. ASSUME SuspendFix = <<>>
        PROVE  \A c \in Among(SuspendFix) : c.then.of = "nobody"
    BY <2>1, AmongNothing
  <2>2. ASSUME SuspendFix = StopFix(Nobody)
        PROVE  \A c \in Among(SuspendFix) : c.then.of = "nobody"
    BY <2>2 DEF Among, StopFix, Nobody
  <2> QED
    BY <2>1, <2>2 DEF SuspendFix
<1> QED
  BY <1>4, <1>5

LEMMA EngineUpEffects ==
  ASSUME TypeOK, EngineUp, NEW s \in Sessions
  PROVE  Effects(s)
<1>1. /\ UNCHANGED <<clients, sessions, client>> /\ queue # <<>> /\ Head(queue).kind = "engineUp"
      /\ queue' = Tail(queue) \o pending /\ api' = api \o RestartFix
  BY DEF EngineUp, SendPending, Receives, PostCalls, clientVars
<1>2. Posts({})
  <2>1. api \in Seq(ApiCall) /\ RestartFix \in Seq(ApiCall)
    BY EndingTypes DEF TypeOK
  <2>2. Among(api') = Among(api) \union Among(RestartFix)
    BY <1>1, <2>1, AmongConcat
  <2> QED
    BY <2>2, NobodyPosted DEF Posts
<1>3. \A m \in Among(queue') : m.kind = "response" => m \in Among(queue)
  <2>1. Tail(queue) \in Seq(Message) /\ pending \in Seq(Message) /\ pending \in Seq(Command \union {Freed})
    BY <1>1, TailElements, PendingAreMessages DEF TypeOK
  <2>0. \A q, p \in Seq(Message) : Among(q \o p) = Among(q) \union Among(p)
    BY AmongConcat
  <2>2. Among(queue') = Among(Tail(queue)) \union Among(pending)
    BY <1>1, <2>0, <2>1
  <2>3. \A m \in Among(pending) : m.kind # "response"
    BY <2>1, AmongTyped DEF Command, Freed
  <2> QED
    BY <1>1, <2>2, <2>3, HeadAmong
<1> QED
  BY <1>1, <1>2, <1>3, QuietEffects

LEMMA ReconfigureEffects ==
  ASSUME TypeOK, Reconfigure, NEW s \in Sessions
  PROVE  Effects(s)
<1> DEFINE c == [call |-> "configure"]
<1>1. /\ UNCHANGED <<clients, sessions, client>> /\ queue # <<>> /\ Head(queue).kind = "reconfigure"
      /\ queue' = Tail(queue) /\ api' = api \o (SuspendFix \o <<c>> \o RestartFix)
  BY DEF Reconfigure, Receives, PostCalls, clientVars, adapterVars
<1>2. Posts({})
  <2>1. /\ api \in Seq(ApiCall) /\ RestartFix \in Seq(ApiCall) /\ SuspendFix \in Seq(ApiCall) /\ c \in ApiCall
        /\ c.call = "configure"
    BY EndingTypes DEF TypeOK
  <2> HIDE DEF c
  <2>0. \A p, q \in Seq(ApiCall) : Among(p \o q) = Among(p) \union Among(q) /\ p \o q \in Seq(ApiCall)
    BY AmongConcat, ConcatType
  <2>2. Among(SuspendFix \o <<c>>) = Among(SuspendFix) \union {c} /\ SuspendFix \o <<c>> \in Seq(ApiCall)
    BY <2>1, AmongOne
  <2> DEFINE first == SuspendFix \o <<c>>
  <2> HIDE DEF first
  <2>3. first \in Seq(ApiCall) /\ Among(first) = Among(SuspendFix) \union {c}
    BY <2>2 DEF first
  <2>4. first \o RestartFix \in Seq(ApiCall) /\ Among(first \o RestartFix) = Among(first) \union Among(RestartFix)
    BY <2>0, <2>1, <2>3
  <2>5. api' = api \o (first \o RestartFix)
    BY <1>1 DEF first
  <2>6. Among(api') = Among(api) \union Among(first \o RestartFix)
    BY <2>0, <2>1, <2>4, <2>5
  <2> QED
    BY <2>1, <2>3, <2>4, <2>6, NobodyPosted DEF Posts
<1>3. \A m \in Among(queue') : m.kind = "response" => m \in Among(queue)
  BY <1>1, HeadAmong
<1> QED
  BY <1>1, <1>2, <1>3, QuietEffects

LEMMA NoEffects ==
  ASSUME TypeOK, Wait \/ StartWithoutCallbacks \/ UpdateUnknown, NEW s \in Sessions
  PROVE  Effects(s)
<1>1. /\ UNCHANGED <<clients, sessions, client, api>> /\ queue # <<>> /\ Head(queue).kind \in {"start", "update"}
      /\ queue' = Tail(queue)
  BY DEF Wait, StartWithoutCallbacks, UpdateUnknown, Receives, clientVars, adapterVars
<1>2. Posts({})
  BY <1>1, PostsNothing
<1>3. \A m \in Among(queue') : m.kind = "response" => m \in Among(queue)
  BY <1>1, HeadAmong
<1> QED
  BY <1>1, <1>2, <1>3, QuietEffects

(* An answer is taken to the client; it was due.                           *)
LEMMA RespondedEffects ==
  ASSUME TypeOK, WorldRules, world # "flaky", StartResponded \/ UpdateResponded \/ StopResponded,
         NEW s \in Sessions
  PROVE  Effects(s)
<1> DEFINE m == Head(queue)
<1>1. /\ queue # <<>> /\ m.kind = "response" /\ queue' = Tail(queue) /\ UNCHANGED <<clients, api>>
      /\ m \in Among(queue)
  BY HeadAmong DEF StartResponded, UpdateResponded, StopResponded, Receives
<1>2. m.ok
  BY <1>1 DEF WorldRules
<1>3. UNCHANGED sessions
  BY <1>2 DEF StartResponded, UpdateResponded, StopResponded
<1>4. \/ UNCHANGED client
      \/ m.to.of = "start" /\ client' = AfterStart(m.to.key, m.ok)
      \/ m.to.of \in {"stop", "restart"} /\ client' = AfterStop(m.to.key, m.ok)
  BY DEF StartResponded, UpdateResponded, StopResponded
<1>5. \/ client'[s] = client[s]
      \/ client[s] = "starting" /\ client'[s] = "started" /\ m.to.of = "start" /\ m.to.key = s
      \/ /\ client[s] = "stopping" /\ client'[s] = "stopped"
         /\ m.to.of \in {"stop", "restart"} /\ m.to.key = s
  BY <1>2, <1>4 DEF AfterStart, AfterStop, TypeOK
<1>6. \/ client'[s] = client[s]
      \/ client[s] = "starting" /\ client'[s] = "started" /\ Due(s, {"start"})
      \/ client[s] = "stopping" /\ client'[s] = "stopped" /\ Due(s, {"stop", "restart"})
  BY <1>1, <1>5 DEF Due
<1>7. \A b \in Among(queue') : b.kind = "response" => b \in Among(queue)
  BY <1>1, HeadAmong
<1>8. Posts({})
  BY <1>1, PostsNothing
<1>9. \A wanted : "nobody" \notin wanted /\ Due(s, wanted)' => Due(s, wanted)
  BY <1>7, <1>8, DueTaken
<1>10. /\ \A kinds : "response" \notin kinds => ~Is(m, kinds, s)
       /\ Tracks(s)' <=> Tracks(s)
  BY <1>1, <1>3 DEF Is, Tracks
<1> HIDE DEF m
<1>11. /\ ~Is(m, {"stop", "remove"}, s) /\ ~Is(m, {"stop"}, s)
       /\ ~Is(m, {"remove"}, s) /\ ~Is(m, {"start", "update"}, s)
  BY <1>10
<1> QED
  BY <1>1, <1>6, <1>9, <1>10, <1>11 DEF Effects, m

LEMMA AdapterEffects ==
  ASSUME TypeOK, WorldRules, world # "flaky", AdapterStep, NEW s \in Sessions
  PROVE  Effects(s)
  BY StartEffects, UpdateEffects, SwitchEffects, StopEffects, RemoveEffects, EngineUpEffects,
     ReconfigureEffects, NoEffects, RespondedEffects DEF AdapterStep

-----------------------------------------------------------------------------
(* Only starts and updates wait for the engine, and only while it is to be *)
(* opened for the first time.                                              *)
PendingRule ==
  /\ \A m \in Among(pending) : m.kind \in {"start", "update", "freed"}
  /\ capsKnown \/ Reopens
  /\ capsKnown => \A m \in Among(pending) : m = Freed

LEMMA PendingInit == Init => PendingRule
<1> SUFFICES ASSUME Init
             PROVE  PendingRule
  OBVIOUS
<1>1. api = <<[call |-> "open"]>> /\ pending = <<>> /\ capsKnown = FALSE
  BY DEF Init
<1>2. [call |-> "open"] \in Among(api)
  BY <1>1 DEF Among
<1>3. Reopens
  BY <1>2 DEF Reopens
<1> QED
  BY <1>1, <1>3, AmongNothing DEF PendingRule

(* A step of the adapter takes back no call that waits.                    *)
LEMMA CallsKept ==
  ASSUME TypeOK, AdapterStep
  PROVE  Among(api) \subseteq Among(api')
<1>1. ASSUME NEW calls \in Seq(ApiCall), PostCalls(calls)
      PROVE  Among(api) \subseteq Among(api')
  BY <1>1, PostKeeps DEF PostCalls, TypeOK
<1>2. sessions \in [Sessions -> Options \union {None}]
  BY DEF TypeOK
<1>3. CASE UNCHANGED api
  BY <1>3
<1>4. CASE StartTracking
  <2>1. StartMultiplex(Head(queue).key, Head(queue).options) \in Seq(ApiCall)
    BY <1>2, <1>4, HeadParts, DecisionTypes DEF StartTracking
  <2> QED
    BY <1>1, <1>4, <2>1 DEF StartTracking
<1>5. CASE UpdateTracking
  <2>1. UpdateMultiplex(Head(queue).key, Head(queue).options) \in Seq(ApiCall)
    BY <1>2, <1>5, HeadParts, DecisionTypes DEF UpdateTracking, Live
  <2> QED
    BY <1>1, <1>5, <2>1 DEF UpdateTracking
<1>6. CASE SwitchToDistance
  <2> DEFINE s == Head(queue).key
             o == Head(queue).options
  <2>1. s \in Live /\ s \in Sessions /\ o \in Options
    BY <1>6, HeadParts DEF SwitchToDistance, Live
  <2>2. StopMultiplex(s) \in Seq(ApiCall) /\ StartFix(o.interval, Nobody) \in Seq(ApiCall)
    BY <1>2, <2>1, EndingTypes, DecisionTypes
  <2>3. StopMultiplex(s) \o StartFix(o.interval, Nobody) \in Seq(ApiCall)
    BY <2>2, ConcatType
  <2> QED
    BY <1>1, <1>6, <2>3 DEF SwitchToDistance
<1>7. CASE StopTracking \/ StopClientSessions
  <2> DEFINE s == Head(queue).key
  <2>1. s \in Sessions /\ (UNCHANGED api \/ (s \in Live /\ PostCalls(StopMultiplex(s))))
    BY <1>7, HeadParts DEF StopTracking, StopClientSessions, Live
  <2>2. s \in Live => StopMultiplex(s) \in Seq(ApiCall)
    BY <1>2, EndingTypes
  <2> QED
    BY <1>1, <2>1, <2>2
<1>8. CASE EngineUp
  BY <1>1, <1>2, <1>8, EndingTypes DEF EngineUp
<1>9. CASE Reconfigure
  <2>1. <<[call |-> "configure"]>> \in Seq(ApiCall) /\ SuspendFix \in Seq(ApiCall) /\ RestartFix \in Seq(ApiCall)
    BY <1>2, EndingTypes
  <2>2. SuspendFix \o <<[call |-> "configure"]>> \o RestartFix \in Seq(ApiCall)
    BY <2>1, ConcatType
  <2> QED
    BY <1>1, <1>9, <2>2 DEF Reconfigure
<1>10. CASE Wait \/ StartWithoutCallbacks \/ UpdateUnknown \/ StartResponded \/ UpdateResponded \/ StopResponded
  BY <1>3, <1>10 DEF Wait, StartWithoutCallbacks, UpdateUnknown, StartResponded, UpdateResponded, StopResponded
<1> QED
  BY <1>4, <1>5, <1>6, <1>7, <1>8, <1>9, <1>10 DEF AdapterStep

(* An engine that is to be opened stays so until the adapter is told.      *)
LEMMA ReopensKept ==
  ASSUME TypeOK, Reopens, [Next]_vars, ~EngineUp
  PROVE  Reopens'
<1>1. CASE UNCHANGED vars
  BY <1>1 DEF Reopens, vars
<1>2. CASE AdapterStep
  <2>1. queue # <<>> /\ queue' = Tail(queue) /\ Among(api) \subseteq Among(api')
    BY <1>2, AdapterTakes, CallsKept
  <2>2. Head(queue).kind # "engineUp"
    BY <1>2 DEF AdapterStep, Wait, StartWithoutCallbacks, StartTracking, UpdateUnknown, UpdateTracking,
       SwitchToDistance, StopTracking, StopClientSessions, Reconfigure,
       StartResponded, UpdateResponded, StopResponded, Receives
  <2> QED
    BY <2>1, <2>2, ReopensStays
<1>3. ASSUME NEW m \in Message, queue' = Append(queue, m)
      PROVE  Among(queue') = Among(queue) \union {m}
  BY <1>3, AmongAppend DEF TypeOK
<1>4. CASE ApiStep
  <2>1. api # <<>> /\ api' = Tail(api)
    BY <1>4, ApiTakes
  <2>2. \A c \in Among(api) : c = Head(api) \/ c \in Among(api')
    BY <2>1, CallAmong
  <2>3. CASE Open
    <3> DEFINE m == [kind |-> "engineUp"]
    <3>1. m \in Message /\ m.kind = "engineUp" /\ queue' = Append(queue, m)
      BY <2>3 DEF Message, Open
    <3> HIDE DEF m
    <3>2. m \in Among(queue')
      BY <1>3, <3>1
    <3> QED
      BY <3>1, <3>2 DEF Reopens
  <2>4. CASE ~Open
    <3>1. Head(api).call # "open"
      BY <1>4, <2>4 DEF ApiStep, StartTimeBasedTracking, StopTimeBasedTracking, Configure, Runs
    <3>2. Among(queue) \subseteq Among(queue')
      <4>1. \A ok \in BOOLEAN : Head(api).then \in Response =>
              [kind |-> "response", to |-> Head(api).then, ok |-> ok] \in Message
        BY DEF Message
      <4>2. UNCHANGED queue \/ \E m \in Message : queue' = Append(queue, m)
        BY <1>4, <3>1, <4>1, ApiTakes
      <4> QED
        BY <1>3, <4>2
    <3> QED
      BY <2>2, <3>1, <3>2 DEF Reopens
  <2> QED
    BY <2>3, <2>4
<1>5. CASE EngineDown
  <2> DEFINE c == [call |-> "open"]
  <2>1. c \in ApiCall /\ c.call = "open" /\ api' = Append(api, c) /\ api \in Seq(ApiCall)
    BY <1>5 DEF ApiCall, EngineDown, TypeOK
  <2> HIDE DEF c
  <2>2. c \in Among(api')
    BY <2>1, AmongAppend
  <2> QED
    BY <2>1, <2>2 DEF Reopens
<1>6. CASE ClientStep
  <2>1. UNCHANGED api /\ \E m \in Message : queue' = Append(queue, m)
    BY <1>6, ClientSends
  <2> QED
    BY <1>3, <2>1 DEF Reopens
<1> QED
  BY <1>1, <1>2, <1>4, <1>5, <1>6 DEF Next

LEMMA PendingStep == TypeOK /\ PendingRule /\ [Next]_vars => PendingRule'
<1> SUFFICES ASSUME TypeOK, PendingRule, [Next]_vars
             PROVE  PendingRule'
  OBVIOUS
<1>1. CASE EngineUp
  <2>1. capsKnown' = TRUE
    BY <1>1 DEF EngineUp
  <2>2. \A m \in Among(pending') : m = Freed
    BY <1>1, PendingSent DEF EngineUp, Among
  <2> QED
    BY <2>1, <2>2 DEF PendingRule, Freed
<1>2. CASE ~EngineUp
  <2>1. UNCHANGED pending \/ Wait
    BY <1>2, AdapterTakes, ApiTakes, ClientSends DEF Next, EngineDown, vars, adapterVars
  <2>2. UNCHANGED capsKnown
    <3>1. AdapterStep => UNCHANGED capsKnown
      BY <1>2 DEF AdapterStep, Wait, StartWithoutCallbacks, StartTracking, UpdateUnknown, UpdateTracking,
         SwitchToDistance, StopTracking, StopClientSessions, Reconfigure,
         StartResponded, UpdateResponded, StopResponded, adapterVars
    <3> QED
      BY <3>1, ApiTakes, ClientSends DEF Next, EngineDown, vars, adapterVars
  <2>3. capsKnown' \/ Reopens'
    BY <1>2, <2>2, ReopensKept DEF PendingRule
  <2>4. CASE Wait
    <3>1. pending' = Append(pending, Head(queue)) /\ Head(queue).kind \in {"start", "update"} /\ ~capsKnown
      BY <2>4 DEF Wait, Receives, MustWait
    <3>2. Head(queue) \in Command \union {Freed} /\ pending \in Seq(Command \union {Freed})
      BY <2>4, HeadParts DEF Wait, TypeOK
    <3>3. Among(pending') = Among(pending) \union {Head(queue)}
      BY <3>1, <3>2, AmongAppend
    <3> QED
      BY <2>2, <2>3, <3>1, <3>3 DEF PendingRule
  <2>5. CASE UNCHANGED pending
    BY <2>2, <2>3, <2>5 DEF PendingRule
  <2> QED
    BY <2>1, <2>4, <2>5
<1> QED
  BY <1>1, <1>2

(* A step of the adapter sends no stop and no removal, and in a world      *)
(* without distances nothing at all.                                       *)
LEMMA SentByAdapter ==
  ASSUME TypeOK, WorldRules, PendingRule, AdapterStep
  PROVE  /\ queue # <<>>
         /\ \A m \in Among(queue') : m \in Among(queue) \/ m.kind \in {"start", "update", "freed"}
         /\ world # "distance" => queue' = Tail(queue)
<1>1. CASE queue' = Tail(queue)
  BY <1>1, AdapterTakes, HeadAmong
<1>2. CASE EngineUp
  <2>1. queue' = Tail(queue) \o pending /\ queue # <<>> /\ queue \in Seq(Message)
    BY <1>2 DEF EngineUp, SendPending, Receives, TypeOK
  <2>2. Tail(queue) \in Seq(Message) /\ pending \in Seq(Message)
    <3>1. Tail(queue) \in Seq(Message)
      BY <2>1, TailElements
    <3>2. pending \in Seq(Command \union {Freed})
      BY DEF TypeOK
    <3>3. pending \in Seq(Message)
      BY <3>2, PendingAreMessages
    <3> QED
      BY <3>1, <3>3
  <2>3. Among(queue') = Among(Tail(queue)) \union Among(pending)
    <3>1. Among(Tail(queue) \o pending) = Among(Tail(queue)) \union Among(pending)
      BY <2>2, AmongMessages
    <3> QED
      BY <2>1, <3>1
  <2>4. world # "distance" => pending = <<>>
    BY DEF WorldRules
  <2>5. Tail(queue) \o <<>> = Tail(queue)
    BY <2>2, ConcatNothing
  <2> QED
    BY <2>1, <2>3, <2>4, <2>5, HeadAmong DEF PendingRule
<1> QED
  BY <1>1, <1>2, AdapterTakes

LEMMA HeadIsSent ==
  ASSUME TypeOK, queue # <<>>, NEW s, NEW kinds, Is(Head(queue), kinds, s)
  PROVE  Sent(s, kinds)
  BY HeadAmong DEF Sent

(* StartsHeld is kept by the adapter's steps.                              *)
LEMMA StartsKeptByAdapter ==
  ASSUME TypeOK, WorldRules, PendingRule, world # "flaky", AdapterStep, NEW s \in Sessions, StartsHeld(s)
  PROVE  StartsHeld(s)'
<1>1. Effects(s) /\ queue # <<>>
  BY AdapterEffects, SentByAdapter
<1>2. /\ Sent(s, {"remove"})' => Sent(s, {"remove"})
      /\ Sent(s, {"stop"})' => Sent(s, {"stop"})
  BY SentByAdapter DEF Sent, Is
<1>3. /\ Is(Head(queue), {"remove"}, s) => Sent(s, {"remove"})
      /\ Is(Head(queue), {"stop"}, s) => Sent(s, {"stop"})
  BY <1>1, HeadIsSent
<1>4. Is(Head(queue), {"stop", "remove"}, s) => client[s] \notin {"new", "starting", "started"}
  <2>1. Is(Head(queue), {"stop", "remove"}, s) =>
          Is(Head(queue), {"stop"}, s) \/ Is(Head(queue), {"remove"}, s)
    BY DEF Is
  <2> QED
    BY <1>3, <2>1 DEF StartsHeld
<1>5. s \notin clients' \/ Sent(s, {"remove"})' => client'[s] = "removed"
  BY <1>1, <1>2, <1>3 DEF StartsHeld, Effects
<1>6. client'[s] \in {"new", "starting", "started"} => client[s] \in {"new", "starting", "started"}
  BY <1>1 DEF Effects
<1>7. client'[s] \in {"new", "starting", "started"} => ~Sent(s, {"stop"})'
  BY <1>2, <1>6 DEF StartsHeld
<1>8. client'[s] = "started" => Tracks(s)'
  BY <1>1, <1>4, <1>6 DEF StartsHeld, Effects
<1>9. client'[s] \in {"new", "starting"} /\ Due(s, {"start"})' => Tracks(s)'
  BY <1>1, <1>4 DEF StartsHeld, Effects
<1> QED
  BY <1>5, <1>7, <1>8, <1>9 DEF StartsHeld

(* The engine's steps take answers a step further, and bring no new one.   *)
LEMMA ApiEffects ==
  ASSUME TypeOK, ApiStep \/ EngineDown, NEW s
  PROVE  /\ UNCHANGED <<clients, sessions, client, owed, world>>
         /\ \A kinds : "response" \notin kinds /\ "engineUp" \notin kinds => (Sent(s, kinds)' <=> Sent(s, kinds))
         /\ \A wanted : "nobody" \notin wanted /\ Due(s, wanted)' => Due(s, wanted)
         /\ \/ UNCHANGED queue
            \/ \E m \in Message : queue' = Append(queue, m) /\ m.kind \in {"response", "engineUp"}
<1>1. CASE EngineDown
  <2>1. api' = Append(api, [call |-> "open"]) /\ [call |-> "open"] \in ApiCall /\ api \in Seq(ApiCall)
    BY <1>1 DEF EngineDown, ApiCall, TypeOK
  <2>2. \A c \in Among(api') : c \in Among(api) \/ c.call = "open"
    BY <2>1, AmongAppend
  <2>3. UNCHANGED <<clients, sessions, client, owed, world, queue>>
    BY <1>1 DEF EngineDown, adapterVars, clientVars
  <2> QED
    BY <2>2, <2>3 DEF Sent, Due, Answers
<1>2. CASE ApiStep
  <2>1. /\ UNCHANGED <<clients, sessions, client, owed, world>>
        /\ api # <<>> /\ api' = Tail(api)
    BY <1>2, ApiTakes DEF adapterVars, clientVars
  <2>2. Among(api') \subseteq Among(api) /\ Head(api) \in Among(api)
    BY <2>1, CallAmong
  <2>3. \/ UNCHANGED queue
        \/ \E m \in Message :
             /\ queue' = Append(queue, m) /\ m.kind \in {"response", "engineUp"}
             /\ m.kind = "response" => Head(api).call \in {"startFix", "stopFix"} /\ m.to = Head(api).then
    <3>1. \A ok \in BOOLEAN : Head(api).then \in Response =>
            [kind |-> "response", to |-> Head(api).then, ok |-> ok] \in Message
      BY DEF Message
    <3>2. [kind |-> "engineUp"] \in Message
      BY DEF Message
    <3> QED
      BY <1>2, <3>1, <3>2, ApiTakes
  <2>4. CASE UNCHANGED queue
    BY <2>1, <2>2, <2>4 DEF Sent, Due
  <2>5. ASSUME NEW m \in Message, queue' = Append(queue, m), m.kind \in {"response", "engineUp"},
               m.kind = "response" => Head(api).call \in {"startFix", "stopFix"} /\ m.to = Head(api).then
        PROVE  /\ \A kinds : "response" \notin kinds /\ "engineUp" \notin kinds
                               => (Sent(s, kinds)' <=> Sent(s, kinds))
               /\ \A wanted : "nobody" \notin wanted /\ Due(s, wanted)' => Due(s, wanted)
    <3>1. Among(queue') = Among(queue) \union {m}
      BY <2>5, AmongAppend DEF TypeOK
    <3>2. \A kinds : "response" \notin kinds /\ "engineUp" \notin kinds => ~Is(m, kinds, s)
      BY <2>5 DEF Is
    <3>3. \A kinds : "response" \notin kinds /\ "engineUp" \notin kinds => (Sent(s, kinds)' <=> Sent(s, kinds))
      BY <3>1, <3>2 DEF Sent
    <3>4. ASSUME NEW wanted, "nobody" \notin wanted, Due(s, wanted)'
          PROVE  Due(s, wanted)
      <4>1. CASE \E b \in Among(queue') : b.kind = "response" /\ b.to.of \in wanted /\ b.to.key = s
        <5>1. PICK b \in Among(queue') : b.kind = "response" /\ b.to.of \in wanted /\ b.to.key = s
          BY <4>1
        <5>2. CASE b \in Among(queue)
          BY <5>1, <5>2 DEF Due
        <5>3. CASE b = m
          <6>1. Answers(Head(api), s, wanted)
            BY <2>5, <5>1, <5>3 DEF Answers
          <6> QED
            BY <2>2, <6>1 DEF Due
        <5> QED
          BY <3>1, <5>1, <5>2, <5>3
      <4>2. CASE \E c \in Among(api') : Answers(c, s, wanted)
        BY <2>2, <4>2 DEF Due
      <4> QED
        BY <3>4, <4>1, <4>2 DEF Due
    <3> QED
      BY <3>3, <3>4
  <2> QED
    BY <2>1, <2>3, <2>4, <2>5
<1> QED
  BY <1>1, <1>2

(* What a client's step means to session s: the command m it sends.        *)
Sends(m, s) ==
  \/ /\ client'[s] = client[s] /\ owed'[s] = owed[s]
     /\ ~Is(m, {"start", "update", "stop", "remove"}, s)
  \/ client[s] = "new" /\ client'[s] = "starting" /\ Is(m, {"start"}, s) /\ owed'[s] = owed[s] + 1
  \/ /\ client[s] \in {"starting", "started"} /\ client'[s] = client[s]
     /\ Is(m, {"update"}, s) /\ owed'[s] = owed[s] + 1
  \/ /\ client[s] \in {"starting", "started"} /\ client'[s] = "stopping"
     /\ Is(m, {"stop"}, s) /\ owed'[s] = owed[s] + 1
  \/ /\ client[s] \in {"starting", "started", "stopping"} /\ client'[s] = "removed"
     /\ Is(m, {"remove"}, s) /\ owed'[s] = owed[s]

LEMMA ClientEffects ==
  ASSUME TypeOK, ClientStep
  PROVE  \E m \in Message : /\ queue' = Append(queue, m) /\ m.kind \notin {"response", "engineUp"}
                            /\ \A s \in Sessions : Sends(m, s)
<1>0. client \in [Sessions -> ClientState] /\ owed \in [Sessions -> Int]
  BY DEF TypeOK
<1>1. ASSUME NEW t \in Sessions, NEW o \in Options, StartTrackingCommand(t, o)
      PROVE  \E m \in Message : /\ queue' = Append(queue, m) /\ m.kind \notin {"response", "engineUp"}
                                /\ \A s \in Sessions : Sends(m, s)
  <2> DEFINE m == [kind |-> "start", key |-> t, options |-> o]
  <2>1. m \in Message /\ m.kind = "start" /\ m.key = t
    BY DEF Message, Command
  <2> HIDE DEF m
  <2>2. /\ client[t] = "new" /\ queue' = Append(queue, m)
        /\ client' = [client EXCEPT ![t] = "starting"] /\ owed' = [owed EXCEPT ![t] = @ + 1]
    BY <1>1 DEF StartTrackingCommand, SendCommand, Expect, m
  <2>3. \A s \in Sessions : Sends(m, s)
    BY <1>0, <2>1, <2>2 DEF Sends, Is
  <2> QED
    BY <2>1, <2>2, <2>3
<1>2. ASSUME NEW t \in Sessions, NEW o \in Options, UpdateTrackingOptionsCommand(t, o)
      PROVE  \E m \in Message : /\ queue' = Append(queue, m) /\ m.kind \notin {"response", "engineUp"}
                                /\ \A s \in Sessions : Sends(m, s)
  <2> DEFINE m == [kind |-> "update", key |-> t, options |-> o]
  <2>1. m \in Message /\ m.kind = "update" /\ m.key = t
    BY DEF Message, Command
  <2> HIDE DEF m
  <2>2. /\ client[t] \in {"starting", "started"} /\ queue' = Append(queue, m)
        /\ client' = [client EXCEPT ![t] = client[t]] /\ owed' = [owed EXCEPT ![t] = @ + 1]
    BY <1>2 DEF UpdateTrackingOptionsCommand, SendCommand, Expect, m
  <2>3. \A s \in Sessions : Sends(m, s)
    BY <1>0, <2>1, <2>2 DEF Sends, Is
  <2> QED
    BY <2>1, <2>2, <2>3
<1>3. ASSUME NEW t \in Sessions, StopTrackingCommand(t)
      PROVE  \E m \in Message : /\ queue' = Append(queue, m) /\ m.kind \notin {"response", "engineUp"}
                                /\ \A s \in Sessions : Sends(m, s)
  <2> DEFINE m == [kind |-> "stop", key |-> t]
  <2>1. m \in Message /\ m.kind = "stop" /\ m.key = t
    BY DEF Message, Command
  <2> HIDE DEF m
  <2>2. /\ client[t] \in {"starting", "started"} /\ queue' = Append(queue, m)
        /\ client' = [client EXCEPT ![t] = "stopping"] /\ owed' = [owed EXCEPT ![t] = @ + 1]
    BY <1>3 DEF StopTrackingCommand, SendCommand, Expect, m
  <2>3. \A s \in Sessions : Sends(m, s)
    BY <1>0, <2>1, <2>2 DEF Sends, Is
  <2> QED
    BY <2>1, <2>2, <2>3
<1>4. ASSUME NEW t \in Sessions, RemoveClientCommand(t)
      PROVE  \E m \in Message : /\ queue' = Append(queue, m) /\ m.kind \notin {"response", "engineUp"}
                                /\ \A s \in Sessions : Sends(m, s)
  <2> DEFINE m == [kind |-> "remove", key |-> t]
  <2>1. m \in Message /\ m.kind = "remove" /\ m.key = t
    BY DEF Message, Command
  <2> HIDE DEF m
  <2>2. /\ client[t] \in {"starting", "started", "stopping"} /\ queue' = Append(queue, m)
        /\ client' = [client EXCEPT ![t] = "removed"] /\ owed' = owed
    BY <1>4 DEF RemoveClientCommand, SendCommand, m
  <2>3. \A s \in Sessions : Sends(m, s)
    BY <1>0, <2>1, <2>2 DEF Sends, Is
  <2> QED
    BY <2>1, <2>2, <2>3
<1>5. ASSUME ReconfigureCommand
      PROVE  \E m \in Message : /\ queue' = Append(queue, m) /\ m.kind \notin {"response", "engineUp"}
                                /\ \A s \in Sessions : Sends(m, s)
  <2> DEFINE m == [kind |-> "reconfigure"]
  <2>1. m \in Message /\ m.kind = "reconfigure"
    BY DEF Message
  <2> HIDE DEF m
  <2>2. queue' = Append(queue, m) /\ client' = client /\ owed' = owed
    BY <1>5 DEF ReconfigureCommand, SendCommand, clientVars, m
  <2>3. \A s \in Sessions : Sends(m, s)
    BY <2>1, <2>2 DEF Sends, Is
  <2> QED
    BY <2>1, <2>2, <2>3
<1> QED
  BY <1>1, <1>2, <1>3, <1>4, <1>5 DEF ClientStep

LEMMA DueAppended ==
  ASSUME TypeOK, NEW m \in Message, queue' = Append(queue, m), m.kind # "response", UNCHANGED api,
         NEW s, NEW wanted, Due(s, wanted)'
  PROVE  Due(s, wanted)
<1>1. Among(queue') = Among(queue) \union {m}
  BY AmongAppend DEF TypeOK
<1> QED
  BY <1>1 DEF Due

LEMMA StartsKeptByClient ==
  ASSUME TypeOK, ClientStep, NEW s \in Sessions, StartsHeld(s)
  PROVE  StartsHeld(s)'
<1>1. PICK m \in Message : /\ queue' = Append(queue, m) /\ m.kind \notin {"response", "engineUp"}
                           /\ Sends(m, s)
  BY ClientEffects
<1>2. UNCHANGED <<clients, sessions, api>>
  BY ClientSends DEF adapterVars
<1>3. \A kinds : Sent(s, kinds)' <=> Sent(s, kinds) \/ Is(m, kinds, s)
  BY <1>1, SentAppended
<1>4. Due(s, {"start"})' => Due(s, {"start"})
  BY <1>1, <1>2, DueAppended
<1>5. Tracks(s)' <=> Tracks(s)
  BY <1>2 DEF Tracks
<1>6. s \notin clients' \/ Sent(s, {"remove"})' => client'[s] = "removed"
  BY <1>1, <1>2, <1>3 DEF StartsHeld, Sends, Is
<1>7. client'[s] \in {"new", "starting", "started"} => ~Sent(s, {"stop"})'
  BY <1>1, <1>3 DEF StartsHeld, Sends, Is
<1>8. client'[s] = "started" => Tracks(s)'
  BY <1>1, <1>5 DEF StartsHeld, Sends
<1>9. client'[s] \in {"new", "starting"} /\ Due(s, {"start"})' => Tracks(s)'
  BY <1>1, <1>4, <1>5 DEF StartsHeld, Sends
<1> QED
  BY <1>6, <1>7, <1>8, <1>9 DEF StartsHeld

LEMMA StartsKeptByEngine ==
  ASSUME TypeOK, ApiStep \/ EngineDown, NEW s \in Sessions, StartsHeld(s)
  PROVE  StartsHeld(s)'
<1>1. /\ UNCHANGED <<clients, sessions, client>>
      /\ Sent(s, {"remove"})' <=> Sent(s, {"remove"})
      /\ Sent(s, {"stop"})' <=> Sent(s, {"stop"})
      /\ Due(s, {"start"})' => Due(s, {"start"})
  BY ApiEffects
<1> QED
  BY <1>1 DEF StartsHeld, Tracks

LEMMA WorldKept ==
  ASSUME TypeOK, [Next]_vars
  PROVE  UNCHANGED world
  BY AdapterTakes, ApiTakes, ClientSends DEF Next, EngineDown, vars

LEMMA StartsInit == Init => StartsFollow
<1> SUFFICES ASSUME Init, NEW s \in Sessions
             PROVE  StartsHeld(s)
  BY DEF StartsFollow
<1>1. queue = <<>> /\ api = <<[call |-> "open"]>> /\ clients = Sessions /\ client[s] = "new"
  BY DEF Init
<1>2. ~Sent(s, {"remove"}) /\ ~Sent(s, {"stop"})
  BY <1>1, AmongNothing DEF Sent
<1>3. \A c \in Among(api) : c.call = "open"
  BY <1>1 DEF Among
<1>4. ~Due(s, {"start"})
  BY <1>1, <1>3, AmongNothing DEF Due, Answers
<1> QED
  BY <1>1, <1>2, <1>4 DEF StartsHeld

LEMMA StartsStep ==
  TypeOK /\ WorldRules /\ PendingRule /\ StartsFollow /\ [Next]_vars => StartsFollow'
<1> SUFFICES ASSUME TypeOK, WorldRules, PendingRule, StartsFollow, [Next]_vars, world' # "flaky", NEW s \in Sessions
             PROVE  StartsHeld(s)'
  BY DEF StartsFollow
<1>1. world # "flaky" /\ StartsHeld(s)
  BY WorldKept DEF StartsFollow
<1>2. CASE UNCHANGED vars
  BY <1>1, <1>2 DEF StartsHeld, Sent, Due, Tracks, vars, adapterVars, clientVars
<1> QED
  BY <1>1, <1>2, StartsKeptByAdapter, StartsKeptByEngine, StartsKeptByClient DEF Next

-----------------------------------------------------------------------------
(* StopsHeld is kept in a plain world.                                     *)
InOrder(s) ==
  \A i, j \in 1..Len(queue) : i < j /\ Is(queue[i], {"stop", "remove"}, s)
                                => ~Is(queue[j], {"start", "update", "stop"}, s)

LEMMA OrderTaken ==
  ASSUME TypeOK, queue # <<>>, queue' = Tail(queue), NEW s, InOrder(s)
  PROVE  /\ InOrder(s)'
         /\ Is(Head(queue), {"stop", "remove"}, s) => ~Sent(s, {"start", "update", "stop"})'
<1>1. /\ Head(queue) = queue[1] /\ 1 \in 1..Len(queue)
      /\ \A i \in 1..Len(queue') : queue'[i] = queue[i + 1] /\ i + 1 \in 1..Len(queue) /\ i + 1 > 1
  BY TailElements DEF TypeOK
<1>2. InOrder(s)'
  <2> SUFFICES ASSUME NEW i \in 1..Len(queue'), NEW j \in 1..Len(queue'), i < j,
                      Is(queue'[i], {"stop", "remove"}, s)
               PROVE  ~Is(queue'[j], {"start", "update", "stop"}, s)
    BY DEF InOrder
  <2>1. i + 1 < j + 1
    OBVIOUS
  <2> QED
    BY <1>1, <2>1 DEF InOrder
<1>3. ASSUME Is(Head(queue), {"stop", "remove"}, s)
      PROVE  ~Sent(s, {"start", "update", "stop"})'
  <2> SUFFICES ASSUME NEW j \in 1..Len(queue')
               PROVE  ~Is(queue'[j], {"start", "update", "stop"}, s)
    BY DEF Sent, Among
  <2>1. queue'[j] = queue[j + 1] /\ j + 1 \in 1..Len(queue) /\ 1 < j + 1
    BY <1>1
  <2> QED
    BY <1>1, <1>3, <2>1 DEF InOrder
<1> QED
  BY <1>2, <1>3

LEMMA OrderAppended ==
  ASSUME TypeOK, NEW m \in Message, queue' = Append(queue, m), NEW s, InOrder(s),
         Is(m, {"start", "update", "stop"}, s) => ~Sent(s, {"stop", "remove"})
  PROVE  InOrder(s)'
<1>1. /\ Len(queue') = Len(queue) + 1 /\ Len(queue) \in Nat /\ queue'[Len(queue) + 1] = m
      /\ \A i \in 1..Len(queue) : queue'[i] = queue[i]
  BY AppendElements DEF TypeOK
<1> SUFFICES ASSUME NEW i \in 1..Len(queue'), NEW j \in 1..Len(queue'), i < j,
                    Is(queue'[i], {"stop", "remove"}, s), Is(queue'[j], {"start", "update", "stop"}, s)
             PROVE  FALSE
  BY DEF InOrder
<1>2. i \in 1..Len(queue) /\ queue'[i] = queue[i]
  BY <1>1
<1>3. CASE j \in 1..Len(queue)
  BY <1>1, <1>2, <1>3 DEF InOrder
<1>4. CASE j = Len(queue) + 1
  <2>1. Is(m, {"start", "update", "stop"}, s)
    BY <1>1, <1>4
  <2>2. Sent(s, {"stop", "remove"})
    BY <1>2 DEF Sent, Among
  <2> QED
    BY <2>1, <2>2
<1> QED
  BY <1>1, <1>3, <1>4

LEMMA StopsKeptByAdapter ==
  ASSUME TypeOK, WorldRules, PendingRule, world = "plain", AdapterStep, NEW s \in Sessions,
         StartsHeld(s), StopsHeld(s)
  PROVE  StopsHeld(s)'
<1>1. Effects(s) /\ queue # <<>> /\ queue' = Tail(queue) /\ InOrder(s)
  BY AdapterEffects, SentByAdapter DEF StopsHeld, InOrder
<1>2. InOrder(s)'
  BY <1>1, OrderTaken
<1>3. \A kinds : Sent(s, kinds) <=> Sent(s, kinds)' \/ Is(Head(queue), kinds, s)
  BY <1>1, SentTaken
<1>4. CASE Is(Head(queue), {"stop", "remove"}, s)
  <2>1. Over(s)'
    BY <1>1, <1>4, OrderTaken DEF Over, Effects
  <2>2. ~Sent(s, {"start", "update"})'
    BY <2>1 DEF Over, Sent, Is
  <2>3. client[s] \notin {"new", "starting", "started"}
    <3>1. Is(Head(queue), {"stop"}, s) \/ Is(Head(queue), {"remove"}, s)
      BY <1>4 DEF Is
    <3> QED
      BY <1>3, <3>1 DEF StartsHeld
  <2>4. client'[s] \notin {"new", "starting", "started"}
    BY <1>1, <2>3 DEF Effects
  <2> QED
    BY <1>2, <2>1, <2>2, <2>4 DEF StopsHeld, InOrder, Over
<1>5. CASE ~Is(Head(queue), {"stop", "remove"}, s)
  <2>1. /\ ~Is(Head(queue), {"stop"}, s) /\ ~Is(Head(queue), {"remove"}, s)
        /\ Is(Head(queue), {"start", "update"}, s) => Is(Head(queue), {"start", "update", "stop"}, s)
    BY <1>5 DEF Is
  <2>2. /\ Sent(s, {"stop"}) => Sent(s, {"stop"})'
        /\ Sent(s, {"remove"}) => Sent(s, {"remove"})'
        /\ Sent(s, {"start", "update"})' => Sent(s, {"start", "update"})
        /\ Is(Head(queue), {"start", "update"}, s) => Sent(s, {"start", "update"})
    BY <1>3, <2>1
  <2>3. Over(s) => Over(s)'
    BY <1>1, <1>3, <2>1 DEF Over, Effects
  <2>4. Due(s, {"stop", "restart"})' => Due(s, {"stop", "restart"})
    BY <1>1, <1>5 DEF Effects
  <2>5. client'[s] \in {"new", "starting", "started"} => client[s] \in {"new", "starting", "started"}
    BY <1>1 DEF Effects
  <2>6. client'[s] \in {"new", "starting", "started"} => ~Due(s, {"stop", "restart"})'
    BY <2>4, <2>5 DEF StopsHeld
  <2>7. client'[s] = "stopping" => \/ Sent(s, {"stop"})' /\ ~Due(s, {"stop", "restart"})'
                                   \/ Over(s)'
    BY <1>1, <2>2, <2>3, <2>4 DEF StopsHeld, Effects
  <2>8. client'[s] = "stopped" => Over(s)'
    BY <1>1, <2>1, <2>3 DEF StopsHeld, Effects
  <2>9. client'[s] = "removed" => \/ Sent(s, {"remove"})'
                                  \/ ~Sent(s, {"start", "update"})' /\ ~Tracks(s)'
    BY <1>1, <2>2 DEF StopsHeld, Effects
  <2> QED
    BY <1>2, <2>6, <2>7, <2>8, <2>9 DEF StopsHeld, InOrder
<1> QED
  BY <1>4, <1>5

LEMMA StopsKeptByEngine ==
  ASSUME TypeOK, ApiStep \/ EngineDown, NEW s \in Sessions, StopsHeld(s)
  PROVE  StopsHeld(s)'
<1>1. /\ UNCHANGED <<sessions, client>>
      /\ Sent(s, {"remove"})' <=> Sent(s, {"remove"})
      /\ Sent(s, {"stop"})' <=> Sent(s, {"stop"})
      /\ Sent(s, {"start", "update"})' <=> Sent(s, {"start", "update"})
      /\ Sent(s, {"start", "update", "stop"})' <=> Sent(s, {"start", "update", "stop"})
      /\ Due(s, {"stop", "restart"})' => Due(s, {"stop", "restart"})
  BY ApiEffects
<1>2. InOrder(s)'
  <2>0. InOrder(s)
    BY DEF StopsHeld, InOrder
  <2>1. CASE UNCHANGED queue
    BY <2>0, <2>1 DEF InOrder
  <2>2. ASSUME NEW m \in Message, queue' = Append(queue, m), m.kind \in {"response", "engineUp"}
        PROVE  InOrder(s)'
    <3>1. ~Is(m, {"start", "update", "stop"}, s)
      BY <2>2 DEF Is
    <3> QED
      BY <2>0, <2>2, <3>1, OrderAppended
  <2> QED
    BY <2>1, <2>2, ApiEffects
<1>3. (Over(s)' <=> Over(s)) /\ (Tracks(s)' <=> Tracks(s))
  BY <1>1 DEF Over, Tracks
<1> QED
  BY <1>1, <1>2, <1>3 DEF StopsHeld, InOrder

LEMMA StopsKeptByClient ==
  ASSUME TypeOK, ClientStep, NEW s \in Sessions, StartsHeld(s), StopsHeld(s)
  PROVE  StopsHeld(s)'
<1>1. PICK m \in Message : /\ queue' = Append(queue, m) /\ m.kind \notin {"response", "engineUp"}
                           /\ Sends(m, s)
  BY ClientEffects
<1>2. UNCHANGED <<clients, sessions, api>>
  BY ClientSends DEF adapterVars
<1>3. \A kinds : Sent(s, kinds)' <=> Sent(s, kinds) \/ Is(m, kinds, s)
  BY <1>1, SentAppended
<1>4. Due(s, {"stop", "restart"})' => Due(s, {"stop", "restart"})
  BY <1>1, <1>2, DueAppended
<1>5. Tracks(s)' <=> Tracks(s)
  BY <1>2 DEF Tracks
<1>6. Is(m, {"start", "update", "stop"}, s) => client[s] \in {"new", "starting", "started"}
  BY <1>1 DEF Sends, Is
<1>7. InOrder(s)'
  <2>1. Sent(s, {"stop", "remove"}) => Sent(s, {"stop"}) \/ Sent(s, {"remove"})
    BY DEF Sent, Is
  <2>2. Is(m, {"start", "update", "stop"}, s) => ~Sent(s, {"stop", "remove"})
    BY <1>6, <2>1 DEF StartsHeld
  <2>3. InOrder(s)
    BY DEF StopsHeld, InOrder
  <2> QED
    BY <1>1, <2>2, <2>3, OrderAppended
<1>8. Over(s) /\ client[s] \notin {"new", "starting", "started"} => Over(s)'
  BY <1>3, <1>5, <1>6 DEF Over
<1>9. client'[s] \in {"new", "starting", "started"} => ~Due(s, {"stop", "restart"})'
  BY <1>1, <1>4 DEF StopsHeld, Sends
<1>10. client'[s] = "stopping" => \/ Sent(s, {"stop"})' /\ ~Due(s, {"stop", "restart"})'
                                  \/ Over(s)'
  BY <1>1, <1>3, <1>4, <1>8 DEF StopsHeld, Sends
<1>11. client'[s] = "stopped" => Over(s)'
  BY <1>1, <1>8 DEF StopsHeld, Sends
<1>12. client'[s] = "removed" => \/ Sent(s, {"remove"})'
                                 \/ ~Sent(s, {"start", "update"})' /\ ~Tracks(s)'
  <2>1. Is(m, {"start", "update"}, s) => Is(m, {"start", "update", "stop"}, s)
    BY DEF Is
  <2>2. client'[s] = "removed" => Is(m, {"remove"}, s) \/ (client[s] = "removed" /\ ~Is(m, {"start", "update"}, s))
    BY <1>1, <1>6, <2>1 DEF Sends
  <2> QED
    BY <1>3, <1>5, <2>2 DEF StopsHeld
<1> QED
  BY <1>7, <1>9, <1>10, <1>11, <1>12 DEF StopsHeld, InOrder

LEMMA StopsInit == Init => StopsFollow
<1> SUFFICES ASSUME Init, NEW s \in Sessions
             PROVE  StopsHeld(s)
  BY DEF StopsFollow
<1>1. queue = <<>> /\ api = <<[call |-> "open"]>> /\ client[s] = "new"
  BY DEF Init
<1>2. \A c \in Among(api) : c.call = "open"
  BY <1>1 DEF Among
<1>3. ~Due(s, {"stop", "restart"})
  BY <1>1, <1>2, AmongNothing DEF Due, Answers
<1> QED
  BY <1>1, <1>3 DEF StopsHeld

LEMMA StopsStep ==
  TypeOK /\ WorldRules /\ PendingRule /\ StartsFollow /\ StopsFollow /\ [Next]_vars => StopsFollow'
<1> SUFFICES ASSUME TypeOK, WorldRules, PendingRule, StartsFollow, StopsFollow, [Next]_vars,
                    world' = "plain", NEW s \in Sessions
             PROVE  StopsHeld(s)'
  BY DEF StopsFollow
<1>1. world = "plain" /\ StartsHeld(s) /\ StopsHeld(s)
  BY WorldKept DEF StartsFollow, StopsFollow
<1>2. CASE UNCHANGED vars
  BY <1>1, <1>2 DEF StopsHeld, Over, Sent, Due, Tracks, vars, adapterVars, clientVars
<1> QED
  BY <1>1, <1>2, StopsKeptByAdapter, StopsKeptByEngine, StopsKeptByClient DEF Next

-----------------------------------------------------------------------------
(* Counting what is in a sequence: n of the elements of q are in S.        *)
Weight(x, S) == IF x \in S THEN 1 ELSE 0

Counts(h, q, S) ==
  /\ h \in [0..Len(q) -> Nat] /\ h[0] = 0
  /\ \A k \in 1..Len(q) : h[k] = h[k - 1] + Weight(q[k], S)
  /\ \A j, k \in 0..Len(q) : j <= k => h[j] <= h[k]

Tally(q, S, n) == \E h : Counts(h, q, S) /\ h[Len(q)] = n

LEMMA WeightType == \A x, S : Weight(x, S) \in {0, 1} /\ Weight(x, S) \in Nat
  BY DEF Weight

LEMMA TallyNothing ==
  ASSUME NEW S
  PROVE  Tally(<<>>, S, 0) /\ \A n : Tally(<<>>, S, n) => n = 0
<1>1. Tally(<<>>, S, 0)
  <2> DEFINE h == [k \in 0..0 |-> 0]
  <2>1. Counts(h, <<>>, S) /\ h[Len(<<>>)] = 0
    BY DEF Counts
  <2> QED
    BY <2>1 DEF Tally
<1>2. \A n : Tally(<<>>, S, n) => n = 0
  BY DEF Tally, Counts
<1> QED
  BY <1>1, <1>2

LEMMA TallyAppend ==
  ASSUME NEW M, NEW q \in Seq(M), NEW x \in M, NEW S, NEW n, Tally(q, S, n)
  PROVE  Tally(Append(q, x), S, n + Weight(x, S)) /\ n \in Nat
<1> DEFINE p == Append(q, x)
<1>1. PICK h : Counts(h, q, S) /\ h[Len(q)] = n
  BY DEF Tally
<1>2. /\ Len(p) = Len(q) + 1 /\ Len(q) \in Nat /\ p[Len(q) + 1] = x
      /\ \A k \in 1..Len(q) : p[k] = q[k]
  BY AppendElements
<1> HIDE DEF p
<1> DEFINE g == [k \in 0..Len(p) |-> IF k \in 0..Len(q) THEN h[k] ELSE n + Weight(x, S)]
<1>3. n \in Nat /\ n + Weight(x, S) \in Nat /\ n <= n + Weight(x, S)
  BY <1>1, <1>2, WeightType DEF Counts
<1>4. /\ \A k \in 0..Len(q) : k \in 0..Len(p) /\ g[k] = h[k] /\ h[k] \in Nat
      /\ g[Len(p)] = n + Weight(x, S)
      /\ \A k \in 0..Len(p) : k \in 0..Len(q) \/ k = Len(p)
  <2>1. \A k \in 0..Len(q) : k \in 0..Len(p)
    BY <1>2
  <2>2. Len(p) \in 0..Len(p) /\ Len(p) \notin 0..Len(q)
    BY <1>2
  <2>3. \A k \in 0..Len(p) : k \in 0..Len(q) \/ k = Len(p)
    BY <1>2
  <2>4. \A k \in 0..Len(q) : h[k] \in Nat
    BY <1>1 DEF Counts
  <2> QED
    BY <2>1, <2>2, <2>3, <2>4
<1>5. g \in [0..Len(p) -> Nat]
  BY <1>1, <1>3 DEF Counts
<1> HIDE DEF g
<1>6. g[0] = 0
  BY <1>1, <1>2, <1>4 DEF Counts
<1>7. ASSUME NEW k \in 1..Len(p)
      PROVE  g[k] = g[k - 1] + Weight(p[k], S)
  <2>1. CASE k \in 1..Len(q)
    <3>1. g[k] = h[k] /\ g[k - 1] = h[k - 1] /\ p[k] = q[k]
      BY <1>2, <1>4, <2>1
    <3> QED
      BY <1>1, <2>1, <3>1 DEF Counts
  <2>2. CASE k = Len(q) + 1
    <3>1. g[k] = n + Weight(x, S) /\ g[k - 1] = n /\ p[k] = x
      BY <1>1, <1>2, <1>4, <2>2
    <3> QED
      BY <3>1
  <2> QED
    BY <1>2, <2>1, <2>2
<1>8. ASSUME NEW j \in 0..Len(p), NEW k \in 0..Len(p), j <= k
      PROVE  g[j] <= g[k]
  <2>1. \A i \in 0..Len(q) : h[i] <= n
    BY <1>1, <1>2 DEF Counts
  <2>2. CASE j \in 0..Len(q) /\ k \in 0..Len(q)
    BY <1>1, <1>4, <1>8, <2>2 DEF Counts
  <2>3. CASE j \in 0..Len(q) /\ k = Len(p)
    BY <1>3, <1>4, <2>1, <2>3
  <2>4. CASE j = Len(p)
    <3>1. k = j
      BY <1>2, <1>8, <2>4
    <3> QED
      BY <1>3, <1>4, <2>4, <3>1
  <2> QED
    BY <1>4, <2>2, <2>3, <2>4
<1>9. Counts(g, p, S)
  BY <1>5, <1>6, <1>7, <1>8 DEF Counts
<1> QED
  BY <1>3, <1>4, <1>9 DEF Tally, p

LEMMA TallyTail ==
  ASSUME NEW M, NEW q \in Seq(M), q # <<>>, NEW S, NEW n, Tally(q, S, n)
  PROVE  /\ Tally(Tail(q), S, n - Weight(Head(q), S))
         /\ n \in Nat /\ n - Weight(Head(q), S) \in Nat
<1> DEFINE p == Tail(q)
           w == Weight(Head(q), S)
<1>1. PICK h : Counts(h, q, S) /\ h[Len(q)] = n
  BY DEF Tally
<1>2. /\ Len(p) = Len(q) - 1 /\ Len(q) \in Nat /\ Len(q) > 0 /\ Head(q) = q[1] /\ 1 \in 1..Len(q)
      /\ \A k \in 1..Len(p) : p[k] = q[k + 1] /\ k + 1 \in 1..Len(q)
  BY TailElements
<1> HIDE DEF p
<1>3. h[1] = w /\ w \in Nat
  BY <1>1, <1>2, WeightType DEF Counts
<1> HIDE DEF w
<1> DEFINE g == [k \in 0..Len(p) |-> h[k + 1] - w]
<1>4. \A k \in 0..Len(p) : k + 1 \in 0..Len(q) /\ 1 \in 0..Len(q) /\ 1 <= k + 1
  BY <1>2
<1>5. \A k \in 0..Len(p) : h[k + 1] \in Nat /\ h[1] <= h[k + 1]
  BY <1>1, <1>4 DEF Counts
<1>6. g \in [0..Len(p) -> Nat]
  BY <1>3, <1>5
<1>7. \A k \in 0..Len(p) : g[k] = h[k + 1] - w
  OBVIOUS
<1> HIDE DEF g
<1>8. g[0] = 0
  BY <1>2, <1>3, <1>7
<1>9. ASSUME NEW k \in 1..Len(p)
      PROVE  g[k] = g[k - 1] + Weight(p[k], S)
  <2>1. k \in 0..Len(p) /\ k - 1 \in 0..Len(p) /\ (k - 1) + 1 = k /\ (k + 1) - 1 = k
    BY <1>2
  <2>2. p[k] = q[k + 1] /\ k + 1 \in 1..Len(q)
    BY <1>2
  <2>3. h[k + 1] = h[k] + Weight(p[k], S)
    BY <1>1, <2>1, <2>2 DEF Counts
  <2>4. h[k] \in Nat /\ Weight(p[k], S) \in Nat
    BY <1>5, <2>1, WeightType
  <2>5. g[k] = h[k + 1] - w /\ g[k - 1] = h[k] - w
    BY <1>7, <2>1
  <2> QED
    BY <1>3, <2>3, <2>4, <2>5
<1>10. ASSUME NEW j \in 0..Len(p), NEW k \in 0..Len(p), j <= k
       PROVE  g[j] <= g[k]
  <2>1. h[j + 1] <= h[k + 1]
    BY <1>1, <1>4, <1>10 DEF Counts
  <2> QED
    BY <1>3, <1>5, <1>7, <2>1
<1>11. Counts(g, p, S)
  BY <1>6, <1>8, <1>9, <1>10 DEF Counts
<1>12. Len(p) \in 0..Len(p) /\ Len(p) + 1 = Len(q)
  BY <1>2
<1>13. g[Len(p)] = n - w /\ n \in Nat /\ n - w \in Nat
  BY <1>1, <1>5, <1>6, <1>7, <1>12
<1> QED
  BY <1>11, <1>13 DEF Tally, p, w

LEMMA TallyNone ==
  ASSUME NEW M, NEW q \in Seq(M), NEW S, \A i \in 1..Len(q) : q[i] \notin S
  PROVE  Tally(q, S, 0) /\ \A n : Tally(q, S, n) => n = 0
<1> DEFINE h == [k \in 0..Len(q) |-> 0]
<1>1. Len(q) \in Nat
  OBVIOUS
<1>2. \A k \in 1..Len(q) : k \in 0..Len(q) /\ k - 1 \in 0..Len(q) /\ Weight(q[k], S) = 0
  BY <1>1 DEF Weight
<1>3. h \in [0..Len(q) -> Nat] /\ \A k \in 0..Len(q) : h[k] = 0
  OBVIOUS
<1>4. 0 \in 0..Len(q) /\ Len(q) \in 0..Len(q)
  BY <1>1
<1> HIDE DEF h
<1>5. Counts(h, q, S)
  BY <1>2, <1>3, <1>4 DEF Counts
<1>6. ASSUME NEW n, Tally(q, S, n)
      PROVE  n = 0
  <2>1. PICK g : Counts(g, q, S) /\ g[Len(q)] = n
    BY <1>6 DEF Tally
  <2> DEFINE B == {k \in 0..Len(q) : g[k] # 0}
  <2>2. ASSUME B # {}
        PROVE  FALSE
    <3>1. B \subseteq Nat
      BY <1>1
    <3>2. PICK k \in B : \A m \in B : k <= m
      <4> HIDE DEF B
      <4> QED
        BY <2>2, <3>1, LeastIsLeast
    <3>3. k \in 0..Len(q) /\ g[k] # 0 /\ k # 0
      BY <2>1 DEF Counts
    <3>4. k \in 1..Len(q) /\ k - 1 \in 0..Len(q) /\ ~(k <= k - 1)
      BY <1>1, <3>3
    <3>5. g[k - 1] = 0
      BY <3>2, <3>4
    <3>6. g[k] = g[k - 1] + Weight(q[k], S)
      BY <2>1, <3>4 DEF Counts
    <3> QED
      BY <1>2, <3>3, <3>4, <3>5, <3>6
  <2> QED
    BY <1>4, <2>1, <2>2
<1> QED
  BY <1>3, <1>4, <1>5, <1>6 DEF Tally

LEMMA TallyConcat ==
  ASSUME NEW M, NEW q \in Seq(M), NEW p \in Seq(M), NEW S, NEW a, NEW b, Tally(q, S, a), Tally(p, S, b)
  PROVE  Tally(q \o p, S, a + b)
<1> DEFINE r == q \o p
<1>1. PICK h : Counts(h, q, S) /\ h[Len(q)] = a
  BY DEF Tally
<1>2. PICK g : Counts(g, p, S) /\ g[Len(p)] = b
  BY DEF Tally
<1>3. /\ Len(q) \in Nat /\ Len(p) \in Nat /\ Len(r) = Len(q) + Len(p)
      /\ \A k \in 1..Len(q) : r[k] = q[k]
      /\ \A k \in 1..Len(p) : r[Len(q) + k] = p[k]
  OBVIOUS
<1> HIDE DEF r
<1>4. /\ \A k \in 0..Len(q) : h[k] \in Nat
      /\ \A k \in 0..Len(p) : g[k] \in Nat
      /\ h[0] = 0 /\ g[0] = 0 /\ a \in Nat /\ b \in Nat
  <2>1. Len(q) \in 0..Len(q) /\ Len(p) \in 0..Len(p)
    BY <1>3
  <2>2. h \in [0..Len(q) -> Nat] /\ h[0] = 0 /\ g \in [0..Len(p) -> Nat] /\ g[0] = 0
    BY <1>1, <1>2 DEF Counts
  <2> QED
    BY <1>1, <1>2, <2>1, <2>2
<1> DEFINE f == [k \in 0..Len(r) |-> IF k \in 0..Len(q) THEN h[k] ELSE a + g[k - Len(q)]]
<1>5. \A k \in 0..Len(r) : k \in 0..Len(q) \/ (k \notin 0..Len(q) /\ k - Len(q) \in 1..Len(p))
  BY <1>3
<1>6. f \in [0..Len(r) -> Nat]
  <2>1. \A k \in 1..Len(p) : k \in 0..Len(p)
    BY <1>3
  <2>2. \A k \in 1..Len(p) : a + g[k] \in Nat
    BY <1>4, <2>1
  <2> QED
    BY <1>4, <1>5, <2>2
<1>7. /\ \A k \in 0..Len(q) : k \in 0..Len(r) /\ f[k] = h[k]
      /\ \A k \in 0..Len(p) : Len(q) + k \in 0..Len(r) /\ f[Len(q) + k] = a + g[k]
  <2>1. \A k \in 0..Len(q) : k \in 0..Len(r)
    BY <1>3
  <2>2. ASSUME NEW k \in 0..Len(p)
        PROVE  Len(q) + k \in 0..Len(r) /\ f[Len(q) + k] = a + g[k]
    <3>1. Len(q) + k \in 0..Len(r) /\ (Len(q) + k) - Len(q) = k
      BY <1>3
    <3>2. CASE k = 0
      <4>1. Len(q) + k = Len(q) /\ Len(q) \in 0..Len(q)
        BY <1>3, <3>2
      <4>2. f[Len(q) + k] = h[Len(q)]
        BY <3>1, <4>1
      <4> QED
        BY <1>1, <1>4, <3>1, <3>2, <4>2
    <3>3. CASE k # 0
      <4>1. Len(q) + k \notin 0..Len(q)
        BY <1>3, <3>3
      <4> QED
        BY <3>1, <4>1
    <3> QED
      BY <3>2, <3>3
  <2> QED
    BY <2>1, <2>2
<1> HIDE DEF f
<1>8. f[0] = 0
  BY <1>3, <1>4, <1>7
<1>9. ASSUME NEW k \in 1..Len(r)
      PROVE  f[k] = f[k - 1] + Weight(r[k], S)
  <2>1. CASE k \in 1..Len(q)
    <3>1. k \in 0..Len(q) /\ k - 1 \in 0..Len(q)
      BY <1>3, <2>1
    <3>2. f[k] = h[k] /\ f[k - 1] = h[k - 1] /\ r[k] = q[k]
      BY <1>3, <1>7, <2>1, <3>1
    <3> QED
      BY <1>1, <2>1, <3>2 DEF Counts
  <2>2. CASE k \notin 1..Len(q)
    <3> DEFINE j == k - Len(q)
    <3>1. j \in 1..Len(p) /\ j \in 0..Len(p) /\ j - 1 \in 0..Len(p) /\ Len(q) + j = k /\ Len(q) + (j - 1) = k - 1
      BY <1>3, <2>2
    <3> HIDE DEF j
    <3>2. f[k] = a + g[j] /\ f[k - 1] = a + g[j - 1] /\ r[k] = p[j]
      BY <1>3, <1>7, <3>1
    <3>3. g[j] = g[j - 1] + Weight(p[j], S)
      BY <1>2, <3>1 DEF Counts
    <3>4. g[j - 1] \in Nat /\ Weight(p[j], S) \in Nat
      BY <1>4, <3>1, WeightType
    <3> QED
      BY <1>4, <3>2, <3>3, <3>4
  <2> QED
    BY <2>1, <2>2
<1>10. ASSUME NEW j \in 0..Len(r), NEW k \in 0..Len(r), j <= k
       PROVE  f[j] <= f[k]
  <2>1. \A i \in 0..Len(q) : h[i] <= a /\ h[i] \in Nat
    BY <1>1, <1>3, <1>4 DEF Counts
  <2>2. CASE j \in 0..Len(q) /\ k \in 0..Len(q)
    BY <1>1, <1>7, <1>10, <2>2 DEF Counts
  <2>3. CASE j \in 0..Len(q) /\ k \notin 0..Len(q)
    <3>1. k - Len(q) \in 0..Len(p) /\ Len(q) + (k - Len(q)) = k
      BY <1>3, <2>3
    <3>2. f[k] = a + g[k - Len(q)] /\ g[k - Len(q)] \in Nat /\ f[j] = h[j]
      BY <1>4, <1>7, <2>3, <3>1
    <3> QED
      BY <1>4, <2>1, <2>3, <3>2
  <2>4. CASE j \notin 0..Len(q)
    <3>1. /\ k - Len(q) \in 0..Len(p) /\ Len(q) + (k - Len(q)) = k
          /\ j - Len(q) \in 0..Len(p) /\ Len(q) + (j - Len(q)) = j
          /\ j - Len(q) <= k - Len(q)
      BY <1>3, <1>10, <2>4
    <3>2. f[k] = a + g[k - Len(q)] /\ f[j] = a + g[j - Len(q)]
      BY <1>7, <3>1
    <3>3. g[j - Len(q)] <= g[k - Len(q)] /\ g[k - Len(q)] \in Nat /\ g[j - Len(q)] \in Nat
      BY <1>2, <1>4, <3>1 DEF Counts
    <3> QED
      BY <1>4, <3>2, <3>3
  <2> QED
    BY <2>2, <2>3, <2>4
<1>11. Counts(f, r, S)
  BY <1>6, <1>8, <1>9, <1>10 DEF Counts
<1>12. f[Len(r)] = a + b
  <2>1. Len(p) \in 0..Len(p)
    BY <1>3
  <2> QED
    BY <1>2, <1>3, <1>7, <2>1
<1> QED
  BY <1>11, <1>12 DEF Tally, r

-----------------------------------------------------------------------------
(* Every command is answered once, but for starts that are refused without *)
(* a word: a session whose client is registered is owed one answer for     *)
(* each of its commands and answers in the adapter's queue, for each that  *)
(* waits for the engine, for each call to the engine that will answer it,  *)
(* and the one of a start that is never answered.                          *)
Answerable == IF world = "mute" THEN {"update", "stop"} ELSE {"start", "update", "stop"}

Awaited(s) ==
  {m \in Message : \/ Is(m, Answerable, s)
                   \/ m.kind = "response" /\ m.to.of # "nobody" /\ m.to.key = s}

Refused(s) == IF StartUnanswered(s) THEN 1 ELSE 0

Asked(s) ==
  {c \in ApiCall : c.call \in {"startFix", "stopFix"} /\ c.then.of # "nobody" /\ c.then.key = s}

OwedIs(s, a, p, b) ==
  /\ Tally(queue, Awaited(s), a) /\ Tally(pending, Awaited(s), p) /\ Tally(api, Asked(s), b)
  /\ s \in clients => owed[s] = a + p + b + Refused(s)

OwedHeld(s) == owed[s] >= 0 /\ \E a, p, b : OwedIs(s, a, p, b)

OwedFollows == \A s \in Sessions : OwedHeld(s)

(* In every world, only a client that was removed is unregistered.         *)
RemovalHeld(s) == s \notin clients \/ Sent(s, {"remove"}) => client[s] = "removed"

RemovalsFollow == \A s \in Sessions : RemovalHeld(s)

LEMMA TallyType ==
  ASSUME NEW M, NEW q \in Seq(M), NEW S, NEW n, Tally(q, S, n)
  PROVE  n \in Nat
<1>1. Len(q) \in Nat
  OBVIOUS
<1> QED
  BY <1>1 DEF Tally, Counts

LEMMA AwaitedKept ==
  ASSUME UNCHANGED world
  PROVE  \A s : Awaited(s)' = Awaited(s)
  BY DEF Awaited, Answerable

LEMMA RefusedType == \A s : Refused(s) \in {0, 1}
  BY DEF Refused

LEMMA OwedTypes ==
  ASSUME TypeOK, NEW s, NEW a, NEW p, NEW b, OwedIs(s, a, p, b)
  PROVE  a \in Nat /\ p \in Nat /\ b \in Nat
<1>1. queue \in Seq(Message) /\ pending \in Seq(Command \union {Freed}) /\ api \in Seq(ApiCall)
  BY DEF TypeOK
<1> QED
  BY <1>1, TallyType DEF OwedIs

(* A start is refused when it is sent; no step of the adapter changes it.  *)
LEMMA RefusedKept ==
  ASSUME TypeOK, NEW s \in Sessions, UNCHANGED world,
         client'[s] = "new" <=> client[s] = "new"
  PROVE  Refused(s)' = Refused(s)
  BY DEF Refused, StartUnanswered

(* Grows(s, d): d of the calls a step posts will answer session s.         *)
Grows(s, d) == \A b : Tally(api, Asked(s), b) => Tally(api', Asked(s), b + d)

Meant(then, s) == IF then.of # "nobody" /\ then.key = s THEN 1 ELSE 0

LEMMA GrowsNothing ==
  ASSUME TypeOK, NEW s, UNCHANGED api \/ PostCalls(<<>>)
  PROVE  Grows(s, 0)
<1>1. api' = api /\ api \in Seq(ApiCall)
  BY ConcatNothing DEF PostCalls, TypeOK
<1>2. \A b : Tally(api, Asked(s), b) => b \in Nat
  BY <1>1, TallyType
<1>3. \A b \in Nat : b + 0 = b
  OBVIOUS
<1> QED
  BY <1>1, <1>2, <1>3 DEF Grows

LEMMA GrowsOne ==
  ASSUME TypeOK, NEW s, NEW c \in ApiCall, PostCalls(<<c>>)
  PROVE  Grows(s, Weight(c, Asked(s)))
<1>1. api \in Seq(ApiCall)
  BY DEF TypeOK
<1>2. api' = Append(api, c)
  BY <1>1, ConcatIsAppend DEF PostCalls
<1> QED
  BY <1>1, <1>2, TallyAppend DEF Grows

LEMMA GrowsStart ==
  ASSUME TypeOK, NEW s, NEW i \in Intervals, NEW then \in Response, PostCalls(StartFix(i, then))
  PROVE  Grows(s, Meant(then, s))
<1> DEFINE c == [call |-> "startFix", interval |-> i, then |-> then]
<1>1. c \in ApiCall /\ c.call = "startFix" /\ c.then = then
  BY StartFixType
<1>2. PostCalls(<<c>>)
  BY DEF StartFix
<1> HIDE DEF c
<1>3. Weight(c, Asked(s)) = Meant(then, s)
  BY <1>1 DEF Weight, Asked, Meant
<1>4. Grows(s, Weight(c, Asked(s)))
  BY <1>1, <1>2, GrowsOne
<1> QED
  BY <1>3, <1>4

LEMMA GrowsStop ==
  ASSUME TypeOK, NEW s, NEW then \in Response, PostCalls(StopFix(then))
  PROVE  Grows(s, Meant(then, s))
<1> DEFINE c == [call |-> "stopFix", then |-> then]
<1>1. c \in ApiCall /\ c.call = "stopFix" /\ c.then = then
  BY StopFixType
<1>2. PostCalls(<<c>>)
  BY DEF StopFix
<1> HIDE DEF c
<1>3. Weight(c, Asked(s)) = Meant(then, s)
  BY <1>1 DEF Weight, Asked, Meant
<1>4. Grows(s, Weight(c, Asked(s)))
  BY <1>1, <1>2, GrowsOne
<1> QED
  BY <1>3, <1>4

(* What the end of session t posts, to session s.                          *)
LEMMA GrowsEnd ==
  ASSUME TypeOK, NEW s, NEW t \in Live, PostCalls(StopMultiplex(t))
  PROVE  \/ StopMultiplex(t) = <<>> /\ Grows(s, 0)
         \/ StopMultiplex(t) # <<>> /\ Grows(s, IF s = t THEN 1 ELSE 0)
<1>1. sessions \in [Sessions -> Options \union {None}] /\ t \in Sessions
  BY LiveParts DEF TypeOK
<1> DEFINE stop    == [of |-> "stop", key |-> t]
           restart == [of |-> "restart", key |-> t]
<1>2. /\ stop \in Response /\ restart \in Response
      /\ Meant(stop, s) = IF s = t THEN 1 ELSE 0
      /\ Meant(restart, s) = IF s = t THEN 1 ELSE 0
  BY <1>1, ResponseTypes DEF Meant
<1>3. \/ StopMultiplex(t) = <<>>
      \/ StopMultiplex(t) = StopFix(stop)
      \/ \E i \in Intervals : StopMultiplex(t) = StartFix(i, restart)
  BY <1>1, StopMultiplexFacts
<1> HIDE DEF stop, restart
<1>4. CASE StopMultiplex(t) = <<>>
  BY <1>4, GrowsNothing
<1>5. CASE StopMultiplex(t) = StopFix(stop)
  <2>1. Grows(s, Meant(stop, s))
    BY <1>2, <1>5, GrowsStop
  <2>2. StopMultiplex(t) # <<>>
    BY <1>5 DEF StopFix
  <2> QED
    BY <1>2, <2>1, <2>2
<1>6. ASSUME NEW i \in Intervals, StopMultiplex(t) = StartFix(i, restart)
      PROVE  StopMultiplex(t) # <<>> /\ Grows(s, IF s = t THEN 1 ELSE 0)
  <2>1. Grows(s, Meant(restart, s))
    BY <1>2, <1>6, GrowsStart
  <2>2. StopMultiplex(t) # <<>>
    BY <1>6 DEF StartFix
  <2> QED
    BY <1>2, <2>1, <2>2
<1> QED
  BY <1>3, <1>4, <1>5, <1>6

(* The same, whatever the step posts after it.                             *)
LEMMA TallyEnd ==
  ASSUME TypeOK, NEW s, NEW t \in Live
  PROVE  \/ /\ StopMultiplex(t) = <<>>
            /\ \A b : Tally(api, Asked(s), b) => Tally(api \o StopMultiplex(t), Asked(s), b)
         \/ /\ StopMultiplex(t) # <<>>
            /\ \A b : Tally(api, Asked(s), b) =>
                  Tally(api \o StopMultiplex(t), Asked(s), b + IF s = t THEN 1 ELSE 0)
<1>1. sessions \in [Sessions -> Options \union {None}] /\ t \in Sessions /\ api \in Seq(ApiCall)
  BY LiveParts DEF TypeOK
<1> DEFINE stop    == [of |-> "stop", key |-> t]
           restart == [of |-> "restart", key |-> t]
<1>2. /\ stop \in Response /\ restart \in Response
      /\ Meant(stop, s) = IF s = t THEN 1 ELSE 0
      /\ Meant(restart, s) = IF s = t THEN 1 ELSE 0
  BY <1>1, ResponseTypes DEF Meant
<1>3. \/ StopMultiplex(t) = <<>>
      \/ StopMultiplex(t) = StopFix(stop)
      \/ \E i \in Intervals : StopMultiplex(t) = StartFix(i, restart)
  BY <1>1, StopMultiplexFacts
<1> HIDE DEF stop, restart
<1>4. ASSUME NEW c \in ApiCall, StopMultiplex(t) = <<c>>, c.call \in {"startFix", "stopFix"},
             c.then \in {stop, restart}
      PROVE  /\ StopMultiplex(t) # <<>>
             /\ \A b : Tally(api, Asked(s), b) =>
                   Tally(api \o StopMultiplex(t), Asked(s), b + IF s = t THEN 1 ELSE 0)
  <2>1. Weight(c, Asked(s)) = IF s = t THEN 1 ELSE 0
    BY <1>2, <1>4 DEF Weight, Asked, Meant
  <2>2. api \o <<c>> = Append(api, c)
    BY <1>1, ConcatIsAppend
  <2>3. \A b : Tally(api, Asked(s), b) => Tally(Append(api, c), Asked(s), b + Weight(c, Asked(s)))
    BY <1>1, TallyAppend
  <2>4. StopMultiplex(t) # <<>>
    BY <1>4
  <2> QED
    BY <1>4, <2>1, <2>2, <2>3, <2>4
<1>5. CASE StopMultiplex(t) = <<>>
  <2>1. api \o <<>> = api
    BY <1>1, ConcatNothing
  <2> QED
    BY <1>5, <2>1
<1>6. CASE StopMultiplex(t) = StopFix(stop)
  <2> DEFINE c == [call |-> "stopFix", then |-> stop]
  <2>1. c \in ApiCall /\ StopMultiplex(t) = <<c>> /\ c.call = "stopFix" /\ c.then = stop
    BY <1>2, <1>6, StopFixType DEF StopFix
  <2> HIDE DEF c
  <2> QED
    BY <1>4, <2>1
<1>7. ASSUME NEW i \in Intervals, StopMultiplex(t) = StartFix(i, restart)
      PROVE  /\ StopMultiplex(t) # <<>>
             /\ \A b : Tally(api, Asked(s), b) =>
                   Tally(api \o StopMultiplex(t), Asked(s), b + IF s = t THEN 1 ELSE 0)
  <2> DEFINE c == [call |-> "startFix", interval |-> i, then |-> restart]
  <2>1. c \in ApiCall /\ StopMultiplex(t) = <<c>> /\ c.call = "startFix" /\ c.then = restart
    BY <1>2, <1>7, StartFixType DEF StartFix
  <2> HIDE DEF c
  <2> QED
    BY <1>4, <2>1
<1> QED
  BY <1>3, <1>5, <1>6, <1>7

(* The calls of RestartFix and SuspendFix answer nobody.                   *)
LEMMA TallyRestart ==
  ASSUME TypeOK, NEW s, NEW q \in Seq(ApiCall), NEW n, Tally(q, Asked(s), n)
  PROVE  Tally(q \o RestartFix, Asked(s), n)
<1>1. sessions \in [Sessions -> Options \union {None}] /\ Nobody \in Response /\ n \in Nat
  BY TallyType DEF TypeOK, Response, Nobody
<1>2. CASE RestartFix = <<>>
  <2>1. q \o <<>> = q
    BY ConcatNothing
  <2> QED
    BY <1>2, <2>1
<1>3. ASSUME NEW i \in Intervals, RestartFix = StartFix(i, Nobody)
      PROVE  Tally(q \o RestartFix, Asked(s), n)
  <2> DEFINE c == [call |-> "startFix", interval |-> i, then |-> Nobody]
  <2>1. c \in ApiCall /\ c.then.of = "nobody"
    BY <1>1, StartFixType DEF Nobody
  <2>2. RestartFix = <<c>>
    BY <1>3 DEF StartFix
  <2> HIDE DEF c
  <2>3. q \o <<c>> = Append(q, c)
    BY <2>1, ConcatIsAppend
  <2>4. Weight(c, Asked(s)) = 0
    BY <2>1 DEF Weight, Asked
  <2>5. Tally(Append(q, c), Asked(s), n + Weight(c, Asked(s)))
    BY <2>1, TallyAppend
  <2>6. n + 0 = n
    BY <1>1
  <2> QED
    BY <2>2, <2>3, <2>4, <2>5, <2>6
<1> QED
  BY <1>1, <1>2, <1>3, RestartFixFacts

LEMMA TallySuspend ==
  ASSUME TypeOK, NEW s, NEW q \in Seq(ApiCall), NEW n, Tally(q, Asked(s), n)
  PROVE  Tally(q \o SuspendFix, Asked(s), n)
<1>1. Nobody \in Response /\ n \in Nat
  BY TallyType DEF Response, Nobody
<1>2. CASE SuspendFix = <<>>
  <2>1. q \o <<>> = q
    BY ConcatNothing
  <2> QED
    BY <1>2, <2>1
<1>3. CASE SuspendFix = StopFix(Nobody)
  <2> DEFINE c == [call |-> "stopFix", then |-> Nobody]
  <2>1. c \in ApiCall /\ c.then.of = "nobody"
    BY <1>1, StopFixType DEF Nobody
  <2>2. SuspendFix = <<c>>
    BY <1>3 DEF StopFix
  <2> HIDE DEF c
  <2>3. q \o <<c>> = Append(q, c)
    BY <2>1, ConcatIsAppend
  <2>4. Weight(c, Asked(s)) = 0
    BY <2>1 DEF Weight, Asked
  <2>5. Tally(Append(q, c), Asked(s), n + Weight(c, Asked(s)))
    BY <2>1, TallyAppend
  <2>6. n + 0 = n
    BY <1>1
  <2> QED
    BY <2>2, <2>3, <2>4, <2>5, <2>6
<1> QED
  BY <1>2, <1>3 DEF SuspendFix

LEMMA GrowsReconfigured ==
  ASSUME TypeOK, NEW s, PostCalls(SuspendFix \o <<[call |-> "configure"]>> \o RestartFix)
  PROVE  Grows(s, 0)
<1> DEFINE c == [call |-> "configure"]
<1>1. /\ api \in Seq(ApiCall) /\ SuspendFix \in Seq(ApiCall) /\ RestartFix \in Seq(ApiCall)
      /\ c \in ApiCall /\ c.call = "configure" /\ <<c>> \in Seq(ApiCall)
      /\ api' = api \o (SuspendFix \o <<c>> \o RestartFix)
  BY EndingTypes DEF TypeOK, PostCalls
<1> HIDE DEF c
<1>2. api' = api \o SuspendFix \o <<c>> \o RestartFix
  <2>1. api \o (SuspendFix \o <<c>> \o RestartFix) = api \o SuspendFix \o <<c>> \o RestartFix
    BY <1>1
  <2> QED
    BY <1>1, <2>1
<1>3. api \o SuspendFix \in Seq(ApiCall)
  BY <1>1, ConcatType
<1>4. api \o SuspendFix \o <<c>> = Append(api \o SuspendFix, c)
  BY <1>1, <1>3, ConcatIsAppend
<1>5. Append(api \o SuspendFix, c) \in Seq(ApiCall)
  BY <1>1, <1>3, AppendElements
<1> SUFFICES ASSUME NEW n, Tally(api, Asked(s), n)
             PROVE  Tally(api', Asked(s), n + 0)
  BY DEF Grows
<1>6. n \in Nat
  BY <1>1, TallyType
<1>7. Tally(api \o SuspendFix, Asked(s), n)
  BY <1>1, TallySuspend
<1>8. Tally(Append(api \o SuspendFix, c), Asked(s), n + Weight(c, Asked(s)))
  BY <1>1, <1>3, <1>7, TallyAppend
<1>9. Weight(c, Asked(s)) = 0
  BY <1>1 DEF Weight, Asked
<1>10. Tally(Append(api \o SuspendFix, c) \o RestartFix, Asked(s), n + 0)
  BY <1>5, <1>8, <1>9, TallyRestart
<1> QED
  BY <1>2, <1>4, <1>10

-----------------------------------------------------------------------------
(* Takes(s, d): the adapter takes what session s awaits off its queue,     *)
(* and either asks the engine (d = 1) or answers the client.               *)
Takes(s, d) ==
  \/ owed'[s] = owed[s] /\ (s \in clients' => d = Weight(Head(queue), Awaited(s)))
  \/ owed'[s] = AfterReport(s)[s] /\ d = 0 /\ Weight(Head(queue), Awaited(s)) = 1

LEMMA OwedTaken ==
  ASSUME TypeOK, NEW s \in Sessions, OwedHeld(s), queue # <<>>, queue' = Tail(queue), UNCHANGED <<pending, world>>,
         clients' \subseteq clients, Refused(s)' = Refused(s),
         NEW d \in {0, 1}, Grows(s, d), Takes(s, d)
  PROVE  OwedHeld(s)'
<1>0. PICK w, z : w = Weight(Head(queue), Awaited(s)) /\ z = Refused(s)
  OBVIOUS
<1>1. PICK a, p, b : OwedIs(s, a, p, b)
  BY DEF OwedHeld
<1>2. /\ queue \in Seq(Message) /\ api \in Seq(ApiCall) /\ owed \in [Sessions -> Int] /\ owed[s] >= 0
      /\ a \in Nat /\ p \in Nat /\ b \in Nat /\ z \in {0, 1}
      /\ s \in clients => owed[s] = a + p + b + z
  BY <1>0, <1>1, OwedTypes, RefusedType DEF TypeOK, OwedHeld, OwedIs
<1>3. Tally(queue', Awaited(s), a - w) /\ a - w \in Nat
  BY <1>0, <1>1, <1>2, TallyTail DEF OwedIs
<1>4. Tally(api', Asked(s), b + d) /\ b + d \in Nat
  BY <1>1, <1>2 DEF Grows, OwedIs
<1>5. w \in {0, 1}
  BY <1>0, WeightType
<1>6. Takes(s, d) <=> \/ owed'[s] = owed[s] /\ (s \in clients' => d = w)
                      \/ owed'[s] = AfterReport(s)[s] /\ d = 0 /\ w = 1
  BY <1>0 DEF Takes
<1>7. owed'[s] >= 0 /\ (s \in clients' => owed'[s] = (a - w) + p + (b + d) + z)
  <2>1. CASE owed'[s] = owed[s] /\ (s \in clients' => d = w)
    BY <1>2, <1>3, <1>4, <1>5, <2>1
  <2>2. CASE owed'[s] = AfterReport(s)[s] /\ d = 0 /\ w = 1
    <3>1. AfterReport(s)[s] = IF s \notin clients \/ owed[s] = -1 THEN owed[s] ELSE owed[s] - 1
      BY <1>2 DEF AfterReport
    <3>2. CASE s \notin clients
      BY <1>2, <2>2, <3>1, <3>2
    <3>3. CASE s \in clients
      <4>1. owed[s] = a + p + b + z /\ a >= 1
        BY <1>2, <1>3, <2>2, <3>3
      <4>2. owed'[s] = owed[s] - 1
        BY <1>2, <2>2, <3>1, <3>3, <4>1
      <4> QED
        BY <1>2, <1>3, <1>4, <2>2, <4>1, <4>2
    <3> QED
      BY <3>2, <3>3
  <2> QED
    BY <1>6, <2>1, <2>2
<1>8. Awaited(s)' = Awaited(s)
  BY AwaitedKept
<1>9. Tally(pending', Awaited(s), p)
  BY <1>1 DEF OwedIs
<1>10. OwedIs(s, a - w, p, b + d)'
  BY <1>0, <1>3, <1>4, <1>7, <1>8, <1>9 DEF OwedIs
<1> QED
  BY <1>7, <1>10 DEF OwedHeld

(* A command that waits for the engine goes on waiting for its answer.     *)
LEMMA OwedWaits ==
  ASSUME TypeOK, NEW s \in Sessions, OwedHeld(s), Wait
  PROVE  OwedHeld(s)'
<1>0. PICK w, z : w = Weight(Head(queue), Awaited(s)) /\ z = Refused(s)
  OBVIOUS
<1>1. PICK a, p, b : OwedIs(s, a, p, b)
  BY DEF OwedHeld
<1>2. /\ queue # <<>> /\ queue' = Tail(queue) /\ pending' = Append(pending, Head(queue))
      /\ UNCHANGED <<clients, api, owed, client, world>>
  BY DEF Wait, Receives, clientVars
<1>3. /\ queue \in Seq(Message) /\ pending \in Seq(Command \union {Freed}) /\ Head(queue) \in Command \union {Freed}
      /\ a \in Nat /\ p \in Nat /\ b \in Nat /\ z \in {0, 1} /\ w \in {0, 1} /\ owed[s] >= 0
      /\ s \in clients => owed[s] = a + p + b + z
  BY <1>0, <1>1, OwedTypes, RefusedType, WeightType, HeadParts DEF TypeOK, OwedHeld, OwedIs, Wait
<1>4. Tally(queue', Awaited(s), a - w) /\ a - w \in Nat
  BY <1>0, <1>1, <1>2, <1>3, TallyTail DEF OwedIs
<1>5. Tally(pending', Awaited(s), p + w)
  BY <1>0, <1>1, <1>2, <1>3, TallyAppend DEF OwedIs
<1>6. Awaited(s)' = Awaited(s) /\ Refused(s)' = z
  BY <1>0, <1>2, AwaitedKept, RefusedKept
<1>7. s \in clients' => owed'[s] = (a - w) + (p + w) + b + z
  BY <1>2, <1>3
<1>8. OwedIs(s, a - w, p + w, b)'
  BY <1>1, <1>2, <1>4, <1>5, <1>6, <1>7 DEF OwedIs
<1> QED
  BY <1>2, <1>3, <1>8 DEF OwedHeld

(* What the head of the queue is awaited for.                              *)
LEMMA HeadAwaited ==
  ASSUME TypeOK, NEW kind, Receives(kind), NEW s
  PROVE  /\ kind \in {"update", "stop"} =>
              Weight(Head(queue), Awaited(s)) = IF s = Head(queue).key THEN 1 ELSE 0
         /\ kind = "start" =>
              Weight(Head(queue), Awaited(s)) = IF s = Head(queue).key /\ world # "mute" THEN 1 ELSE 0
         /\ kind = "response" /\ Head(queue).to.of # "nobody" =>
              Weight(Head(queue), Awaited(s)) = IF s = Head(queue).to.key THEN 1 ELSE 0
         /\ kind \in {"remove", "engineUp", "reconfigure"} => Weight(Head(queue), Awaited(s)) = 0
<1>1. Head(queue) \in Message /\ Head(queue).kind = kind
  BY HeadParts
<1> DEFINE m == Head(queue)
<1> HIDE DEF m
<1>2. m \in Message /\ m.kind = kind
  BY <1>1 DEF m
<1>3. /\ kind \in {"update", "stop"} => Weight(m, Awaited(s)) = IF s = m.key THEN 1 ELSE 0
      /\ kind = "start" => Weight(m, Awaited(s)) = IF s = m.key /\ world # "mute" THEN 1 ELSE 0
      /\ kind = "response" /\ m.to.of # "nobody" => Weight(m, Awaited(s)) = IF s = m.to.key THEN 1 ELSE 0
      /\ kind \in {"remove", "engineUp", "reconfigure"} => Weight(m, Awaited(s)) = 0
  BY <1>2 DEF Weight, Awaited, Answerable, Is
<1> QED
  BY <1>3 DEF m

LEMMA ReportTakes ==
  ASSUME TypeOK, NEW s \in Sessions, NEW t \in Sessions, owed' = AfterReport(t),
         Weight(Head(queue), Awaited(s)) = IF s = t THEN 1 ELSE 0
  PROVE  Takes(s, 0)
<1>1. s # t => owed'[s] = owed[s]
  BY DEF AfterReport, TypeOK
<1>2. CASE s = t
  BY <1>2 DEF Takes
<1>3. CASE s # t
  BY <1>1, <1>3 DEF Takes
<1> QED
  BY <1>2, <1>3

(* A command that is decided: the calls answer it, or the client is told.  *)
LEMMA DecisionTakes ==
  ASSUME TypeOK, NEW s \in Sessions, NEW t \in Sessions, NEW calls,
         Weight(Head(queue), Awaited(s)) = IF s = t THEN 1 ELSE 0,
         calls = <<>> => owed' = AfterReport(t) /\ Grows(s, 0),
         calls # <<>> => owed' = owed /\ Grows(s, IF s = t THEN 1 ELSE 0)
  PROVE  \E d \in {0, 1} : Grows(s, d) /\ Takes(s, d)
<1>1. CASE calls = <<>>
  BY <1>1, ReportTakes
<1>2. CASE calls # <<>>
  <2>1. Takes(s, IF s = t THEN 1 ELSE 0)
    BY <1>2 DEF Takes
  <2> QED
    BY <1>2, <2>1
<1> QED
  BY <1>1, <1>2

LEMMA StartCounts ==
  ASSUME TypeOK, StartTracking, NEW s \in Sessions
  PROVE  \E d \in {0, 1} : Grows(s, d) /\ Takes(s, d)
<1> DEFINE t == Head(queue).key
           o == Head(queue).options
           then == [of |-> "start", key |-> t]
           calls == StartMultiplex(t, o)
<1>1. t \in Sessions /\ o \in Options
  BY HeadParts DEF StartTracking
<1>2. /\ PostCalls(calls)
      /\ calls = <<>> => owed' = AfterReport(t)
      /\ calls # <<>> => owed' = owed
  BY DEF StartTracking, clientVars
<1>3. Weight(Head(queue), Awaited(s)) = IF s = t THEN 1 ELSE 0
  BY HeadAwaited DEF StartTracking
<1>4. calls = <<>> \/ \E i \in Intervals : calls = StartFix(i, then)
  BY <1>1, StartMultiplexFacts DEF TypeOK
<1>5. then \in Response /\ Meant(then, s) = IF s = t THEN 1 ELSE 0
  BY <1>1, ResponseTypes DEF Meant
<1> HIDE DEF t, o, then, calls
<1>6. calls = <<>> => Grows(s, 0)
  BY <1>2, GrowsNothing
<1>7. calls # <<>> => Grows(s, IF s = t THEN 1 ELSE 0)
  <2>1. \A i \in Intervals : calls = StartFix(i, then) => Grows(s, Meant(then, s))
    BY <1>2, <1>5, GrowsStart
  <2> QED
    BY <1>4, <1>5, <2>1
<1> QED
  BY <1>1, <1>2, <1>3, <1>6, <1>7, DecisionTakes

LEMMA UpdateCounts ==
  ASSUME TypeOK, UpdateTracking, NEW s \in Sessions
  PROVE  \E d \in {0, 1} : Grows(s, d) /\ Takes(s, d)
<1> DEFINE t == Head(queue).key
           o == Head(queue).options
           then == [of |-> "update", key |-> t, old |-> sessions[t]]
           calls == UpdateMultiplex(t, o)
<1>1. t \in Live /\ t \in Sessions /\ o \in Options /\ sessions[t] \in Options
  BY HeadParts, LiveParts DEF UpdateTracking, Live, TypeOK
<1>2. /\ PostCalls(calls)
      /\ calls = <<>> => owed' = AfterReport(t)
      /\ calls # <<>> => owed' = owed
  BY DEF UpdateTracking
<1>3. Weight(Head(queue), Awaited(s)) = IF s = t THEN 1 ELSE 0
  BY HeadAwaited DEF UpdateTracking
<1>4. calls = <<>> \/ \E i \in Intervals : calls = StartFix(i, then)
  BY <1>1, UpdateMultiplexFacts DEF TypeOK
<1>5. then \in Response /\ Meant(then, s) = IF s = t THEN 1 ELSE 0
  BY <1>1, ResponseTypes DEF Meant
<1> HIDE DEF t, o, then, calls
<1>6. calls = <<>> => Grows(s, 0)
  BY <1>2, GrowsNothing
<1>7. calls # <<>> => Grows(s, IF s = t THEN 1 ELSE 0)
  <2>1. \A i \in Intervals : calls = StartFix(i, then) => Grows(s, Meant(then, s))
    BY <1>2, <1>5, GrowsStart
  <2> QED
    BY <1>4, <1>5, <2>1
<1> QED
  BY <1>1, <1>2, <1>3, <1>6, <1>7, DecisionTakes

LEMMA StopCounts ==
  ASSUME TypeOK, StopTracking, NEW s \in Sessions
  PROVE  \E d \in {0, 1} : Grows(s, d) /\ Takes(s, d)
<1> DEFINE t == Head(queue).key
           calls == StopMultiplex(t)
<1>1. t \in Sessions
  BY HeadParts DEF StopTracking
<1>2. Weight(Head(queue), Awaited(s)) = IF s = t THEN 1 ELSE 0
  BY HeadAwaited DEF StopTracking
<1>3. \/ ~Tracks(t) /\ owed' = AfterReport(t) /\ UNCHANGED api
      \/ /\ Tracks(t) /\ PostCalls(StopMultiplex(t))
         /\ calls = <<>> => owed' = AfterReport(t)
         /\ calls # <<>> => owed' = owed
  BY DEF StopTracking, clientVars
<1>4. CASE ~Tracks(t) /\ owed' = AfterReport(t) /\ UNCHANGED api
  BY <1>1, <1>2, <1>4, ReportTakes, GrowsNothing
<1>5. ASSUME Tracks(t), PostCalls(StopMultiplex(t)),
             calls = <<>> => owed' = AfterReport(t), calls # <<>> => owed' = owed
      PROVE  \E d \in {0, 1} : Grows(s, d) /\ Takes(s, d)
  <2>1. t \in Live
    BY <1>1, <1>5 DEF Live
  <2>2. \/ calls = <<>> /\ Grows(s, 0)
        \/ calls # <<>> /\ Grows(s, IF s = t THEN 1 ELSE 0)
    BY <1>5, <2>1, GrowsEnd
  <2> HIDE DEF t, calls
  <2> QED
    BY <1>1, <1>2, <1>5, <2>2, DecisionTakes
<1> QED
  BY <1>3, <1>4, <1>5

LEMMA SwitchCounts ==
  ASSUME TypeOK, SwitchToDistance, NEW s \in Sessions
  PROVE  \E d \in {0, 1} : Grows(s, d) /\ Takes(s, d)
<1> DEFINE t == Head(queue).key
           o == Head(queue).options
           calls == StopMultiplex(t)
           c == [call |-> "startFix", interval |-> o.interval, then |-> Nobody]
<1>1. t \in Sessions /\ o \in Options /\ t \in Live
  BY HeadParts DEF SwitchToDistance, Live
<1>2. Weight(Head(queue), Awaited(s)) = IF s = t THEN 1 ELSE 0
  BY HeadAwaited DEF SwitchToDistance
<1>3. /\ PostCalls(calls \o <<c>>)
      /\ calls = <<>> => owed' = AfterReport(t)
      /\ calls # <<>> => owed' = owed
  BY DEF SwitchToDistance, StartFix
<1>4. c \in ApiCall /\ c.then.of = "nobody" /\ calls \in Seq(ApiCall) /\ api \in Seq(ApiCall)
  <2>1. Nobody \in Response /\ Nobody.of = "nobody"
    BY DEF Response, Nobody
  <2>2. o.interval \in Intervals
    BY <1>1, OptionParts
  <2>3. c \in ApiCall
    BY <2>1, <2>2, StartFixType
  <2>4. calls \in Seq(ApiCall) /\ api \in Seq(ApiCall)
    BY <1>1, EndingTypes DEF TypeOK
  <2> QED
    BY <2>1, <2>3, <2>4
<1>5. \/ calls = <<>> /\ \A b : Tally(api, Asked(s), b) => Tally(api \o calls, Asked(s), b)
      \/ /\ calls # <<>>
         /\ \A b : Tally(api, Asked(s), b) => Tally(api \o calls, Asked(s), b + IF s = t THEN 1 ELSE 0)
  BY <1>1, <1>4, TallyEnd
<1> HIDE DEF c, calls, t, o
<1>6. api' = Append(api \o calls, c) /\ api \o calls \in Seq(ApiCall)
  <2>1. api \o (calls \o <<c>>) = (api \o calls) \o <<c>> /\ api \o calls \in Seq(ApiCall)
    BY <1>4
  <2> QED
    BY <1>3, <1>4, <2>1, ConcatIsAppend DEF PostCalls
<1>7. Weight(c, Asked(s)) = 0
  BY <1>4 DEF Weight, Asked
<1>8. ASSUME NEW n, Tally(api \o calls, Asked(s), n)
      PROVE  Tally(api', Asked(s), n)
  <2>1. Tally(Append(api \o calls, c), Asked(s), n + 0) /\ n \in Nat
    BY <1>4, <1>6, <1>7, <1>8, TallyAppend
  <2>2. n + 0 = n
    BY <2>1
  <2> QED
    BY <1>6, <2>1, <2>2
<1>9. calls = <<>> => Grows(s, 0)
  <2> SUFFICES ASSUME calls = <<>>, NEW b, Tally(api, Asked(s), b)
               PROVE  Tally(api', Asked(s), b + 0)
    BY DEF Grows
  <2>1. b \in Nat
    BY <1>4, TallyType
  <2>2. b + 0 = b
    BY <2>1
  <2> QED
    BY <1>5, <1>8, <2>2
<1>10. calls # <<>> => Grows(s, IF s = t THEN 1 ELSE 0)
  BY <1>5, <1>8 DEF Grows
<1> QED
  BY <1>1, <1>2, <1>3, <1>9, <1>10, DecisionTakes

(* A removed client is answered no more, whatever its session posts.       *)
LEMMA RemoveCounts ==
  ASSUME TypeOK, StopClientSessions, NEW s \in Sessions
  PROVE  \E d \in {0, 1} : Grows(s, d) /\ Takes(s, d)
<1> DEFINE t == Head(queue).key
<1>1. t \in Sessions
  BY HeadParts DEF StopClientSessions
<1>2. Weight(Head(queue), Awaited(s)) = 0
  BY HeadAwaited DEF StopClientSessions
<1>3. owed' = owed /\ t \notin clients'
  BY DEF StopClientSessions, clientVars
<1>4. \/ ~Tracks(t) /\ UNCHANGED api
      \/ t \in Live /\ PostCalls(StopMultiplex(t))
  BY <1>1 DEF StopClientSessions, Live
<1> HIDE DEF t
<1>5. \A d \in {0, 1} : s = t \/ d = 0 => Takes(s, d)
  BY <1>2, <1>3 DEF Takes
<1>6. CASE UNCHANGED api
  BY <1>5, <1>6, GrowsNothing
<1>7. CASE t \in Live /\ PostCalls(StopMultiplex(t))
  <2>1. Grows(s, 0) \/ Grows(s, IF s = t THEN 1 ELSE 0)
    BY <1>7, GrowsEnd
  <2> QED
    BY <1>5, <2>1
<1> QED
  BY <1>4, <1>6, <1>7

LEMMA RespondedCounts ==
  ASSUME TypeOK, StartResponded \/ UpdateResponded \/ StopResponded, NEW s \in Sessions
  PROVE  \E d \in {0, 1} : Grows(s, d) /\ Takes(s, d)
<1> DEFINE t == Head(queue).to.key
<1>1. /\ Receives("response") /\ Head(queue).to.of # "nobody"
      /\ owed' = AfterReport(t) /\ UNCHANGED api
  BY DEF StartResponded, UpdateResponded, StopResponded
<1>2. t \in Sessions /\ Weight(Head(queue), Awaited(s)) = IF s = t THEN 1 ELSE 0
  BY <1>1, HeadParts, HeadAwaited
<1> QED
  BY <1>1, <1>2, ReportTakes, GrowsNothing

LEMMA AdapterCounts ==
  ASSUME TypeOK, AdapterStep, ~Wait, NEW s \in Sessions
  PROVE  clients' \subseteq clients /\ \E d \in {0, 1} : Grows(s, d) /\ Takes(s, d)
<1>1. clients' \subseteq clients
  BY DEF AdapterStep, Wait, StartWithoutCallbacks, StartTracking, UpdateUnknown, UpdateTracking,
         SwitchToDistance, StopTracking, StopClientSessions, EngineUp, Reconfigure,
         StartResponded, UpdateResponded, StopResponded, adapterVars
<1>3. CASE StartWithoutCallbacks
  <2>1. /\ UNCHANGED api /\ owed' = owed /\ UNCHANGED clients
        /\ Weight(Head(queue), Awaited(s)) = IF s = Head(queue).key /\ world # "mute" THEN 1 ELSE 0
        /\ Head(queue).key \notin clients \/ world = "mute"
    BY <1>3, HeadAwaited DEF StartWithoutCallbacks, adapterVars, clientVars
  <2>2. Takes(s, 0)
    BY <2>1 DEF Takes
  <2> QED
    BY <2>1, <2>2, GrowsNothing
<1>4. CASE UpdateUnknown
  <2>1. /\ UNCHANGED api /\ owed' = AfterReport(Head(queue).key) /\ Head(queue).key \in Sessions
        /\ Weight(Head(queue), Awaited(s)) = IF s = Head(queue).key THEN 1 ELSE 0
    BY <1>4, HeadAwaited, HeadParts DEF UpdateUnknown
  <2>2. Grows(s, 0) /\ Takes(s, 0)
    BY <2>1, ReportTakes, GrowsNothing
  <2> QED
    BY <1>1, <2>2
<1>5. CASE EngineUp
  <2>1. owed' = owed /\ Weight(Head(queue), Awaited(s)) = 0 /\ PostCalls(RestartFix)
    BY <1>5, HeadAwaited DEF EngineUp, clientVars
  <2>2. \A n : Tally(api, Asked(s), n) => n \in Nat /\ Tally(api', Asked(s), n)
    BY <2>1, TallyRestart, TallyType DEF PostCalls, TypeOK
  <2>3. \A n \in Nat : n + 0 = n
    OBVIOUS
  <2>4. Grows(s, 0)
    BY <2>2, <2>3 DEF Grows
  <2>5. Takes(s, 0)
    BY <2>1 DEF Takes
  <2> QED
    BY <1>1, <2>4, <2>5
<1>6. CASE Reconfigure
  <2>1. /\ owed' = owed /\ Weight(Head(queue), Awaited(s)) = 0
        /\ PostCalls(SuspendFix \o <<[call |-> "configure"]>> \o RestartFix)
    BY <1>6, HeadAwaited DEF Reconfigure, clientVars
  <2>2. Takes(s, 0)
    BY <2>1 DEF Takes
  <2>3. Grows(s, 0)
    BY <2>1, GrowsReconfigured
  <2> QED
    BY <1>1, <2>2, <2>3
<1> QED
  BY <1>1, <1>3, <1>4, <1>5, <1>6, StartCounts, UpdateCounts, SwitchCounts, StopCounts, RemoveCounts,
     RespondedCounts
  DEF AdapterStep

-----------------------------------------------------------------------------
(* OwedHeld is kept by every step.                                         *)
LEMMA ClientsKnown ==
  ASSUME TypeOK, AdapterStep, NEW s \in Sessions
  PROVE  client'[s] = "new" <=> client[s] = "new"
<1>1. client \in [Sessions -> ClientState]
  BY DEF TypeOK
<1>2. CASE UNCHANGED client
  BY <1>2
<1>3. ASSUME NEW t, NEW ok, client' = AfterStart(t, ok) \/ client' = AfterStop(t, ok)
      PROVE  client'[s] = "new" <=> client[s] = "new"
  BY <1>1, <1>3 DEF AfterStart, AfterStop
<1>4. CASE StartTracking \/ StopTracking \/ StartResponded \/ StopResponded
  BY <1>2, <1>3, <1>4 DEF StartTracking, StopTracking, StartResponded, StopResponded, clientVars
<1>5. CASE Wait \/ StartWithoutCallbacks \/ UpdateUnknown \/ UpdateTracking \/ SwitchToDistance
           \/ StopClientSessions \/ EngineUp \/ Reconfigure \/ UpdateResponded
  BY <1>2, <1>5 DEF Wait, StartWithoutCallbacks, UpdateUnknown, UpdateTracking, SwitchToDistance,
                    StopClientSessions, EngineUp, Reconfigure, UpdateResponded, clientVars
<1> QED
  BY <1>4, <1>5 DEF AdapterStep

(* The messages that waited for the engine are in the queue now.           *)
LEMMA OwedSent ==
  ASSUME TypeOK, EngineUp, NEW s \in Sessions, OwedHeld(s)
  PROVE  OwedHeld(s)'
<1>0. PICK z : z = Refused(s)
  OBVIOUS
<1>1. PICK a, p, b : OwedIs(s, a, p, b)
  BY DEF OwedHeld
<1>2. /\ queue # <<>> /\ UNCHANGED <<clients, owed, client, world>>
      /\ PostCalls(RestartFix) /\ Weight(Head(queue), Awaited(s)) = 0
  BY HeadAwaited DEF EngineUp, Receives, clientVars
<1>3. /\ queue \in Seq(Message) /\ api \in Seq(ApiCall) /\ pending \in Seq(Message) /\ owed[s] >= 0
      /\ pending' \in Seq(Command \union {Freed}) /\ \A i \in 1..Len(pending') : pending'[i] = Freed
      /\ queue' = Tail(queue) \o pending
      /\ a \in Nat /\ p \in Nat /\ b \in Nat /\ z \in {0, 1}
      /\ s \in clients => owed[s] = a + p + b + z
  BY <1>0, <1>1, OwedTypes, RefusedType, PendingSent DEF TypeOK, OwedHeld, OwedIs, EngineUp
<1>4. Tail(queue) \in Seq(Message) /\ Tally(Tail(queue), Awaited(s), a)
  <2>1. Tally(Tail(queue), Awaited(s), a - 0)
    BY <1>1, <1>2, <1>3, TallyTail DEF OwedIs
  <2>2. a - 0 = a
    BY <1>3
  <2> QED
    BY <1>2, <1>3, <2>1, <2>2, TailElements
<1>5. Tally(queue', Awaited(s), a + p)
  BY <1>1, <1>3, <1>4, TallyConcat DEF OwedIs
<1>6. Tally(pending', Awaited(s), 0)
  <2>1. Freed \notin Awaited(s)
    BY DEF Freed, Awaited, Is, Answerable
  <2> QED
    BY <1>3, <2>1, TallyNone
<1>7. Tally(api', Asked(s), b)
  BY <1>1, <1>2, <1>3, TallyRestart DEF PostCalls, OwedIs
<1>8. Awaited(s)' = Awaited(s) /\ Refused(s)' = z
  BY <1>0, <1>2, AwaitedKept, RefusedKept
<1>9. s \in clients' => owed'[s] = (a + p) + 0 + b + z
  BY <1>2, <1>3
<1>10. OwedIs(s, a + p, 0, b)'
  BY <1>5, <1>6, <1>7, <1>8, <1>9 DEF OwedIs
<1> QED
  BY <1>2, <1>3, <1>10 DEF OwedHeld

LEMMA OwedKeptByAdapter ==
  ASSUME TypeOK, AdapterStep, NEW s \in Sessions, OwedHeld(s)
  PROVE  OwedHeld(s)'
<1>1. CASE Wait
  BY <1>1, OwedWaits
<1>2. CASE EngineUp
  BY <1>2, OwedSent
<1>3. CASE ~Wait /\ ~EngineUp
  <2>1. queue # <<>> /\ queue' = Tail(queue) /\ UNCHANGED <<pending, world>>
    BY <1>3, AdapterTakes
  <2>2. clients' \subseteq clients /\ \E d \in {0, 1} : Grows(s, d) /\ Takes(s, d)
    BY <1>3, AdapterCounts
  <2>3. Refused(s)' = Refused(s)
    BY <2>1, ClientsKnown, RefusedKept
  <2> QED
    BY <2>1, <2>2, <2>3, OwedTaken
<1> QED
  BY <1>1, <1>2, <1>3

(* A call that returns becomes the answer it owed.                         *)
LEMMA OwedKeptByApi ==
  ASSUME TypeOK, ApiStep, NEW s \in Sessions, OwedHeld(s)
  PROVE  OwedHeld(s)'
<1>0. PICK z : z = Refused(s)
  OBVIOUS
<1>1. PICK a, p, b : OwedIs(s, a, p, b)
  BY DEF OwedHeld
<1>2. /\ api # <<>> /\ api' = Tail(api) /\ UNCHANGED <<clients, owed, pending, client, world>>
      /\ queue \in Seq(Message) /\ api \in Seq(ApiCall) /\ owed[s] >= 0
  BY ApiTakes DEF adapterVars, clientVars, TypeOK, OwedHeld
<1> PICK c, w : c = Head(api) /\ w = Weight(c, Asked(s))
  OBVIOUS
<1>3. /\ Tally(api', Asked(s), b - w) /\ b \in Nat /\ b - w \in Nat /\ a \in Nat /\ p \in Nat
      /\ z \in {0, 1} /\ w \in {0, 1} /\ c \in ApiCall
      /\ s \in clients => owed[s] = a + p + b + z
  <2>1. /\ Tally(api, Asked(s), b) /\ a \in Nat /\ p \in Nat /\ b \in Nat /\ z \in {0, 1}
        /\ s \in clients => owed[s] = a + p + b + z
    BY <1>0, <1>1, OwedTypes, RefusedType DEF OwedIs
  <2>2. Tally(Tail(api), Asked(s), b - w) /\ b - w \in Nat
    BY <1>2, <2>1, TallyTail
  <2>3. w \in {0, 1} /\ c \in ApiCall
    BY <1>2, WeightType
  <2> QED
    BY <1>2, <2>1, <2>2, <2>3
<1>4. ASSUME NEW m \in Message, queue' = Append(queue, m), Weight(m, Awaited(s)) = w
      PROVE  Tally(queue', Awaited(s), a + w)
  BY <1>1, <1>2, <1>4, TallyAppend DEF OwedIs
<1>5. Tally(queue', Awaited(s), a + w)
  <2>1. CASE UNCHANGED queue /\ ~Runs("open")
    <3>1. w = 0
      <4>1. CASE Runs("startFix") \/ Runs("stopFix")
        <5>1. c.call \in {"startFix", "stopFix"} /\ c.then \in Response
          BY <4>1, CallParts DEF Runs
        <5>2. Len(queue') = Len(queue)
          BY <2>1
        <5>3. c.then = Nobody
          <6> SUFFICES ASSUME c.then # Nobody
                       PROVE  FALSE
            OBVIOUS
          <6>1. \E ok \in BOOLEAN : queue' = Append(queue, [kind |-> "response", to |-> c.then, ok |-> ok])
            BY <4>1 DEF ApiStep, StartTimeBasedTracking, StopTimeBasedTracking, Configure, Open, Runs,
                        ReturnToSender
          <6>2. \A ok \in BOOLEAN : [kind |-> "response", to |-> c.then, ok |-> ok] \in Message
            BY <5>1 DEF Message
          <6>3. \A m \in Message : Len(Append(queue, m)) = Len(queue) + 1 /\ Len(queue) \in Nat
            BY <1>2, AppendElements
          <6> QED
            BY <5>2, <6>1, <6>2, <6>3
        <5> QED
          BY <5>3 DEF Weight, Asked, Nobody
      <4>2. CASE ~Runs("startFix") /\ ~Runs("stopFix")
        BY <1>2, <4>2 DEF Weight, Asked, Runs
      <4> QED
        BY <4>1, <4>2
    <3> QED
      BY <1>1, <1>3, <2>1, <3>1 DEF OwedIs
  <2>2. ASSUME NEW ok \in BOOLEAN, c.call \in {"startFix", "stopFix"}, c.then # Nobody, c.then \in Response,
               queue' = Append(queue, [kind |-> "response", to |-> c.then, ok |-> ok])
        PROVE  Tally(queue', Awaited(s), a + w)
    <3> DEFINE m == [kind |-> "response", to |-> c.then, ok |-> ok]
    <3>1. m \in Message /\ m.kind = "response" /\ m.to = c.then
      BY <2>2 DEF Message
    <3>2. c.then.of # "nobody"
      BY <2>2 DEF Response, Nobody
    <3> HIDE DEF m
    <3>3. m \in Awaited(s) <=> c \in Asked(s)
      BY <1>3, <2>2, <3>1, <3>2 DEF Awaited, Asked, Is, Answerable
    <3>4. Weight(m, Awaited(s)) = w
      BY <3>3 DEF Weight
    <3> QED
      BY <1>4, <2>2, <3>1, <3>4 DEF m
  <2>3. CASE c.call = "open" /\ queue' = Append(queue, [kind |-> "engineUp"])
    <3> DEFINE m == [kind |-> "engineUp"]
    <3>1. m \in Message /\ m.kind = "engineUp"
      BY DEF Message
    <3> HIDE DEF m
    <3>2. Weight(m, Awaited(s)) = w
      BY <2>3, <3>1 DEF Weight, Awaited, Asked, Is, Answerable
    <3> QED
      BY <1>4, <2>3, <3>1, <3>2 DEF m
  <2> QED
    BY <2>1, <2>2, <2>3, ApiTakes
<1>6. s \in clients' => owed'[s] = (a + w) + p + (b - w) + z
  BY <1>2, <1>3
<1>7. owed'[s] >= 0
  BY <1>2
<1>8. Awaited(s)' = Awaited(s) /\ Refused(s)' = z
  BY <1>0, <1>2, AwaitedKept, RefusedKept
<1>9. OwedIs(s, a + w, p, b - w)'
  BY <1>1, <1>2, <1>3, <1>5, <1>6, <1>8 DEF OwedIs
<1> QED
  BY <1>7, <1>9 DEF OwedHeld

LEMMA OwedKeptByEngine ==
  ASSUME TypeOK, EngineDown, NEW s \in Sessions, OwedHeld(s)
  PROVE  OwedHeld(s)'
<1> DEFINE c == [call |-> "open"]
<1>1. /\ UNCHANGED <<clients, owed, queue, pending, client, world>> /\ api' = Append(api, c)
      /\ c \in ApiCall /\ c.call = "open" /\ api \in Seq(ApiCall)
  BY DEF EngineDown, adapterVars, clientVars, ApiCall, TypeOK
<1> HIDE DEF c
<1>2. PICK a, p, b : OwedIs(s, a, p, b)
  BY DEF OwedHeld
<1>3. Weight(c, Asked(s)) = 0
  BY <1>1 DEF Weight, Asked
<1>4. Tally(api', Asked(s), b + 0) /\ b \in Nat
  BY <1>1, <1>2, <1>3, TallyAppend DEF OwedIs
<1>5. b + 0 = b
  BY <1>4
<1>6. Awaited(s)' = Awaited(s) /\ Refused(s)' = Refused(s)
  BY <1>1, AwaitedKept, RefusedKept
<1>7. OwedIs(s, a, p, b)'
  BY <1>1, <1>2, <1>4, <1>5, <1>6 DEF OwedIs
<1> QED
  BY <1>1, <1>7 DEF OwedHeld

LEMMA OwedKeptByClient ==
  ASSUME TypeOK, ClientStep, NEW s \in Sessions, OwedHeld(s)
  PROVE  OwedHeld(s)'
<1>1. PICK m \in Message : queue' = Append(queue, m) /\ m.kind \notin {"response", "engineUp"} /\ Sends(m, s)
  BY ClientEffects
<1>2. /\ UNCHANGED <<clients, pending, api, world>> /\ queue \in Seq(Message)
      /\ owed \in [Sessions -> Int] /\ owed[s] >= 0
  BY ClientSends DEF adapterVars, TypeOK, OwedHeld
<1>3. PICK a, p, b : OwedIs(s, a, p, b)
  BY DEF OwedHeld
<1>4. PICK w, z, y : w = Weight(m, Awaited(s)) /\ z = Refused(s) /\ y = Refused(s)'
  OBVIOUS
<1>5. /\ Tally(queue', Awaited(s), a + w) /\ a \in Nat /\ p \in Nat /\ b \in Nat
      /\ w \in {0, 1} /\ z \in {0, 1} /\ y \in {0, 1}
      /\ s \in clients => owed[s] = a + p + b + z
  <2>1. y \in {0, 1}
    BY <1>4 DEF Refused
  <2> QED
    BY <1>1, <1>2, <1>3, <1>4, <2>1, TallyAppend, OwedTypes, RefusedType, WeightType DEF OwedIs
<1>6. owed'[s] = owed[s] + w + (y - z) /\ y >= z
  <2> DEFINE Same == client'[s] = "new" <=> client[s] = "new"
  <2>0. Same => y = z
    BY <1>2, <1>4 DEF Refused, StartUnanswered
  <2>1. CASE /\ client'[s] = client[s] /\ owed'[s] = owed[s]
             /\ ~Is(m, {"start", "update", "stop", "remove"}, s)
    <3>1. w = 0
      BY <1>1, <1>4, <2>1 DEF Weight, Awaited, Answerable, Is
    <3> QED
      BY <1>2, <1>5, <2>0, <2>1, <3>1
  <2>2. CASE Same /\ Is(m, {"remove"}, s) /\ owed'[s] = owed[s]
    <3>1. w = 0
      BY <1>4, <2>2 DEF Weight, Awaited, Answerable, Is
    <3> QED
      BY <1>2, <1>5, <2>0, <2>2, <3>1
  <2>3. CASE Same /\ (Is(m, {"update"}, s) \/ Is(m, {"stop"}, s)) /\ owed'[s] = owed[s] + 1
    <3>1. w = 1
      BY <1>4, <2>3 DEF Weight, Awaited, Answerable, Is
    <3> QED
      BY <1>2, <1>5, <2>0, <2>3, <3>1
  <2>4. CASE client[s] = "new" /\ client'[s] = "starting" /\ Is(m, {"start"}, s) /\ owed'[s] = owed[s] + 1
    <3>1. world = "mute" => w = 0 /\ z = 0 /\ y = 1
      BY <1>2, <1>4, <2>4 DEF Weight, Awaited, Answerable, Is, Refused, StartUnanswered
    <3>2. world # "mute" => w = 1 /\ z = 0 /\ y = 0
      BY <1>2, <1>4, <2>4 DEF Weight, Awaited, Answerable, Is, Refused, StartUnanswered
    <3> QED
      BY <1>2, <2>4, <3>1, <3>2
  <2> QED
    BY <1>1, <2>1, <2>2, <2>3, <2>4 DEF Sends
<1>7. owed'[s] >= 0 /\ (s \in clients' => owed'[s] = (a + w) + p + b + y)
  BY <1>2, <1>5, <1>6
<1>8. Awaited(s)' = Awaited(s)
  BY <1>2, AwaitedKept
<1>9. OwedIs(s, a + w, p, b)'
  BY <1>2, <1>3, <1>4, <1>5, <1>7, <1>8 DEF OwedIs
<1> QED
  BY <1>7, <1>9 DEF OwedHeld

LEMMA OwedInit == Init => OwedFollows
<1> SUFFICES ASSUME Init, NEW s \in Sessions
             PROVE  OwedHeld(s)
  BY DEF OwedFollows
<1> DEFINE c == [call |-> "open"]
<1>1. queue = <<>> /\ pending = <<>> /\ api = <<c>> /\ owed[s] = 0 /\ client[s] = "new" /\ c \in ApiCall /\ c.call = "open"
  BY DEF Init, ApiCall
<1> HIDE DEF c
<1>2. <<>> \in Seq(ApiCall) /\ Append(<<>>, c) = <<c>>
  BY <1>1
<1>3. Tally(Append(<<>>, c), Asked(s), 0 + Weight(c, Asked(s))) /\ Tally(queue, Awaited(s), 0)
      /\ Tally(pending, Awaited(s), 0)
  BY <1>1, <1>2, TallyNothing, TallyAppend
<1>4. Weight(c, Asked(s)) = 0
  BY <1>1 DEF Weight, Asked
<1>5. Tally(api, Asked(s), 0)
  BY <1>1, <1>2, <1>3, <1>4
<1>6. owed[s] >= 0 /\ owed[s] = 0 + 0 + 0 + Refused(s)
  BY <1>1 DEF Refused, StartUnanswered
<1>7. OwedIs(s, 0, 0, 0)
  BY <1>3, <1>5, <1>6 DEF OwedIs
<1> QED
  BY <1>6, <1>7 DEF OwedHeld

LEMMA OwedStep ==
  TypeOK /\ OwedFollows /\ [Next]_vars => OwedFollows'
<1> SUFFICES ASSUME TypeOK, OwedFollows, [Next]_vars, NEW s \in Sessions
             PROVE  OwedHeld(s)'
  BY DEF OwedFollows
<1>1. OwedHeld(s)
  BY DEF OwedFollows
<1>2. CASE UNCHANGED vars
  BY <1>1, <1>2 DEF OwedHeld, OwedIs, Awaited, Answerable, Refused, StartUnanswered, vars, adapterVars, clientVars
<1> QED
  BY <1>1, <1>2, OwedKeptByAdapter, OwedKeptByApi, OwedKeptByEngine, OwedKeptByClient DEF Next

(* Only a client that was removed is unregistered.                         *)
LEMMA RemovalsInit == Init => RemovalsFollow
<1> SUFFICES ASSUME Init, NEW s \in Sessions
             PROVE  RemovalHeld(s)
  BY DEF RemovalsFollow
<1> QED
  BY AmongNothing DEF Init, RemovalHeld, Sent

LEMMA RemovalsStep ==
  TypeOK /\ WorldRules /\ PendingRule /\ RemovalsFollow /\ [Next]_vars => RemovalsFollow'
<1> SUFFICES ASSUME TypeOK, WorldRules, PendingRule, RemovalsFollow, [Next]_vars, NEW s \in Sessions
             PROVE  RemovalHeld(s)'
  BY DEF RemovalsFollow
<1>0. RemovalHeld(s)
  BY DEF RemovalsFollow
<1>1. CASE UNCHANGED vars
  BY <1>0, <1>1 DEF RemovalHeld, Sent, vars, adapterVars, clientVars
<1>2. CASE AdapterStep
  <2>1. Sent(s, {"remove"})' => Sent(s, {"remove"})
    BY <1>2, SentByAdapter DEF Sent, Is
  <2>2. s \notin clients' => s \notin clients \/ Sent(s, {"remove"})
    <3>1. UNCHANGED clients \/ StopClientSessions
      BY <1>2 DEF AdapterStep, Wait, StartWithoutCallbacks, StartTracking, UpdateUnknown, UpdateTracking,
         SwitchToDistance, StopTracking, EngineUp, Reconfigure,
         StartResponded, UpdateResponded, StopResponded, adapterVars
    <3>2. CASE StopClientSessions
      <4>1. queue # <<>> /\ Head(queue).kind = "remove" /\ clients' = clients \ {Head(queue).key}
        BY <3>2 DEF StopClientSessions, Receives
      <4>2. s \in clients /\ s \notin clients' => Is(Head(queue), {"remove"}, s)
        BY <4>1 DEF Is
      <4> QED
        BY <4>1, <4>2, HeadIsSent
    <3> QED
      BY <3>1, <3>2
  <2>3. client[s] = "removed" => client'[s] = "removed"
    <3>1. \/ UNCHANGED client
          \/ \E t \in Sessions, ok \in BOOLEAN : client' = AfterStart(t, ok) \/ client' = AfterStop(t, ok)
      <4>1. CASE Wait \/ StartWithoutCallbacks \/ UpdateUnknown \/ UpdateTracking \/ SwitchToDistance
                 \/ StopClientSessions \/ EngineUp \/ Reconfigure \/ UpdateResponded
        BY <4>1 DEF Wait, StartWithoutCallbacks, UpdateUnknown, UpdateTracking, SwitchToDistance,
                    StopClientSessions, EngineUp, Reconfigure, UpdateResponded, clientVars
      <4>2. CASE StartTracking
        BY <4>2, HeadParts DEF StartTracking, clientVars
      <4>3. CASE StopTracking
        BY <4>3, HeadParts DEF StopTracking, clientVars
      <4>4. CASE StartResponded \/ StopResponded
        BY <4>4, HeadParts DEF StartResponded, StopResponded
      <4> QED
        BY <1>2, <4>1, <4>2, <4>3, <4>4 DEF AdapterStep
    <3>2. client \in [Sessions -> ClientState]
      BY DEF TypeOK
    <3> QED
      BY <3>1, <3>2 DEF AfterStart, AfterStop
  <2> QED
    BY <1>0, <2>1, <2>2, <2>3 DEF RemovalHeld
<1>3. CASE ApiStep \/ EngineDown
  BY <1>0, <1>3, ApiEffects DEF RemovalHeld
<1>4. CASE ClientStep
  <2>1. PICK m \in Message : queue' = Append(queue, m) /\ m.kind \notin {"response", "engineUp"} /\ Sends(m, s)
    BY <1>4, ClientEffects
  <2>2. UNCHANGED clients
    BY <1>4, ClientSends DEF adapterVars
  <2>3. Sent(s, {"remove"})' <=> Sent(s, {"remove"}) \/ Is(m, {"remove"}, s)
    BY <2>1, SentAppended
  <2> QED
    BY <1>0, <2>1, <2>2, <2>3 DEF RemovalHeld, Sends, Is
<1> QED
  BY <1>1, <1>2, <1>3, <1>4 DEF Next

-----------------------------------------------------------------------------
(* What the clients were told is what the adapter and the engine do.       *)
ClientInv == EngineInv /\ PendingRule /\ StartsFollow /\ StopsFollow /\ OwedFollows /\ RemovalsFollow

LEMMA ClientInvariant == Spec => []ClientInv
<1>1. Init => ClientInv
  BY TypeInit, WorldRulesInit, FixFollowsInit, PendingInit, StartsInit, StopsInit, OwedInit, RemovalsInit
  DEF ClientInv, EngineInv
<1>2. ClientInv /\ [Next]_vars => ClientInv'
  BY TypeStep, WorldRulesStep, FixFollowsStep, PendingStep, StartsStep, StopsStep, OwedStep, RemovalsStep
  DEF ClientInv, EngineInv
<1> QED
  BY <1>1, <1>2, PTL DEF Spec

LEMMA ToldOnceQuiet ==
  ASSUME ClientInv
  PROVE  ToldIsTracked
<1>1. TypeOK /\ FixServesSessions
  BY ServedOnceQuiet DEF ClientInv, EngineInv
<1>2. Quiescent => \A s, kinds : ~Sent(s, kinds)
  BY AmongNothing DEF Quiescent, Sent
<1>3. StartedIsTracked
  <2> SUFFICES ASSUME world # "flaky", Quiescent, NEW s \in Sessions, client[s] = "started"
               PROVE  Tracks(s) /\ fix # Off
    BY DEF StartedIsTracked
  <2>1. Tracks(s)
    BY DEF ClientInv, StartsFollow, StartsHeld
  <2> QED
    BY <1>1, <2>1 DEF FixServesSessions, Live
<1>4. StoppedStaysStopped
  BY <1>2 DEF StoppedStaysStopped, ClientInv, StopsFollow, StopsHeld, Over
<1>5. AnsweredOnce
  <2> SUFFICES ASSUME NEW s \in Sessions
               PROVE  owed[s] >= 0 /\ (Quiescent /\ client[s] # "removed" => owed[s] = Refused(s))
    BY DEF AnsweredOnce, Refused
  <2>1. OwedHeld(s) /\ RemovalHeld(s)
    BY DEF ClientInv, OwedFollows, RemovalsFollow
  <2>2. ASSUME Quiescent, client[s] # "removed"
        PROVE  owed[s] = Refused(s)
    <3>1. s \in clients
      BY <2>1, <2>2 DEF RemovalHeld
    <3>2. PICK a, p, b : OwedIs(s, a, p, b)
      BY <2>1 DEF OwedHeld
    <3>3. a = 0 /\ b = 0
      BY <2>2, <3>2, TallyNothing DEF OwedIs, Quiescent
    <3>4. \A i \in 1..Len(pending) : pending[i] \notin Awaited(s)
      <4>1. ~Reopens
        BY <2>2, AmongNothing DEF Quiescent, Reopens
      <4>2. \A m \in Among(pending) : m = Freed
        BY <4>1 DEF ClientInv, PendingRule
      <4>3. Freed \notin Awaited(s)
        BY DEF Freed, Awaited, Is, Answerable
      <4> QED
        BY <4>2, <4>3 DEF Among
    <3>5. p = 0
      <4>1. pending \in Seq(Command \union {Freed})
        BY DEF ClientInv, EngineInv, TypeOK
      <4> QED
        BY <3>2, <3>4, <4>1, TallyNone DEF OwedIs
    <3>6. Refused(s) \in {0, 1}
      BY RefusedType
    <3> QED
      BY <3>1, <3>2, <3>3, <3>5, <3>6 DEF OwedIs
  <2> QED
    BY <2>1, <2>2 DEF OwedHeld
<1> QED
  BY <1>3, <1>4, <1>5 DEF ToldIsTracked

(* A client that was told its session started is tracked, one that was     *)
(* told it stopped is brought back by no late response, and every command  *)
(* is answered exactly once (reportResponse and the LocApiResponse of each *)
(* tracking command of GnssAdapter.cpp), those that waited for the engine  *)
(* included, but for the start of a client without the callbacks for it,   *)
(* which is owed its answer for ever; in the kinds of world that the parts *)
(* of ToldIsTracked name, until a freed message is at the head of the      *)
(* queue, where the adapter of the module stops.                           *)
THEOREM ClientsAreToldTheTruth == Spec => []ToldIsTracked
<1>1. ClientInv => ToldIsTracked
  BY ToldOnceQuiet
<1> QED
  BY <1>1, ClientInvariant, PTL

=============================================================================
