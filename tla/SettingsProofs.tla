--------------------------- MODULE SettingsProofs ---------------------------
(* The theorems of the engine's configuration (GnssConfig and Settings): once  *)
(* both queues are empty, the engine has the lock, the blacklist and the       *)
(* constellations that the adapter remembers, and the settings that were last  *)
(* set, whatever restarts and whatever commands came between; whoever opened   *)
(* the measurement corrections was told what the engine can do; and no request *)
(* is answered twice.                                                          *)
(*                                                                            *)
(* The inductive invariant IInv says of each of them that it comes: either the *)
(* engine is about to reopen or its coming up is still to be handled, and then *)
(* all is sent again; or the calls that wait for the LocApi's thread end with  *)
(* the right one, the last on that topic being decisive (Ends, EndsWith); or,  *)
(* for a setting, a call waits that will look at it (Will).                    *)
(*                                                                            *)
(* The actions are first sorted into seven kinds of step (StepKinds): a       *)
(* message is handled, a caller's message arrives, the LocApi's thread runs a  *)
(* call, the engine opens, goes down, is configured, is restored.  Each        *)
(* conjunct is then shown kind by kind.  For the answers AskInv adds, for each *)
(* request, that one message or one call carries it, while it is open.         *)
(*                                                                            *)
(* All is claimed once both queues are empty, which they never are again once  *)
(* the adapter comes to a message that was freed: no action takes it.          *)
EXTENDS Settings, Integers, TLAPS

----------------------------------------------------------------------------
(* What the two queues hold.                                                  *)

Value == Values \cup {"file", Unset}

PlainKinds ==
  {"resetSvTypes", "engineUp", "corrections", "antenna", "time", "power", "svIds", "freed"}

SetRequest == [kind: {"set"}, setting: Kept, value: Values]
Request ==
  SetRequest
  \cup [kind: {"leverArm", "dreParams"}]
  \cup [kind: {"runState"}, dre: BOOLEAN]
  \cup [kind: {"delete"}, spe: BOOLEAN]
  \cup [kind: {"unserved"}, what: {"robust", "band", "getBand"}]
  \cup [kind: {"get"}, flag: GetFlags]

AskKinds == {"leverArm", "dreParams", "runState", "delete", "unserved", "get"}

Message ==
  [kind: PlainKinds]
  \cup [kind: {"update"}, lock: Maybe(Lock), svs: Maybe(SUBSET Satellites)]
  \cup [kind: {"svTypes"}, types: SvTypes]
  \cup [kind: {"svConfig"}, types: Maybe(SvTypes), svs: SUBSET Satellites]
  \cup [kind: {"enable", "disable"}, id: Nat \ {0}]
  \cup [kind: {"nfw"}, allow: BOOLEAN]
  \cup [kind: {"set"}, ask: SetRequest, id: Nat \ {0}]
  \cup [kind: AskKinds, ask: Request, id: Nat \ {0}]
  \cup [kind: {"response"}, id: Nat \ {0}]
  \cup [kind: {"measCorr"}, mask: {"all", "none"}]
  \cup [kind: {"location"}, near: BOOLEAN]
  \cup [kind: {"block"}, till: Nat]

Call ==
  [call: {"open", "resetConstellations", "getBlacklist", "inject"}]
  \cup [call: {"setLock"}, lock: Lock]
  \cup [call: {"setBlacklist"}, svs: SUBSET Satellites]
  \cup [call: {"setConstellations"}, types: SvTypes]
  \cup [call: {"update", "fill"}, lock: Maybe(Lock), svs: Maybe(SUBSET Satellites),
        after: {<<>>, Check("tunc")}]
  \cup [call: {"check", "default"}, setting: Kept]
  \cup [call: {"send"}, setting: Kept, value: Values \cup {"file"}]
  \cup [call: {"set"}, setting: Kept, value: Values \cup {"file"}, id: Nat]
  \cup [call: {"delete"}, id: Nat]

Corr == [open: BOOLEAN, looking: BOOLEAN, told: SUBSET {"all", "none", "refused"}]

AdapterTyped ==
  /\ known \in BOOLEAN /\ nfw \in BOOLEAN /\ restoring \in BOOLEAN
  /\ gpsLock \in Lock /\ afw \in Nat
  /\ ids \in SUBSET Satellites /\ svIds \in SUBSET Satellites /\ types \in Maybe(SvTypes)
MailTyped ==
  queue \in Seq(Message) /\ api \in Seq(Call) /\ pending \in Seq(Message)
WorldTyped ==
  /\ engine \in [up: BOOLEAN, lock: Lock, blacklist: SUBSET Satellites,
                 enabled: SUBSET Constellations]
  /\ enables \in Nat /\ world \in Worlds
SettingsTyped ==
  /\ stored \in [Kept -> Value] /\ has \in [Kept -> Value]
  /\ asked \in [Kept -> Values \cup {Unset}] /\ raced \in SUBSET Kept
AsksTyped ==
  /\ asks \in Seq(Request) /\ answers \in [1..MaxAsks -> 0..2]
  /\ lastDelete \in Nat /\ second \in Nat
OwnTyped == corr \in Corr /\ antenna \in BOOLEAN /\ blocked \in Nat

TypeOK == AdapterTyped /\ MailTyped /\ WorldTyped /\ SettingsTyped /\ AsksTyped /\ OwnTyped

----------------------------------------------------------------------------
(* The mail suits the world it is in.                                         *)

WaitingKinds == {"update", "svTypes", "resetSvTypes", "get", "freed"}

Suits(m) ==
  /\ m.kind = "update" /\ m.lock # <<>> => world.framework = "P"
  /\ m.kind = "nfw" => world.framework = "Q"
  /\ m.kind = "svConfig" => world.integration
  /\ m.kind = "measCorr" => m.mask = MeasCorrCapabilities

Reopens == \E i \in DOMAIN api : api[i].call = "open"
IsUp    == \E i \in DOMAIN queue : queue[i].kind = "engineUp"
ComesUp == \E i \in DOMAIN queue : queue[i].kind = "engineUp" /\ (restoring => i # 1)

MailSuits ==
  /\ \A i \in DOMAIN queue : Suits(queue[i])
  /\ \A i \in DOMAIN pending : Suits(pending[i]) /\ pending[i].kind \in WaitingKinds
  /\ restoring => queue # <<>> /\ Head(queue).kind = "engineUp"
  /\ world.framework = "Q" => nfw
  /\ ~engine.up => Reopens
CallsSuit ==
  \A i \in DOMAIN api :
    /\ api[i].call \in {"default", "send", "fill"} => i = 1
    /\ api[i].call = "fill" => world.supported /\ api[i].svs # <<>>

(* The last call on a topic decides it: what the engine is left with once the *)
(* calls s have run, if it has base now, is one of V.                         *)
Sets(c, t) ==
  \/ t = "lock" /\ (c.call = "setLock" \/ (c.call = "update" /\ c.lock # <<>>))
  \/ t = "blacklist" /\ c.call = "setBlacklist"
  \/ c.call = "set" /\ c.setting = t
To(c, t) == CASE c.call = "setLock" -> c.lock
              [] c.call = "update" -> c.lock[1]
              [] c.call = "setBlacklist" -> c.svs
              [] OTHER -> c.value

Quiet(s, t) == \A i \in DOMAIN s : ~Sets(s[i], t)
Brings(s, t, V) ==
  \E i \in DOMAIN s : /\ Sets(s[i], t) /\ To(s[i], t) \in V
                      /\ \A j \in DOMAIN s : j > i => ~Sets(s[j], t)
Ends(s, t, base, V) == (base \in V /\ Quiet(s, t)) \/ Brings(s, t, V)

(* The constellation c is enabled once the calls s have run.                  *)
Adds(c, x) == c.call = "setConstellations" /\ x \in c.types.enabled
Clears(c) == c.call \in {"resetConstellations", "open"}
EndsWith(s, base, x) ==
  \/ x \in base /\ \A i \in DOMAIN s : ~Clears(s[i])
  \/ \E i \in DOMAIN s : Adds(s[i], x) /\ \A j \in DOMAIN s : j > i => ~Clears(s[j])

Allowed(setting) == Satellites \ (IF setting = <<>> THEN {} ELSE DisabledBy(setting[1]))
Blacklists(own, setting) ==
  {B \in SUBSET Satellites : B \cap Allowed(setting) = own \cap Allowed(setting)}

LockComes == Reopens \/ ComesUp \/ Ends(api, "lock", engine.lock, {ExpectedLock})
BlacklistComes ==
  ~world.supported => Reopens \/ IsUp \/ Ends(api, "blacklist", engine.blacklist, Blacklists(ids, types))
ConstellationsCome ==
  ~world.integration =>
    /\ \A i \in DOMAIN api : api[i].call = "setConstellations" => api[i].types.blacklisted = {}
    /\ \A x \in Constellations : EndsWith(api, engine.enabled, x) => x \in Enabled(types)
    /\ Reopens \/ IsUp \/ \A x \in Enabled(types) : EndsWith(api, engine.enabled, x)

(* What the engine is to have of a setting, and the calls that will see to it. *)
Due(v) == IF v = Unset THEN "file" ELSE v
Checks(c, s) ==
  \/ c.call \in {"update", "fill"} /\ c.after # <<>>
  \/ c.call = "check" /\ c.setting \in {"tunc", s}
  \/ c.call \in {"default", "send"} /\ c.setting \in {"tunc", s}
Will(s) == \E i \in DOMAIN api : Checks(api[i], s)
ValueComes(s) ==
  /\ stored[s] \in {asked[s], Due(asked[s])}
  /\ \A i \in DOMAIN api :
       /\ api[i].call = "default" /\ api[i].setting = s => asked[s] = Unset
       /\ api[i].call = "send" /\ api[i].setting = s => api[i].value = Due(asked[s])
  /\ Reopens \/ ComesUp \/ Will(s) \/ Ends(api, s, has[s], {Due(asked[s])})
ValuesCome == world.settings # {} => \A s \in Kept \ raced : ValueComes(s)

CorrComes ==
  /\ world.supported => corr.told \subseteq {"all"}
  /\ corr.open /\ ~corr.looking /\ corr.told = {} =>
       ~known \/ \E i \in DOMAIN queue : queue[i].kind = "measCorr"

IInv ==
  /\ TypeOK /\ MailSuits /\ CallsSuit /\ LockComes /\ BlacklistComes
  /\ ConstellationsCome /\ ValuesCome /\ CorrComes

----------------------------------------------------------------------------
(* Sequences: the elements of Append(s, m), Tail(s) and s \o t.               *)

LEMMA TailElements ==
  ASSUME NEW S, NEW s \in Seq(S), s # <<>>
  PROVE  /\ Tail(s) \in Seq(S) /\ Head(s) = s[1] /\ s[1] \in S /\ 1 \in DOMAIN s
         /\ \A i \in DOMAIN Tail(s) : /\ i \in Nat /\ i > 0
                                      /\ i + 1 \in DOMAIN s /\ Tail(s)[i] = s[i + 1]
         /\ \A i \in DOMAIN s : /\ i \in Nat /\ i > 0
                                /\ i # 1 => i - 1 \in DOMAIN Tail(s) /\ Tail(s)[i - 1] = s[i]
  OBVIOUS

LEMMA ConcatElements ==
  ASSUME NEW S, NEW s \in Seq(S), NEW t \in Seq(S)
  PROVE  /\ s \o t \in Seq(S)
         /\ \A i \in DOMAIN s : i \in DOMAIN (s \o t) /\ (s \o t)[i] = s[i] /\ i \in Nat /\ i <= Len(s)
         /\ \A i \in DOMAIN t : /\ Len(s) + i \in DOMAIN (s \o t) /\ (s \o t)[Len(s) + i] = t[i]
                                /\ i \in Nat /\ i > 0
         /\ \A i \in DOMAIN (s \o t) : /\ i \in Nat
                                       /\ i \notin DOMAIN s => i - Len(s) \in DOMAIN t /\ i > Len(s)
         /\ Len(s) \in Nat
  OBVIOUS

LEMMA ConcatCases ==
  ASSUME NEW S, NEW s \in Seq(S), NEW t \in Seq(S), NEW i \in DOMAIN (s \o t)
  PROVE  \/ i \in DOMAIN s /\ (s \o t)[i] = s[i]
         \/ /\ i - Len(s) \in DOMAIN t /\ (s \o t)[i] = t[i - Len(s)]
            /\ i > Len(s) /\ i \in Nat /\ Len(s) \in Nat
<1>1. CASE i \in DOMAIN s
  BY <1>1, ConcatElements
<1>2. CASE i \notin DOMAIN s
  <2>1. i - Len(s) \in DOMAIN t /\ i > Len(s) /\ i \in Nat /\ Len(s) \in Nat
    BY <1>2, ConcatElements
  <2>2. (s \o t)[Len(s) + (i - Len(s))] = t[i - Len(s)]
    BY <2>1, ConcatElements
  <2>3. Len(s) + (i - Len(s)) = i
    BY <2>1
  <2> QED
    BY <2>1, <2>2, <2>3
<1> QED
  BY <1>1, <1>2

LEMMA ElementTyped ==
  ASSUME NEW S, NEW s \in Seq(S), NEW i \in DOMAIN s
  PROVE  s[i] \in S /\ i \in Nat /\ i > 0
  OBVIOUS

LEMMA ConcatNothing ==
  ASSUME NEW S, NEW s \in Seq(S)
  PROVE  s \o <<>> = s /\ <<>> \o s = s /\ <<>> \in Seq(S)
  OBVIOUS

LEMMA ConcatOne ==
  ASSUME NEW S, NEW s \in Seq(S), NEW m \in S
  PROVE  s \o <<m>> = Append(s, m) /\ <<m>> \in Seq(S)
  OBVIOUS

LEMMA ReplaceHead ==
  ASSUME NEW S, NEW s \in Seq(S), s # <<>>, NEW x \in S
  PROVE  [s EXCEPT ![1] = x] = <<x>> \o Tail(s)
<1>1. [s EXCEPT ![1] = x] \in Seq(S) /\ Len([s EXCEPT ![1] = x]) = Len(s)
  OBVIOUS
<1>2. <<x>> \o Tail(s) \in Seq(S) /\ Len(<<x>> \o Tail(s)) = Len(s)
  OBVIOUS
<1>3. ASSUME NEW i \in 1..Len(s)
      PROVE  [s EXCEPT ![1] = x][i] = (<<x>> \o Tail(s))[i]
  OBVIOUS
<1> QED
  BY <1>1, <1>2, <1>3

----------------------------------------------------------------------------
(* What the last call on a topic decides, as calls come and go.               *)

LEMMA QuietConcat ==
  ASSUME NEW s \in Seq(Call), NEW L \in Seq(Call), NEW t, Quiet(s, t), Quiet(L, t)
  PROVE  Quiet(s \o L, t)
  BY ConcatCases DEF Quiet

LEMMA BringsLast ==
  ASSUME NEW s \in Seq(Call), NEW L \in Seq(Call), NEW t, NEW V, Brings(L, t, V)
  PROVE  Brings(s \o L, t, V)
<1>1. PICK i \in DOMAIN L : /\ Sets(L[i], t) /\ To(L[i], t) \in V
                            /\ \A j \in DOMAIN L : j > i => ~Sets(L[j], t)
  BY DEF Brings
<1>2. Len(s) + i \in DOMAIN (s \o L) /\ (s \o L)[Len(s) + i] = L[i] /\ i \in Nat /\ Len(s) \in Nat /\ i > 0
  BY ConcatElements
<1>3. ASSUME NEW j \in DOMAIN (s \o L), j > Len(s) + i
      PROVE  ~Sets((s \o L)[j], t)
  <2>1. \/ j \in DOMAIN s /\ (s \o L)[j] = s[j]
        \/ j - Len(s) \in DOMAIN L /\ (s \o L)[j] = L[j - Len(s)] /\ j > Len(s) /\ j \in Nat
    BY ConcatCases
  <2>2. j \notin DOMAIN s
    BY <1>2, <1>3
  <2>3. j - Len(s) > i
    BY <1>2, <1>3, <2>1, <2>2
  <2> QED
    BY <1>1, <2>1, <2>2, <2>3
<1> QED
  BY <1>1, <1>2, <1>3 DEF Brings

LEMMA BringsFirst ==
  ASSUME NEW s \in Seq(Call), NEW L \in Seq(Call), NEW t, NEW V, Brings(s, t, V), Quiet(L, t)
  PROVE  Brings(s \o L, t, V)
<1>1. PICK i \in DOMAIN s : /\ Sets(s[i], t) /\ To(s[i], t) \in V
                            /\ \A j \in DOMAIN s : j > i => ~Sets(s[j], t)
  BY DEF Brings
<1>2. i \in DOMAIN (s \o L) /\ (s \o L)[i] = s[i]
  BY ConcatElements
<1>3. ASSUME NEW j \in DOMAIN (s \o L), j > i
      PROVE  ~Sets((s \o L)[j], t)
  <2>1. \/ j \in DOMAIN s /\ (s \o L)[j] = s[j]
        \/ j - Len(s) \in DOMAIN L /\ (s \o L)[j] = L[j - Len(s)]
    BY ConcatCases
  <2> QED
    BY <1>1, <1>3, <2>1 DEF Quiet
<1> QED
  BY <1>1, <1>2, <1>3 DEF Brings

LEMMA EndsFirst ==
  ASSUME NEW s \in Seq(Call), NEW L \in Seq(Call), NEW t, NEW base, NEW V,
         Ends(s, t, base, V), Quiet(L, t)
  PROVE  Ends(s \o L, t, base, V)
  BY QuietConcat, BringsFirst DEF Ends

LEMMA EndsLast ==
  ASSUME NEW s \in Seq(Call), NEW L \in Seq(Call), NEW t, NEW base, NEW V,
         Brings(L, t, V)
  PROVE  Ends(s \o L, t, base, V)
  BY BringsLast DEF Ends

LEMMA EndsAfter ==
  ASSUME NEW s \in Seq(Call), NEW L \in Seq(Call), NEW t, NEW base, NEW V,
         Ends(s, t, base, V), Quiet(L, t)
  PROVE  Ends(L \o s, t, base, V)
  BY QuietConcat, BringsLast DEF Ends

LEMMA EndsTail ==
  ASSUME NEW s \in Seq(Call), s # <<>>, NEW t, NEW base, NEW V, NEW new,
         Ends(s, t, base, V),
         new = IF Sets(Head(s), t) THEN To(Head(s), t) ELSE base
  PROVE  Ends(Tail(s), t, new, V)
<1>1. /\ Head(s) = s[1] /\ 1 \in DOMAIN s
      /\ \A i \in DOMAIN Tail(s) : i \in Nat /\ i > 0 /\ i + 1 \in DOMAIN s /\ Tail(s)[i] = s[i + 1]
      /\ \A i \in DOMAIN s : i \in Nat /\ i > 0 /\ (i # 1 => i - 1 \in DOMAIN Tail(s) /\ Tail(s)[i - 1] = s[i])
  BY TailElements
<1>2. CASE base \in V /\ Quiet(s, t)
  <2>1. Quiet(Tail(s), t) /\ ~Sets(Head(s), t)
    BY <1>1, <1>2 DEF Quiet
  <2> QED
    BY <1>2, <2>1 DEF Ends
<1>3. CASE Brings(s, t, V)
  <2>1. PICK i \in DOMAIN s : /\ Sets(s[i], t) /\ To(s[i], t) \in V
                              /\ \A j \in DOMAIN s : j > i => ~Sets(s[j], t)
    BY <1>3 DEF Brings
  <2>2. CASE i = 1
    <3>1. new \in V
      BY <1>1, <2>1, <2>2
    <3>2. Quiet(Tail(s), t)
      <4> SUFFICES ASSUME NEW j \in DOMAIN Tail(s)
                   PROVE  ~Sets(Tail(s)[j], t)
        BY DEF Quiet
      <4>1. j + 1 \in DOMAIN s /\ Tail(s)[j] = s[j + 1] /\ j + 1 > 1
        BY <1>1
      <4> QED
        BY <2>1, <2>2, <4>1
    <3> QED
      BY <3>1, <3>2 DEF Ends
  <2>3. CASE i # 1
    <3>1. i - 1 \in DOMAIN Tail(s) /\ Tail(s)[i - 1] = s[i] /\ i \in Nat
      BY <1>1, <2>3
    <3>2. ASSUME NEW j \in DOMAIN Tail(s), j > i - 1
          PROVE  ~Sets(Tail(s)[j], t)
      <4>1. j + 1 \in DOMAIN s /\ Tail(s)[j] = s[j + 1] /\ j + 1 > i
        BY <1>1, <3>1, <3>2
      <4> QED
        BY <2>1, <4>1
    <3> QED
      BY <2>1, <3>1, <3>2 DEF Ends, Brings
  <2> QED
    BY <2>2, <2>3
<1> QED
  BY <1>2, <1>3 DEF Ends

(* L is quiet on every topic, and B on t.                                     *)
LEMMA EndsOn ==
  ASSUME NEW s \in Seq(Call), s # <<>>, NEW t, NEW base, NEW V, NEW new,
         NEW A \in Seq(Call), NEW B \in Seq(Call), Quiet(A, t), Quiet(B, t),
         Ends(s, t, base, V),
         new = IF Sets(Head(s), t) THEN To(Head(s), t) ELSE base
  PROVE  Ends((A \o Tail(s)) \o B, t, new, V)
<1>1. Tail(s) \in Seq(Call)
  BY TailElements
<1>2. Ends(Tail(s), t, new, V)
  BY EndsTail
<1> DEFINE M == A \o Tail(s)
<1>3. M \in Seq(Call)
  BY <1>1
<1>4. Ends(M, t, new, V)
  BY <1>1, <1>2, EndsAfter
<1> HIDE DEF M
<1>5. Ends(M \o B, t, new, V)
  BY <1>3, <1>4, EndsFirst
<1> QED
  BY <1>5 DEF M

LEMMA EndsGrows ==
  ASSUME NEW s, NEW t, NEW base, NEW V, NEW W, V \subseteq W, Ends(s, t, base, V)
  PROVE  Ends(s, t, base, W)
  BY DEF Ends, Brings

----------------------------------------------------------------------------
(* The constellations that are enabled in the end.                            *)

LEMMA EndsWithConcat ==
  ASSUME NEW s \in Seq(Call), NEW L \in Seq(Call), NEW base, NEW mid, NEW x,
         x \in mid <=> EndsWith(s, base, x)
  PROVE  EndsWith(s \o L, base, x) <=> EndsWith(L, mid, x)
<1>1. ASSUME EndsWith(s \o L, base, x)
      PROVE  EndsWith(L, mid, x)
  <2>1. CASE x \in base /\ \A i \in DOMAIN (s \o L) : ~Clears((s \o L)[i])
    <3>1. \A i \in DOMAIN s : ~Clears(s[i])
      <4>1. \A i \in DOMAIN s : i \in DOMAIN (s \o L) /\ (s \o L)[i] = s[i]
        BY ConcatElements
      <4> QED
        BY <2>1, <4>1
    <3>2. \A i \in DOMAIN L : ~Clears(L[i])
      <4>1. \A i \in DOMAIN L : Len(s) + i \in DOMAIN (s \o L) /\ (s \o L)[Len(s) + i] = L[i]
        BY ConcatElements
      <4> QED
        BY <2>1, <4>1
    <3> QED
      BY <2>1, <3>1, <3>2 DEF EndsWith
  <2>2. ASSUME NEW i \in DOMAIN (s \o L), Adds((s \o L)[i], x),
               \A j \in DOMAIN (s \o L) : j > i => ~Clears((s \o L)[j])
        PROVE  EndsWith(L, mid, x)
    <3>1. CASE i \in DOMAIN s /\ (s \o L)[i] = s[i]
      <4>1. \A j \in DOMAIN s : j > i => ~Clears(s[j])
        BY <2>2, ConcatElements
      <4>2. \A j \in DOMAIN L : ~Clears(L[j])
        <5> SUFFICES ASSUME NEW j \in DOMAIN L PROVE ~Clears(L[j])
          OBVIOUS
        <5>1. Len(s) + j \in DOMAIN (s \o L) /\ (s \o L)[Len(s) + j] = L[j] /\ j \in Nat /\ j > 0
          BY ConcatElements
        <5>2. i \in Nat /\ i <= Len(s) /\ Len(s) \in Nat
          BY <3>1, ConcatElements
        <5>3. Len(s) + j > i
          BY <5>1, <5>2
        <5> QED
          BY <2>2, <5>1, <5>3
      <4> QED
        BY <2>2, <3>1, <4>1, <4>2 DEF EndsWith
    <3>2. CASE /\ i - Len(s) \in DOMAIN L /\ (s \o L)[i] = L[i - Len(s)]
               /\ i > Len(s) /\ i \in Nat /\ Len(s) \in Nat
      <4>1. ASSUME NEW j \in DOMAIN L, j > i - Len(s)
            PROVE  ~Clears(L[j])
        <5>1. Len(s) + j \in DOMAIN (s \o L) /\ (s \o L)[Len(s) + j] = L[j] /\ j \in Nat
          BY ConcatElements
        <5>2. Len(s) + j > i
          BY <3>2, <4>1, <5>1
        <5> QED
          BY <2>2, <5>1, <5>2
      <4> QED
        BY <2>2, <3>2, <4>1 DEF EndsWith
    <3> QED
      BY <3>1, <3>2, ConcatCases
  <2> QED
    BY <1>1, <2>1, <2>2 DEF EndsWith
<1>2. ASSUME EndsWith(L, mid, x)
      PROVE  EndsWith(s \o L, base, x)
  <2>1. CASE x \in mid /\ \A i \in DOMAIN L : ~Clears(L[i])
    <3>1. CASE x \in base /\ \A i \in DOMAIN s : ~Clears(s[i])
      <4>1. \A i \in DOMAIN (s \o L) : ~Clears((s \o L)[i])
        BY <2>1, <3>1, ConcatCases
      <4> QED
        BY <3>1, <4>1 DEF EndsWith
    <3>2. ASSUME NEW i \in DOMAIN s, Adds(s[i], x), \A j \in DOMAIN s : j > i => ~Clears(s[j])
          PROVE  EndsWith(s \o L, base, x)
      <4>1. i \in DOMAIN (s \o L) /\ (s \o L)[i] = s[i]
        BY ConcatElements
      <4>2. \A j \in DOMAIN (s \o L) : j > i => ~Clears((s \o L)[j])
        BY <2>1, <3>2, ConcatCases
      <4> QED
        BY <3>2, <4>1, <4>2 DEF EndsWith
    <3> QED
      BY <2>1, <3>1, <3>2 DEF EndsWith
  <2>2. ASSUME NEW i \in DOMAIN L, Adds(L[i], x), \A j \in DOMAIN L : j > i => ~Clears(L[j])
        PROVE  EndsWith(s \o L, base, x)
    <3>1. /\ Len(s) + i \in DOMAIN (s \o L) /\ (s \o L)[Len(s) + i] = L[i]
          /\ i \in Nat /\ Len(s) \in Nat /\ i > 0
      BY ConcatElements
    <3>2. ASSUME NEW j \in DOMAIN (s \o L), j > Len(s) + i
          PROVE  ~Clears((s \o L)[j])
      <4>1. \/ j \in DOMAIN s /\ j <= Len(s)
            \/ j - Len(s) \in DOMAIN L /\ (s \o L)[j] = L[j - Len(s)] /\ j > Len(s) /\ j \in Nat
        BY ConcatCases, ConcatElements
      <4>2. j \notin DOMAIN s
        BY <3>1, <3>2
      <4>3. j - Len(s) > i
        BY <3>1, <3>2, <4>1, <4>2
      <4> QED
        BY <2>2, <4>1, <4>2, <4>3
    <3> QED
      BY <2>2, <3>1, <3>2 DEF EndsWith
  <2> QED
    BY <1>2, <2>1, <2>2 DEF EndsWith
<1> QED
  BY <1>1, <1>2

(* The head of s has run: it cleared, it added, or neither.                   *)
LEMMA EndsWithTail ==
  ASSUME NEW s \in Seq(Call), s # <<>>, NEW base, NEW new, NEW x,
         x \in new <=> EndsWith(<<Head(s)>>, base, x)
  PROVE  EndsWith(Tail(s), new, x) <=> EndsWith(s, base, x)
<1>1. Tail(s) \in Seq(Call) /\ <<Head(s)>> \in Seq(Call) /\ s = <<Head(s)>> \o Tail(s)
  OBVIOUS
<1>2. EndsWith(<<Head(s)>> \o Tail(s), base, x) <=> EndsWith(Tail(s), new, x)
  BY <1>1, EndsWithConcat
<1> QED
  BY <1>1, <1>2

LEMMA EndsWithOne ==
  ASSUME NEW c, NEW base, NEW x
  PROVE  EndsWith(<<c>>, base, x) <=> Adds(c, x) \/ (x \in base /\ ~Clears(c))
<1>1. DOMAIN <<c>> = {1} /\ <<c>>[1] = c
  OBVIOUS
<1> QED
  BY <1>1 DEF EndsWith

LEMMA EndsWithNothing ==
  ASSUME NEW base, NEW x
  PROVE  EndsWith(<<>>, base, x) <=> x \in base
  BY DEF EndsWith

Plain(s) == \A i \in DOMAIN s : ~Clears(s[i]) /\ s[i].call # "setConstellations"

LEMMA EndsWithPlain ==
  ASSUME NEW s, Plain(s), NEW base, NEW x
  PROVE  EndsWith(s, base, x) <=> x \in base
  BY DEF EndsWith, Plain, Adds

LEMMA EndsWithGrows ==
  ASSUME NEW s, NEW base, NEW more, NEW x, x \in base => x \in more, EndsWith(s, base, x)
  PROVE  EndsWith(s, more, x)
  BY DEF EndsWith

----------------------------------------------------------------------------
(* The fields of a message and of a call.                                     *)

LEMMA MessageFields ==
  ASSUME NEW m \in Message
  PROVE  /\ m.kind = "update" => m.lock \in Maybe(Lock) /\ m.svs \in Maybe(SUBSET Satellites)
         /\ m.kind = "svTypes" => m.types \in SvTypes
         /\ m.kind = "svConfig" => m.types \in Maybe(SvTypes) /\ m.svs \in SUBSET Satellites
         /\ m.kind \in {"enable", "disable"} => m.id \in Nat \ {0}
         /\ m.kind = "set" => m.ask.setting \in Kept /\ m.ask.value \in Values
         /\ m.kind \in AskKinds \cup {"set", "response"} => m.id \in Nat \ {0}
         /\ m.kind = "measCorr" => m.mask \in {"all", "none"}
         /\ m.kind = "block" => m.till \in Nat
  BY DEF Message, PlainKinds, AskKinds, SetRequest

LEMMA CallFields ==
  ASSUME NEW c \in Call
  PROVE  /\ c.call = "setLock" => c.lock \in Lock
         /\ c.call = "setBlacklist" => c.svs \in SUBSET Satellites
         /\ c.call = "setConstellations" => c.types \in SvTypes
         /\ c.call \in {"update", "fill"} =>
              /\ c \in [call: {"update", "fill"}, lock: Maybe(Lock),
                        svs: Maybe(SUBSET Satellites), after: {<<>>, Check("tunc")}]
              /\ c.lock \in Maybe(Lock) /\ c.svs \in Maybe(SUBSET Satellites)
              /\ c.after \in {<<>>, Check("tunc")}
         /\ c.call \in {"check", "default", "send", "set"} => c.setting \in Kept
         /\ c.call \in {"send", "set"} => c.value \in Values \cup {"file"}
         /\ c.call \in {"set", "delete"} => c.id \in Nat
  BY DEF Call

LEMMA MaybeSome ==
  ASSUME NEW S, NEW x \in Maybe(S), x # <<>>
  PROVE  x[1] \in S /\ x = <<x[1]>>
  BY DEF Maybe

LEMMA MaybeOf ==
  ASSUME NEW S
  PROVE  <<>> \in Maybe(S) /\ \A y \in S : <<y>> \in Maybe(S) /\ <<y>> # <<>>
  BY DEF Maybe

LEMMA WorldIs == WorldTyped => world \in [supported: BOOLEAN, framework: {"P", "Q"},
  integration: BOOLEAN, settings: SUBSET {"values", "asks", "corrections", "injections"}]
  BY WorldsAssumption DEF WorldTyped

----------------------------------------------------------------------------
(* The adapter's thread handles a message other than the engine's coming up:  *)
(* it posts the calls L.                                                      *)

Takes ==
  ~restoring /\ queue # <<>> /\ Head(queue).kind # "engineUp" /\ queue' = Tail(queue)

LockKept(L) ==
  (Quiet(L, "lock") /\ ExpectedLock' = ExpectedLock) \/ Brings(L, "lock", {ExpectedLock'})
BlacklistKept(L) ==
  ~world.supported =>
    (Quiet(L, "blacklist") /\ UNCHANGED <<ids, types>>)
    \/ Brings(L, "blacklist", Blacklists(ids', types'))
ConstellationsKept(L) ==
  ~world.integration =>
    /\ \A i \in DOMAIN L : L[i].call = "setConstellations" => L[i].types.blacklisted = {}
    /\ \A x : x \in Enabled(types') <=> EndsWith(L, Enabled(types), x)
ValueKept(L, s) ==
  \/ s \notin raced /\ Quiet(L, s) /\ stored'[s] = stored[s] /\ asked'[s] = asked[s]
  \/ /\ ~HoldsValueOf(s) /\ stored'[s] = asked'[s] /\ asked'[s] \in Values
     /\ Brings(L, s, {asked'[s]})
ValuesKept(L) == \A s \in Kept \ raced' : ValueKept(L, s)
Ordinary(L) == \A i \in DOMAIN L : L[i].call \notin {"open", "default", "send", "fill"}

Keeps(L) ==
  /\ api' = api \o L
  /\ Ordinary(L) /\ LockKept(L) /\ BlacklistKept(L) /\ ConstellationsKept(L) /\ ValuesKept(L)

CorrKept ==
  /\ corr' = IF Head(queue).kind = "measCorr"
             THEN [corr EXCEPT !.told = @ \cup {Head(queue).mask}] ELSE corr
PendingKept ==
  \/ pending' = pending
  \/ pending' = Append(pending, Head(queue)) /\ Head(queue).kind \in WaitingKinds

Handled ==
  /\ Takes
  /\ UNCHANGED <<known, restoring, engine, enables, world, has>>
  /\ world.framework = "Q" => nfw'
  /\ PendingKept /\ CorrKept
  /\ \E L \in Seq(Call) : Keeps(L)
  /\ AdapterTyped' /\ SettingsTyped' /\ AsksTyped' /\ OwnTyped'

(* Calls that set nothing.                                                    *)
Inert(L) == \A i \in DOMAIN L : L[i].call \in {"delete", "getBlacklist", "inject"}

LEMMA InertKeeps ==
  ASSUME NEW L \in Seq(Call), Inert(L), api' = api \o L, WorldTyped,
         UNCHANGED <<lockVars, ids, types, stored, asked>>, raced \subseteq raced'
  PROVE  Keeps(L)
<1>1. Ordinary(L) /\ Plain(L)
  BY DEF Inert, Ordinary, Plain, Clears
<1>2. \A t : Quiet(L, t)
  BY DEF Inert, Quiet, Sets
<1>3. LockKept(L)
  BY <1>2 DEF LockKept, ExpectedLock, lockVars
<1>4. BlacklistKept(L)
  BY <1>2 DEF BlacklistKept
<1>5. ConstellationsKept(L)
  <2>1. \A x : EndsWith(L, Enabled(types), x) <=> x \in Enabled(types)
    BY <1>1, EndsWithPlain
  <2>2. types' = types
    OBVIOUS
  <2> QED
    BY <1>1, <2>1, <2>2 DEF ConstellationsKept, Plain
<1>6. ValuesKept(L)
  BY <1>2 DEF ValuesKept, ValueKept
<1> QED
  BY <1>1, <1>3, <1>4, <1>5, <1>6 DEF Keeps

(* What a handler that sets nothing has to leave alone.                       *)
LEMMA InertHandled ==
  ASSUME TypeOK, MailSuits, Takes,
         UNCHANGED <<known, restoring, lockVars, svVars, engine, enables, world, has>>,
         UNCHANGED <<stored, asked, raced>>,
         PendingKept, CorrKept, AsksTyped', OwnTyped',
         NEW L \in Seq(Call), Inert(L), api' = api \o L
  PROVE  Handled
<1>1. Keeps(L)
  BY InertKeeps DEF TypeOK, svVars
<1>2. AdapterTyped' /\ SettingsTyped'
  BY DEF TypeOK, AdapterTyped, SettingsTyped, lockVars, svVars
<1>3. world.framework = "Q" => nfw'
  BY DEF MailSuits, lockVars
<1> QED
  BY <1>1, <1>2, <1>3 DEF Handled

LEMMA InertNone ==
  ASSUME api \in Seq(Call)
  PROVE  <<>> \in Seq(Call) /\ Inert(<<>>) /\ api = api \o <<>>
  BY ConcatNothing DEF Inert

LEMMA InertDelete ==
  ASSUME NEW n \in Nat
  PROVE  <<[call |-> "delete", id |-> n]>> \in Seq(Call) /\ Inert(<<[call |-> "delete", id |-> n]>>)
<1> DEFINE c == [call |-> "delete", id |-> n]
<1>1. c \in Call /\ c.call = "delete"
  BY DEF Call
<1> HIDE DEF c
<1>2. <<c>> \in Seq(Call) /\ Inert(<<c>>)
  BY <1>1 DEF Inert
<1> QED
  BY <1>2 DEF c

LEMMA InertCall ==
  ASSUME NEW k \in {"getBlacklist", "inject"}
  PROVE  <<[call |-> k]>> \in Seq(Call) /\ Inert(<<[call |-> k]>>)
<1> DEFINE c == [call |-> k]
<1>1. c \in Call /\ c.call = k
  BY DEF Call
<1> HIDE DEF c
<1>2. <<c>> \in Seq(Call) /\ Inert(<<c>>)
  BY <1>1 DEF Inert
<1> QED
  BY <1>2 DEF c

----------------------------------------------------------------------------
(* The handlers that set nothing in the engine.                               *)

LEMMA AnswersTyped ==
  ASSUME AsksTyped, NEW S, ReportResponse(S)
  PROVE  answers' \in [1..MaxAsks -> 0..2]
<1>1. DOMAIN answers = 1..MaxAsks /\ \A id \in DOMAIN answers : answers[id] \in 0..2
  BY DEF AsksTyped
<1> QED
  BY <1>1 DEF ReportResponse

LEMMA HandlesTakes ==
  ASSUME NEW k, Handles(k), k # "engineUp", Taken
  PROVE  Takes
  BY DEF Handles, Taken, Takes

LEMMA WaitHandled ==
  ASSUME TypeOK, MailSuits, Wait, UNCHANGED settingVars
  PROVE  Handled
<1>1. Takes /\ Head(queue).kind \in WaitingKinds
  BY DEF Wait, Handles, Takes, WaitingKinds
<1>2. PendingKept
  BY <1>1 DEF Wait, PendingKept
<1>3. CorrKept
  BY <1>1 DEF CorrKept, WaitingKinds, settingVars, ownVars
<1>4. UNCHANGED <<known, restoring, lockVars, svVars, engine, enables, world, has, stored, asked, raced>>
  BY DEF Wait, settingVars, askVars
<1>5. AsksTyped' /\ OwnTyped'
  BY DEF TypeOK, AsksTyped, OwnTyped, settingVars, askVars, ownVars
<1>6. <<>> \in Seq(Call) /\ Inert(<<>>) /\ api' = api \o <<>>
  BY InertNone DEF Wait, TypeOK, MailTyped
<1> QED
  BY <1>1, <1>2, <1>3, <1>4, <1>5, <1>6, InertHandled

LEMMA AnswerHandled ==
  ASSUME TypeOK, MailSuits, NEW kinds, AnswerFor(kinds), kinds \subseteq AskKinds \cup {"response"}
  PROVE  Handled
<1>1. Takes /\ Head(queue).kind \in AskKinds \cup {"response"}
  BY DEF AnswerFor, Handles, Taken, Takes, AskKinds
<1>2. PendingKept
  BY DEF AnswerFor, KeepSettings, PendingKept, adapterVars
<1>3. CorrKept
  BY <1>1 DEF CorrKept, AskKinds, AnswerFor, ownVars
<1>4. UNCHANGED <<known, restoring, lockVars, svVars, engine, enables, world, has, stored, asked, raced>>
  BY DEF AnswerFor, KeepSettings, adapterVars
<1>5. AsksTyped' /\ OwnTyped'
  <2>1. answers' \in [1..MaxAsks -> 0..2]
    BY AnswersTyped DEF AnswerFor, TypeOK
  <2> QED
    BY <2>1 DEF TypeOK, AsksTyped, OwnTyped, AnswerFor, KeepSettings, ownVars
<1>6. <<>> \in Seq(Call) /\ Inert(<<>>) /\ api' = api \o <<>>
  BY InertNone DEF AnswerFor, TypeOK, MailTyped
<1> QED
  BY <1>1, <1>2, <1>3, <1>4, <1>5, <1>6, InertHandled

LEMMA IgnoredHandled ==
  ASSUME TypeOK, MailSuits, NEW kinds, Ignored(kinds), "engineUp" \notin kinds, "measCorr" \notin kinds
  PROVE  Handled
<1>1. Takes /\ Head(queue).kind # "measCorr"
  BY DEF Ignored, Handles, Taken, Takes
<1>2. PendingKept
  BY DEF Ignored, KeepSettings, PendingKept, adapterVars
<1>3. CorrKept
  BY <1>1 DEF CorrKept, Ignored, ownVars
<1>4. UNCHANGED <<known, restoring, lockVars, svVars, engine, enables, world, has, stored, asked, raced>>
  BY DEF Ignored, KeepSettings, adapterVars, askVars
<1>5. AsksTyped' /\ OwnTyped'
  BY DEF TypeOK, AsksTyped, OwnTyped, Ignored, KeepSettings, ownVars, askVars
<1>6. <<>> \in Seq(Call) /\ Inert(<<>>) /\ api' = api \o <<>>
  BY InertNone DEF Ignored, TypeOK, MailTyped
<1> QED
  BY <1>1, <1>2, <1>3, <1>4, <1>5, <1>6, InertHandled

LEMMA DeleteHandled ==
  ASSUME TypeOK, MailSuits, DeleteAidingData
  PROVE  Handled
<1>1. Takes /\ Head(queue).kind = "delete"
  BY DEF DeleteAidingData, Handles, Taken, Takes
<1>2. PendingKept
  BY DEF DeleteAidingData, KeepSettings, PendingKept, adapterVars
<1>3. CorrKept
  BY <1>1 DEF CorrKept, DeleteAidingData, ownVars
<1>4. UNCHANGED <<known, restoring, lockVars, svVars, engine, enables, world, has, stored, asked, raced>>
  BY DEF DeleteAidingData, KeepSettings, adapterVars
<1>5. AsksTyped' /\ OwnTyped'
  <2>1. answers' \in [1..MaxAsks -> 0..2]
    BY AnswersTyped DEF DeleteAidingData, TypeOK
  <2>2. lastDelete' \in Nat
    BY DEF DeleteAidingData, TypeOK, AsksTyped
  <2> QED
    BY <2>1, <2>2 DEF TypeOK, AsksTyped, OwnTyped, DeleteAidingData, KeepSettings, ownVars
<1>6. Head(queue).id \in Nat
  <2>1. Head(queue) \in Message
    BY <1>1 DEF Takes, TypeOK, MailTyped
  <2> QED
    BY <1>1, <2>1, MessageFields DEF AskKinds
<1>7. \/ api' = api \o <<[call |-> "delete", id |-> Head(queue).id]>>
      \/ api' = api \o <<>>
  BY DEF DeleteAidingData, PostCalls
<1>8. \E L \in Seq(Call) : Inert(L) /\ api' = api \o L
  BY <1>6, <1>7, InertNone, InertDelete DEF TypeOK, MailTyped
<1> QED
  BY <1>1, <1>2, <1>3, <1>4, <1>5, <1>8, InertHandled

LEMMA GetHandled ==
  ASSUME TypeOK, MailSuits, GetConfig
  PROVE  Handled
<1>1. Takes /\ Head(queue).kind = "get"
  BY DEF GetConfig, Handles, Taken, Takes
<1>2. PendingKept
  BY DEF GetConfig, KeepSettings, PendingKept, adapterVars
<1>3. CorrKept
  BY <1>1 DEF CorrKept, GetConfig, ownVars
<1>4. UNCHANGED <<known, restoring, lockVars, svVars, engine, enables, world, has, stored, asked, raced>>
  BY DEF GetConfig, KeepSettings, adapterVars
<1>5. AsksTyped' /\ OwnTyped'
  <2>1. answers' \in [1..MaxAsks -> 0..2]
    BY AnswersTyped DEF GetConfig, TypeOK
  <2> QED
    BY <2>1 DEF TypeOK, AsksTyped, OwnTyped, GetConfig, KeepSettings, ownVars
<1>7. \/ api' = api \o <<[call |-> "getBlacklist"]>>
      \/ api' = api \o <<>>
  BY DEF GetConfig, PostCalls
<1>8. \E L \in Seq(Call) : Inert(L) /\ api' = api \o L
  BY <1>7, InertNone, InertCall DEF TypeOK, MailTyped
<1> QED
  BY <1>1, <1>2, <1>3, <1>4, <1>5, <1>8, InertHandled

LEMMA InitMeasCorrHandled ==
  ASSUME TypeOK, MailSuits, InitMeasCorr
  PROVE  Handled
<1>1. Takes /\ Head(queue).kind = "measCorr"
  BY DEF InitMeasCorr, Handles, Taken, Takes
<1>2. PendingKept
  BY DEF InitMeasCorr, KeepSettings, PendingKept, adapterVars
<1>3. CorrKept
  BY <1>1 DEF CorrKept, InitMeasCorr
<1>4. UNCHANGED <<known, restoring, lockVars, svVars, engine, enables, world, has, stored, asked, raced>>
  BY DEF InitMeasCorr, KeepSettings, adapterVars, askVars
<1>5. AsksTyped' /\ OwnTyped'
  <2>1. Head(queue) \in Message
    BY <1>1 DEF Takes, TypeOK, MailTyped
  <2>2. Head(queue).mask \in {"all", "none"}
    BY <1>1, <2>1, MessageFields
  <2>3. corr' \in Corr
    BY <2>2 DEF InitMeasCorr, TypeOK, OwnTyped, Corr
  <2> QED
    BY <2>3 DEF TypeOK, AsksTyped, OwnTyped, InitMeasCorr, KeepSettings, askVars
<1>6. <<>> \in Seq(Call) /\ Inert(<<>>) /\ api' = api \o <<>>
  BY InertNone DEF InitMeasCorr, TypeOK, MailTyped
<1> QED
  BY <1>1, <1>2, <1>3, <1>4, <1>5, <1>6, InertHandled

LEMMA InjectHandled ==
  ASSUME TypeOK, MailSuits, InjectLocation \/ InjectTime
  PROVE  Handled
<1>1. Takes /\ Head(queue).kind # "measCorr"
  BY DEF InjectLocation, InjectTime, Handles, Taken, Takes
<1>2. PendingKept
  BY DEF InjectLocation, InjectTime, KeepSettings, PendingKept, adapterVars
<1>3. CorrKept
  BY <1>1 DEF CorrKept, InjectLocation, InjectTime, ownVars
<1>4. UNCHANGED <<known, restoring, lockVars, svVars, engine, enables, world, has, stored, asked, raced>>
  BY DEF InjectLocation, InjectTime, KeepSettings, adapterVars, askVars
<1>5. AsksTyped' /\ OwnTyped'
  BY DEF TypeOK, AsksTyped, OwnTyped, InjectLocation, InjectTime, KeepSettings, ownVars, askVars
<1>7. \/ api' = api \o <<[call |-> "inject"]>>
      \/ api' = api \o <<>>
  BY DEF InjectLocation, InjectTime, PostCalls
<1>8. \E L \in Seq(Call) : Inert(L) /\ api' = api \o L
  BY <1>7, InertNone, InertCall DEF TypeOK, MailTyped
<1> QED
  BY <1>1, <1>2, <1>3, <1>4, <1>5, <1>8, InertHandled

LEMMA BlockHandled ==
  ASSUME TypeOK, MailSuits, BlockCPI
  PROVE  Handled
<1>1. Takes /\ Head(queue).kind = "block"
  BY DEF BlockCPI, Handles, Taken, Takes
<1>2. PendingKept
  BY DEF BlockCPI, KeepSettings, PendingKept, adapterVars
<1>3. CorrKept
  BY <1>1 DEF CorrKept, BlockCPI
<1>4. UNCHANGED <<known, restoring, lockVars, svVars, engine, enables, world, has, stored, asked, raced>>
  BY DEF BlockCPI, KeepSettings, adapterVars, askVars
<1>5. AsksTyped' /\ OwnTyped'
  <2>1. Head(queue) \in Message
    BY <1>1 DEF Takes, TypeOK, MailTyped
  <2>2. Head(queue).till \in Nat
    BY <1>1, <2>1, MessageFields
  <2> QED
    BY <2>2 DEF TypeOK, AsksTyped, OwnTyped, BlockCPI, KeepSettings, askVars
<1>6. <<>> \in Seq(Call) /\ Inert(<<>>) /\ api' = api \o <<>>
  BY InertNone DEF BlockCPI, TypeOK, MailTyped
<1> QED
  BY <1>1, <1>2, <1>3, <1>4, <1>5, <1>6, InertHandled

----------------------------------------------------------------------------
(* The handlers that set the lock or a value.                                 *)

LEMMA OneCall ==
  ASSUME NEW c \in Call
  PROVE  /\ <<c>> \in Seq(Call)
         /\ \A t : ~Sets(c, t) => Quiet(<<c>>, t)
         /\ \A t, V : Sets(c, t) /\ To(c, t) \in V => Brings(<<c>>, t, V)
         /\ c.call \notin {"open", "default", "send", "fill"} => Ordinary(<<c>>)
         /\ c.call \notin {"open", "resetConstellations", "setConstellations"} => Plain(<<c>>)
<1>1. <<c>> \in Seq(Call) /\ DOMAIN <<c>> = {1} /\ <<c>>[1] = c
  OBVIOUS
<1> QED
  BY <1>1 DEF Quiet, Brings, Ordinary, Plain, Clears

LEMMA PlainConstellations ==
  ASSUME NEW L, Plain(L), types' = types
  PROVE  ConstellationsKept(L)
<1>1. \A x : EndsWith(L, Enabled(types), x) <=> x \in Enabled(types)
  BY EndsWithPlain
<1> QED
  BY <1>1 DEF ConstellationsKept, Plain

(* A handler that posts one call c, which has to do with the lock alone.      *)
LEMMA LockHandled ==
  ASSUME TypeOK, MailSuits, NEW c \in Call, c.call \in {"setLock", "update"},
         Takes, Head(queue).kind # "measCorr", api' = api \o <<c>>,
         UNCHANGED <<known, restoring, svVars, engine, enables, world, pending>>, UNCHANGED settingVars,
         world.framework = "Q" => nfw', AdapterTyped',
         \/ ~Sets(c, "lock") /\ ExpectedLock' = ExpectedLock
         \/ Sets(c, "lock") /\ To(c, "lock") = ExpectedLock'
  PROVE  Handled
<1>1. <<c>> \in Seq(Call) /\ Ordinary(<<c>>) /\ Plain(<<c>>)
  BY OneCall
<1>2. LockKept(<<c>>)
  BY OneCall DEF LockKept
<1>3. \A t : t # "lock" => Quiet(<<c>>, t)
  BY OneCall DEF Sets
<1>4. BlacklistKept(<<c>>)
  BY <1>3 DEF BlacklistKept, svVars
<1>5. ConstellationsKept(<<c>>)
  BY <1>1, PlainConstellations DEF svVars
<1>6. ValuesKept(<<c>>)
  BY <1>3 DEF ValuesKept, ValueKept, Kept, settingVars, askVars
<1>7. Keeps(<<c>>)
  BY <1>1, <1>2, <1>4, <1>5, <1>6 DEF Keeps
<1>8. PendingKept /\ CorrKept
  BY DEF PendingKept, CorrKept, settingVars, ownVars
<1>9. SettingsTyped' /\ AsksTyped' /\ OwnTyped'
  BY DEF TypeOK, SettingsTyped, AsksTyped, OwnTyped, settingVars, askVars, ownVars
<1>10. has' = has
  BY DEF settingVars
<1> QED
  BY <1>1, <1>7, <1>8, <1>9, <1>10 DEF Handled

LEMMA HeadTyped ==
  ASSUME TypeOK, MailSuits, queue # <<>>
  PROVE  Head(queue) \in Message /\ Suits(Head(queue))
<1>1. Head(queue) = queue[1] /\ 1 \in DOMAIN queue /\ queue[1] \in Message
  BY TailElements DEF TypeOK, MailTyped
<1> QED
  BY <1>1 DEF MailSuits

LEMMA UpdateConfigHandled ==
  ASSUME TypeOK, MailSuits, UpdateConfig, UNCHANGED settingVars
  PROVE  Handled
<1> DEFINE m == Head(queue)
           l == IF m.lock = <<>> THEN <<>> ELSE LockToSend(m.lock[1])
           c == [call |-> "update", lock |-> l, svs |-> m.svs, after |-> <<>>]
<1>1. Takes /\ m.kind = "update"
  BY DEF UpdateConfig, Handles, Takes
<1>2. /\ m.lock \in Maybe(Lock) /\ m.svs \in Maybe(SUBSET Satellites)
      /\ m.lock # <<>> => world.framework = "P"
  BY <1>1, HeadTyped, MessageFields DEF Takes, Suits
<1>3. m.lock # <<>> => m.lock[1] \cup {"MO"} \in Lock
  BY <1>2, MaybeSome DEF Lock
<1>4. l \in Maybe(Lock)
  <2>1. {} \in Lock
    BY DEF Lock
  <2> QED
    BY <1>3, <2>1, MaybeOf DEF LockToSend
<1>5. c \in Call
  BY <1>2, <1>4 DEF Call
<1>6. api' = api \o <<c>>
  BY DEF UpdateConfig, PostCalls, UpdateEngine
<1>7. UNCHANGED <<known, restoring, svVars, engine, enables, world, pending>> /\ afw' = afw
  BY DEF UpdateConfig, UpdateLock, lockVars
<1>8. c.call = "update" /\ c.lock = l
  OBVIOUS
<1>9. CASE m.lock = <<>>
  <2>1. UNCHANGED lockVars /\ l = <<>>
    BY <1>9 DEF UpdateConfig
  <2>2. ~Sets(c, "lock") /\ ExpectedLock' = ExpectedLock
    BY <1>8, <2>1 DEF Sets, ExpectedLock, lockVars
  <2>3. AdapterTyped' /\ (world.framework = "Q" => nfw')
    BY <1>7, <2>1 DEF TypeOK, AdapterTyped, MailSuits, lockVars, svVars
  <2> HIDE DEF c
  <2> QED
    BY <1>1, <1>5, <1>6, <1>7, <1>8, <2>2, <2>3, LockHandled
<1>10. CASE m.lock # <<>>
  <2>1. gpsLock' = m.lock[1] \cup {"MO"} /\ nfw' = FALSE /\ l = LockToSend(m.lock[1])
    BY <1>10 DEF UpdateConfig, UpdateLock
  <2>2. AdapterTyped' /\ (world.framework = "Q" => nfw')
    BY <1>2, <1>3, <1>7, <1>10, <2>1 DEF TypeOK, AdapterTyped, svVars
  <2>3. ExpectedLock' = IF afw = 0 THEN gpsLock' ELSE {}
    BY <1>7, <2>1 DEF ExpectedLock
  <2>4. \/ ~Sets(c, "lock") /\ ExpectedLock' = ExpectedLock
        \/ Sets(c, "lock") /\ To(c, "lock") = ExpectedLock'
    <3>1. CASE afw = 0
      <4>1. l = <<gpsLock'>>
        BY <2>1, <3>1 DEF LockToSend
      <4>2. l # <<>> /\ l[1] = gpsLock'
        BY <4>1
      <4> QED
        BY <1>8, <2>3, <3>1, <4>2 DEF Sets, To
    <3>2. CASE afw # 0 /\ nfw
      <4>1. l = <<{}>>
        BY <2>1, <3>2 DEF LockToSend
      <4>2. l # <<>> /\ l[1] = {}
        BY <4>1
      <4> QED
        BY <1>8, <2>3, <3>2, <4>2 DEF Sets, To
    <3>3. CASE afw # 0 /\ ~nfw
      <4>1. l = <<>>
        BY <2>1, <3>3 DEF LockToSend
      <4> QED
        BY <1>8, <2>3, <3>3, <4>1 DEF Sets, ExpectedLock
    <3> QED
      BY <3>1, <3>2, <3>3
  <2> HIDE DEF c
  <2> QED
    BY <1>1, <1>5, <1>6, <1>7, <1>8, <2>2, <2>4, LockHandled
<1> QED
  BY <1>9, <1>10

(* A handler that finds nothing to do.                                        *)
LEMMA IdleHandled ==
  ASSUME TypeOK, MailSuits, Takes, Head(queue).kind # "measCorr",
         UNCHANGED <<known, restoring, lockVars, svVars, engine, enables, world, pending, api>>,
         UNCHANGED settingVars
  PROVE  Handled
<1>1. PendingKept /\ CorrKept
  BY DEF PendingKept, CorrKept, settingVars, ownVars
<1>2. AsksTyped' /\ OwnTyped'
  BY DEF TypeOK, AsksTyped, OwnTyped, settingVars, askVars, ownVars
<1>3. <<>> \in Seq(Call) /\ Inert(<<>>) /\ api' = api \o <<>>
  BY InertNone DEF TypeOK, MailTyped
<1>4. UNCHANGED <<stored, asked, raced, has>>
  BY DEF settingVars, askVars
<1> QED
  BY <1>1, <1>2, <1>3, <1>4, InertHandled

LEMMA LockCallIs ==
  ASSUME NEW l \in Lock, NEW c, c = [call |-> "setLock", lock |-> l]
  PROVE  c \in Call /\ c.call = "setLock" /\ Sets(c, "lock") /\ To(c, "lock") = l /\ SetLock(l) = <<c>>
  BY DEF Call, Sets, To, SetLock

LEMMA EnableHandled ==
  ASSUME TypeOK, MailSuits, EnableGnss, UNCHANGED settingVars
  PROVE  Handled
<1>1. Takes /\ Head(queue).kind = "enable"
  BY DEF EnableGnss, Handles, Takes
<1>2. Head(queue).id \in Nat \ {0}
  BY <1>1, HeadTyped, MessageFields DEF Takes
<1>3. UNCHANGED <<known, restoring, nfw, svVars, engine, enables, world, pending>>
  BY DEF EnableGnss
<1>4. CASE afw = 0
  <2>1. /\ afw' = Head(queue).id
        /\ gpsLock' = IF nfw THEN gpsLock \cap {"NI"} ELSE gpsLock
        /\ api' = api \o SetLock(IF nfw THEN gpsLock' ELSE {})
    BY <1>4 DEF EnableGnss, PostCalls
  <2> DEFINE l == IF nfw THEN gpsLock' ELSE {}
             c == [call |-> "setLock", lock |-> l]
  <2>2. gpsLock' \in Lock /\ l \in Lock
    BY <2>1 DEF TypeOK, AdapterTyped, Lock
  <2>3. ExpectedLock' = l
    BY <1>2, <1>3, <2>1 DEF ExpectedLock
  <2>4. AdapterTyped' /\ (world.framework = "Q" => nfw')
    BY <1>2, <1>3, <2>1, <2>2 DEF TypeOK, AdapterTyped, MailSuits, svVars
  <2> HIDE DEF l
  <2>5. c \in Call /\ c.call = "setLock" /\ Sets(c, "lock") /\ To(c, "lock") = l /\ SetLock(l) = <<c>>
    BY <2>2, LockCallIs
  <2>6. api' = api \o <<c>>
    BY <2>1, <2>5 DEF l
  <2> HIDE DEF c
  <2> QED
    BY <1>1, <1>3, <2>3, <2>4, <2>5, <2>6, LockHandled
<1>5. CASE afw # 0
  <2>1. UNCHANGED <<lockVars, api>>
    BY <1>5 DEF EnableGnss, lockVars
  <2> QED
    BY <1>1, <1>3, <2>1, IdleHandled
<1> QED
  BY <1>4, <1>5

LEMMA DisableHandled ==
  ASSUME TypeOK, MailSuits, DisableGnss, UNCHANGED settingVars
  PROVE  Handled
<1>1. Takes /\ Head(queue).kind = "disable"
  BY DEF DisableGnss, Handles, Takes
<1>3. UNCHANGED <<known, restoring, nfw, svVars, engine, enables, world, pending>>
  BY DEF DisableGnss
<1>4. CASE afw = Head(queue).id
  <2>1. /\ afw' = 0
        /\ gpsLock' = IF nfw THEN gpsLock \union {"MO"} ELSE gpsLock
        /\ api' = api \o SetLock(gpsLock')
    BY <1>4 DEF DisableGnss, PostCalls
  <2> DEFINE l == gpsLock'
             c == [call |-> "setLock", lock |-> l]
  <2>2. l \in Lock
    BY <2>1 DEF TypeOK, AdapterTyped, Lock
  <2>3. ExpectedLock' = l
    BY <2>1 DEF ExpectedLock
  <2>4. AdapterTyped' /\ (world.framework = "Q" => nfw')
    BY <1>3, <2>1, <2>2 DEF TypeOK, AdapterTyped, MailSuits, svVars
  <2>5. c \in Call /\ c.call = "setLock" /\ Sets(c, "lock") /\ To(c, "lock") = l /\ SetLock(l) = <<c>>
    BY <2>2, LockCallIs
  <2>6. api' = api \o <<c>>
    BY <2>1, <2>5
  <2> HIDE DEF c
  <2> QED
    BY <1>1, <1>3, <2>3, <2>4, <2>5, <2>6, LockHandled
<1>5. CASE afw # Head(queue).id
  <2>1. UNCHANGED <<lockVars, api>>
    BY <1>5 DEF DisableGnss, lockVars
  <2> QED
    BY <1>1, <1>3, <2>1, IdleHandled
<1> QED
  BY <1>4, <1>5

LEMMA ControlNfwHandled ==
  ASSUME TypeOK, MailSuits, ControlNfw, UNCHANGED settingVars
  PROVE  Handled
<1>1. Takes /\ Head(queue).kind = "nfw"
  BY DEF ControlNfw, Handles, Takes
<1>2. world.framework = "Q" /\ nfw
  BY <1>1, HeadTyped DEF Takes, Suits, MailSuits
<1>3. UNCHANGED <<known, restoring, nfw, afw, svVars, engine, enables, world, pending>>
  BY DEF ControlNfw
<1> DEFINE l == gpsLock'
           c == [call |-> "setLock", lock |-> l]
<1>4. l \in Lock
  BY DEF ControlNfw, TypeOK, AdapterTyped, Lock
<1>5. ExpectedLock' = l
  BY <1>2, <1>3 DEF ExpectedLock
<1>6. AdapterTyped' /\ (world.framework = "Q" => nfw')
  BY <1>2, <1>3, <1>4 DEF TypeOK, AdapterTyped, svVars
<1>7. c \in Call /\ c.call = "setLock" /\ Sets(c, "lock") /\ To(c, "lock") = l /\ SetLock(l) = <<c>>
  BY <1>4, LockCallIs
<1>8. api' = api \o <<c>>
  BY <1>7 DEF ControlNfw, PostCalls
<1> HIDE DEF c
<1> QED
  BY <1>1, <1>3, <1>5, <1>6, <1>7, <1>8, LockHandled

LEMMA SetHandled ==
  ASSUME TypeOK, MailSuits, NEW s \in Kept, SetSetting(s)
  PROVE  Handled
<1> DEFINE m == Head(queue)
           v == m.ask.value
           c == [call |-> "set", setting |-> s, value |-> v, id |-> m.id]
<1>1. Takes /\ m.kind = "set" /\ m.ask.setting = s
  BY DEF SetSetting, Handles, Takes, Taken
<1>2. v \in Values /\ m.id \in Nat
  BY <1>1, HeadTyped, MessageFields DEF Takes
<1>3. c \in Call
  BY <1>2 DEF Call
<1>4. c.call = "set" /\ c.setting = s /\ c.value = v
  OBVIOUS
<1>5. api' = api \o <<c>>
  BY DEF SetSetting, PostCalls
<1>6. /\ stored' = [stored EXCEPT ![s] = v] /\ asked' = [asked EXCEPT ![s] = v]
      /\ raced' = IF HoldsValueOf(s) THEN raced \cup {s} ELSE raced \ {s}
      /\ UNCHANGED <<adapterVars, engine, enables, world, has, asks, second, answers, lastDelete, ownVars>>
  BY DEF SetSetting, KeepSettings
<1>7. SettingsTyped'
  BY <1>2, <1>6 DEF TypeOK, SettingsTyped, Value
<1>8. AdapterTyped' /\ AsksTyped' /\ OwnTyped'
  BY <1>6 DEF TypeOK, AdapterTyped, AsksTyped, OwnTyped, adapterVars, lockVars, svVars, ownVars
<1>9. PendingKept /\ CorrKept
  BY <1>1, <1>6 DEF PendingKept, CorrKept, adapterVars, ownVars
<1>10. world.framework = "Q" => nfw'
  BY <1>6 DEF MailSuits, adapterVars, lockVars
<1> HIDE DEF c, v
<1>11. <<c>> \in Seq(Call) /\ Ordinary(<<c>>) /\ Plain(<<c>>)
  BY <1>3, <1>4, OneCall
<1>12. \A t \in {"lock", "blacklist"} : ~Sets(c, t)
  BY <1>4 DEF Sets, Kept
<1>13. LockKept(<<c>>) /\ BlacklistKept(<<c>>)
  <2>1. Quiet(<<c>>, "lock") /\ Quiet(<<c>>, "blacklist")
    BY <1>3, <1>12, OneCall
  <2> QED
    BY <1>6, <2>1 DEF LockKept, BlacklistKept, ExpectedLock, adapterVars, lockVars, svVars
<1>14. ConstellationsKept(<<c>>)
  BY <1>6, <1>11, PlainConstellations DEF adapterVars, svVars
<1>15. ASSUME NEW r \in Kept \ raced'
       PROVE  ValueKept(<<c>>, r)
  <2>1. CASE r = s
    <3>1. ~HoldsValueOf(s)
      BY <1>6, <1>15, <2>1
    <3>2. stored'[s] = v /\ asked'[s] = v
      BY <1>6 DEF TypeOK, SettingsTyped
    <3>3. Sets(c, s) /\ To(c, s) = v
      BY <1>4 DEF Sets, To
    <3>4. Brings(<<c>>, s, {v})
      BY <1>3, <3>3, OneCall
    <3> QED
      BY <1>2, <2>1, <3>1, <3>2, <3>4 DEF ValueKept
  <2>2. CASE r # s
    <3>1. r \notin raced /\ stored'[r] = stored[r] /\ asked'[r] = asked[r]
      BY <1>6, <1>15, <2>2 DEF TypeOK, SettingsTyped
    <3>2. ~Sets(c, r)
      BY <1>4, <2>2 DEF Sets, Kept
    <3>3. Quiet(<<c>>, r)
      BY <1>3, <3>2, OneCall
    <3> QED
      BY <3>1, <3>3 DEF ValueKept
  <2> QED
    BY <2>1, <2>2
<1>16. Keeps(<<c>>)
  BY <1>5, <1>11, <1>13, <1>14, <1>15 DEF Keeps, ValuesKept
<1>17. UNCHANGED <<known, restoring, engine, enables, world, has>>
  BY <1>6 DEF adapterVars
<1> QED
  BY <1>1, <1>7, <1>8, <1>9, <1>10, <1>11, <1>16, <1>17 DEF Handled

----------------------------------------------------------------------------
(* The handlers that set constellations and satellites.                       *)

SvCalls == {"resetConstellations", "setBlacklist", "setConstellations"}
OnlySv(L) == \A i \in DOMAIN L : L[i].call \in SvCalls
Unbarred(L) ==
  \A i \in DOMAIN L : L[i].call = "setConstellations" => L[i].types.blacklisted = {}

LEMMA OnlySvConcat ==
  ASSUME NEW L \in Seq(Call), NEW M \in Seq(Call)
  PROVE  /\ L \o M \in Seq(Call)
         /\ OnlySv(L) /\ OnlySv(M) => OnlySv(L \o M)
         /\ Unbarred(L) /\ Unbarred(M) => Unbarred(L \o M)
<1>1. \A i \in DOMAIN (L \o M) : \/ i \in DOMAIN L /\ (L \o M)[i] = L[i]
                                 \/ i - Len(L) \in DOMAIN M /\ (L \o M)[i] = M[i - Len(L)]
  BY ConcatCases
<1> QED
  BY <1>1 DEF OnlySv, Unbarred

LEMMA OnlySvIs ==
  ASSUME NEW L, OnlySv(L)
  PROVE  Ordinary(L) /\ Quiet(L, "lock") /\ \A s \in Kept : Quiet(L, s)
  BY DEF OnlySv, SvCalls, Ordinary, Quiet, Sets, Kept

LEMMA OnlySvOne ==
  ASSUME NEW c \in Call, c.call \in SvCalls
  PROVE  /\ <<c>> \in Seq(Call) /\ OnlySv(<<c>>)
         /\ c.call # "setConstellations" => Unbarred(<<c>>)
         /\ c.call = "setConstellations" /\ c.types.blacklisted = {} => Unbarred(<<c>>)
<1>1. <<c>> \in Seq(Call) /\ DOMAIN <<c>> = {1} /\ <<c>>[1] = c
  OBVIOUS
<1> QED
  BY <1>1 DEF OnlySv, Unbarred

LEMMA ResetIs ==
  /\ ResetConstellations \in Seq(Call) /\ OnlySv(ResetConstellations) /\ Unbarred(ResetConstellations)
  /\ Quiet(ResetConstellations, "blacklist")
  /\ \A base, x : ~EndsWith(ResetConstellations, base, x)
<1> DEFINE c == [call |-> "resetConstellations"]
<1>1. c \in Call /\ c.call = "resetConstellations" /\ ResetConstellations = <<c>>
  BY DEF Call, ResetConstellations
<1>2. ~Sets(c, "blacklist") /\ Clears(c) /\ \A x : ~Adds(c, x)
  BY <1>1 DEF Sets, Clears, Adds
<1> HIDE DEF c
<1>3. <<c>> \in Seq(Call) /\ OnlySv(<<c>>) /\ Unbarred(<<c>>)
  BY <1>1, OnlySvOne DEF SvCalls
<1>4. Quiet(<<c>>, "blacklist")
  BY <1>1, <1>2, OneCall
<1>5. \A base, x : ~EndsWith(<<c>>, base, x)
  BY <1>2, EndsWithOne
<1> QED
  BY <1>1, <1>3, <1>4, <1>5

LEMMA BlacklistIs ==
  ASSUME NEW B \in SUBSET Satellites
  PROVE  /\ SetBlacklist(B) \in Seq(Call) /\ OnlySv(SetBlacklist(B)) /\ Unbarred(SetBlacklist(B))
         /\ \A V : B \in V => Brings(SetBlacklist(B), "blacklist", V)
         /\ \A base, x : EndsWith(SetBlacklist(B), base, x) <=> x \in base
<1> DEFINE c == [call |-> "setBlacklist", svs |-> B]
<1>1. c \in Call /\ c.call = "setBlacklist" /\ c.svs = B /\ SetBlacklist(B) = <<c>>
  BY DEF Call, SetBlacklist
<1>2. Sets(c, "blacklist") /\ To(c, "blacklist") = B /\ ~Clears(c) /\ \A x : ~Adds(c, x)
  BY <1>1 DEF Sets, To, Clears, Adds
<1> HIDE DEF c
<1>3. <<c>> \in Seq(Call) /\ OnlySv(<<c>>) /\ Unbarred(<<c>>)
  BY <1>1, OnlySvOne DEF SvCalls
<1>4. \A V : B \in V => Brings(<<c>>, "blacklist", V)
  BY <1>1, <1>2, OneCall
<1>5. \A base, x : EndsWith(<<c>>, base, x) <=> x \in base
  BY <1>2, EndsWithOne
<1> QED
  BY <1>1, <1>3, <1>4, <1>5

LEMMA ConstellationsAre ==
  ASSUME NEW t \in SvTypes
  PROVE  /\ SetConstellations(t) \in Seq(Call) /\ OnlySv(SetConstellations(t))
         /\ t.blacklisted = {} => Unbarred(SetConstellations(t))
         /\ Quiet(SetConstellations(t), "blacklist")
         /\ \A base, x : EndsWith(SetConstellations(t), base, x) <=> x \in t.enabled \/ x \in base
<1> DEFINE c == [call |-> "setConstellations", types |-> t]
<1>1. c \in Call /\ c.call = "setConstellations" /\ c.types = t /\ SetConstellations(t) = <<c>>
  BY DEF Call, SetConstellations
<1>2. ~Sets(c, "blacklist") /\ ~Clears(c) /\ \A x : Adds(c, x) <=> x \in t.enabled
  BY <1>1 DEF Sets, Clears, Adds
<1> HIDE DEF c
<1>3. <<c>> \in Seq(Call) /\ OnlySv(<<c>>) /\ (t.blacklisted = {} => Unbarred(<<c>>))
  BY <1>1, OnlySvOne DEF SvCalls
<1>4. Quiet(<<c>>, "blacklist")
  BY <1>1, <1>2, OneCall
<1>5. \A base, x : EndsWith(<<c>>, base, x) <=> x \in t.enabled \/ x \in base
  BY <1>2, EndsWithOne
<1> QED
  BY <1>1, <1>3, <1>4, <1>5

LEMMA NothingIs ==
  /\ <<>> \in Seq(Call) /\ OnlySv(<<>>) /\ Unbarred(<<>>) /\ Quiet(<<>>, "blacklist")
  /\ \A base, x : EndsWith(<<>>, base, x) <=> x \in base
<1>1. <<>> \in Seq(Call) /\ DOMAIN <<>> = {}
  OBVIOUS
<1> QED
  BY <1>1 DEF OnlySv, Unbarred, Quiet, EndsWith

(* gnssSvTypeConfigUpdate: the constellations enabled in the end are those of *)
(* t, and those enabled before unless they are reset; the blacklist sent is   *)
(* one that fits the setting.                                                 *)
SvTypesKept(L, t, reset) ==
  /\ L \in Seq(Call) /\ OnlySv(L) /\ Unbarred(L)
  /\ Brings(L, "blacklist", Blacklists(ids, <<t>>))
  /\ \A base, x : EndsWith(L, base, x) <=> x \in t.enabled \/ (~reset /\ x \in base)

LEMMA DisabledFits ==
  ASSUME NEW t \in SvTypes, ids \in SUBSET Satellites
  PROVE  /\ ids \cup DisabledBy(t) \in SUBSET Satellites
         /\ ids \cup DisabledBy(t) \in Blacklists(ids, <<t>>)
<1>1. <<t>> # <<>> /\ <<t>>[1] = t
  OBVIOUS
<1>2. Allowed(<<t>>) = Satellites \ DisabledBy(t)
  BY <1>1 DEF Allowed
<1>3. ids \cup DisabledBy(t) \in SUBSET Satellites
  BY DEF DisabledBy
<1> QED
  BY <1>2, <1>3 DEF Blacklists

LEMMA SvTypeCallsKept ==
  ASSUME NEW t \in SvTypes, NEW reset \in BOOLEAN, ids \in SUBSET Satellites
  PROVE  SvTypesKept(SvTypeCalls(<<t>>, reset), t, reset)
<1> DEFINE R == IF reset THEN ResetConstellations ELSE <<>>
           D == ids \cup DisabledBy(t)
           B == SetBlacklist(D)
           e == [NoTypes EXCEPT !.enabled = t.enabled]
           C == IF t.enabled = {} THEN <<>> ELSE SetConstellations(e)
<1>1. SvTypeCalls(<<t>>, reset) = (R \o B) \o C
  <2>1. <<t>> # <<>> /\ <<t>>[1] = t
    OBVIOUS
  <2> QED
    BY <2>1 DEF SvTypeCalls
<1>2. /\ R \in Seq(Call) /\ OnlySv(R) /\ Unbarred(R)
      /\ \A base, x : EndsWith(R, base, x) <=> ~reset /\ x \in base
  BY ResetIs, NothingIs
<1>3. D \in SUBSET Satellites /\ D \in Blacklists(ids, <<t>>)
  BY DisabledFits
<1>4. e \in SvTypes /\ e.enabled = t.enabled /\ e.blacklisted = {}
  BY DEF SvTypes, NoTypes
<1> HIDE DEF D, e
<1>5. /\ B \in Seq(Call) /\ OnlySv(B) /\ Unbarred(B)
      /\ Brings(B, "blacklist", Blacklists(ids, <<t>>))
      /\ \A base, x : EndsWith(B, base, x) <=> x \in base
  BY <1>3, BlacklistIs
<1>6. /\ C \in Seq(Call) /\ OnlySv(C) /\ Unbarred(C) /\ Quiet(C, "blacklist")
      /\ \A base, x : EndsWith(C, base, x) <=> x \in t.enabled \/ x \in base
  <2>1. CASE t.enabled = {}
    BY <2>1, NothingIs
  <2>2. CASE t.enabled # {}
    BY <1>4, <2>2, ConstellationsAre
  <2> QED
    BY <2>1, <2>2
<1> HIDE DEF R, B, C
<1>7. R \o B \in Seq(Call) /\ OnlySv(R \o B) /\ Unbarred(R \o B)
  BY <1>2, <1>5, OnlySvConcat
<1>8. Brings(R \o B, "blacklist", Blacklists(ids, <<t>>))
  BY <1>2, <1>5, BringsLast
<1>9. \A base, x : EndsWith(R \o B, base, x) <=> ~reset /\ x \in base
  <2> TAKE base, x
  <2> DEFINE mid == IF reset THEN {} ELSE base
  <2>1. x \in mid <=> EndsWith(R, base, x)
    BY <1>2
  <2> HIDE DEF mid
  <2>2. EndsWith(R \o B, base, x) <=> EndsWith(B, mid, x)
    BY <1>2, <1>5, <2>1, EndsWithConcat
  <2> QED
    BY <1>2, <1>5, <2>1, <2>2
<1> DEFINE M == R \o B
<1> HIDE DEF M
<1>10. M \o C \in Seq(Call) /\ OnlySv(M \o C) /\ Unbarred(M \o C)
  BY <1>6, <1>7, OnlySvConcat DEF M
<1>11. Brings(M \o C, "blacklist", Blacklists(ids, <<t>>))
  <2>1. M \in Seq(Call) /\ Brings(M, "blacklist", Blacklists(ids, <<t>>))
    BY <1>7, <1>8 DEF M
  <2> QED
    BY <1>6, <2>1, BringsFirst
<1>12. \A base, x : EndsWith(M \o C, base, x) <=> x \in t.enabled \/ (~reset /\ x \in base)
  <2> TAKE base, x
  <2> DEFINE mid == IF reset THEN {} ELSE base
  <2>1. M \in Seq(Call) /\ (x \in mid <=> EndsWith(M, base, x))
    BY <1>7, <1>9 DEF M
  <2>2. x \in mid <=> ~reset /\ x \in base
    OBVIOUS
  <2> HIDE DEF mid
  <2>3. EndsWith(M \o C, base, x) <=> EndsWith(C, mid, x)
    BY <1>6, <2>1, EndsWithConcat
  <2> QED
    BY <1>6, <2>2, <2>3
<1> QED
  BY <1>1, <1>10, <1>11, <1>12 DEF SvTypesKept, M

(* A handler that posts calls L about satellites.                             *)
LEMMA SvHandled ==
  ASSUME TypeOK, MailSuits, NEW L \in Seq(Call), OnlySv(L), api' = api \o L,
         Takes, Head(queue).kind # "measCorr",
         UNCHANGED <<known, restoring, lockVars, engine, enables, world, pending>>, UNCHANGED settingVars,
         types' \in Maybe(SvTypes), ids' \in SUBSET Satellites, svIds' \in SUBSET Satellites,
         BlacklistKept(L), ConstellationsKept(L)
  PROVE  Handled
<1>1. Ordinary(L) /\ Quiet(L, "lock") /\ \A s \in Kept : Quiet(L, s)
  BY OnlySvIs
<1>2. LockKept(L)
  BY <1>1 DEF LockKept, ExpectedLock, lockVars
<1>3. ValuesKept(L)
  BY <1>1 DEF ValuesKept, ValueKept, settingVars, askVars
<1>4. Keeps(L)
  BY <1>1, <1>2, <1>3 DEF Keeps
<1>5. PendingKept /\ CorrKept
  BY DEF PendingKept, CorrKept, settingVars, ownVars
<1>6. SettingsTyped' /\ AsksTyped' /\ OwnTyped' /\ has' = has
  BY DEF TypeOK, SettingsTyped, AsksTyped, OwnTyped, settingVars, askVars, ownVars
<1>7. AdapterTyped' /\ (world.framework = "Q" => nfw')
  BY DEF TypeOK, AdapterTyped, MailSuits, lockVars
<1> QED
  BY <1>4, <1>5, <1>6, <1>7 DEF Handled

LEMMA SvTypeConfigHandled ==
  ASSUME TypeOK, MailSuits, UpdateSvTypeConfig, UNCHANGED settingVars
  PROVE  Handled
<1> DEFINE t == Head(queue).types
           L == SvTypeCalls(<<t>>, Removes(t))
<1>1. Takes /\ Head(queue).kind = "svTypes"
  BY DEF UpdateSvTypeConfig, Handles, Takes
<1>2. t \in SvTypes
  BY <1>1, HeadTyped, MessageFields DEF Takes
<1>3. UNCHANGED <<known, restoring, lockVars, ids, svIds, engine, enables, world, pending>>
  BY DEF UpdateSvTypeConfig
<1>4. CASE world.supported
  <2>1. types' = <<t>> /\ api' = api \o L
    BY <1>4 DEF UpdateSvTypeConfig, PostCalls
  <2>2. SvTypesKept(L, t, Removes(t))
    BY <1>2, SvTypeCallsKept DEF TypeOK, AdapterTyped, Removes
  <2> HIDE DEF L
  <2>3. BlacklistKept(L)
    BY <1>4 DEF BlacklistKept
  <2>4. ConstellationsKept(L)
    <3>1. Enabled(types') = t.enabled
      <4>1. types' # <<>> /\ types'[1] = t
        BY <2>1
      <4> QED
        BY <4>1 DEF Enabled
    <3>2. ~Removes(t) => Enabled(types) \subseteq t.enabled
      BY DEF Removes
    <3> QED
      BY <2>2, <3>1, <3>2 DEF ConstellationsKept, SvTypesKept, Unbarred
  <2>5. types' \in Maybe(SvTypes)
    BY <1>2, <2>1, MaybeOf
  <2>6. ids' \in SUBSET Satellites /\ svIds' \in SUBSET Satellites
    BY <1>3 DEF TypeOK, AdapterTyped
  <2> QED
    BY <1>1, <1>3, <2>1, <2>2, <2>3, <2>4, <2>5, <2>6, SvHandled DEF SvTypesKept
<1>5. CASE ~world.supported
  <2>1. UNCHANGED <<svVars, api>>
    BY <1>3, <1>5 DEF UpdateSvTypeConfig, svVars
  <2> QED
    BY <1>1, <1>3, <2>1, IdleHandled
<1> QED
  BY <1>4, <1>5

LEMMA ResetSvTypeConfigHandled ==
  ASSUME TypeOK, MailSuits, ResetSvTypeConfig, UNCHANGED settingVars
  PROVE  Handled
<1> DEFINE B == SetBlacklist(ids)
           L == B \o ResetConstellations
<1>1. Takes /\ Head(queue).kind = "resetSvTypes"
  BY DEF ResetSvTypeConfig, Handles, Takes
<1>3. UNCHANGED <<known, restoring, lockVars, ids, svIds, engine, enables, world, pending>>
  BY DEF ResetSvTypeConfig
<1>4. CASE world.supported
  <2>1. types' = <<NoTypes>> /\ api' = api \o L
    BY <1>4 DEF ResetSvTypeConfig, PostCalls
  <2>2. B \in Seq(Call) /\ OnlySv(B) /\ Unbarred(B)
    BY BlacklistIs DEF TypeOK, AdapterTyped
  <2> HIDE DEF B
  <2>3. L \in Seq(Call) /\ OnlySv(L) /\ Unbarred(L)
    BY <2>2, ResetIs, OnlySvConcat
  <2>4. \A x : ~EndsWith(L, Enabled(types), x)
    <3> TAKE x
    <3> DEFINE mid == IF EndsWith(B, Enabled(types), x) THEN {x} ELSE {}
    <3>1. x \in mid <=> EndsWith(B, Enabled(types), x)
      OBVIOUS
    <3> HIDE DEF mid
    <3>2. EndsWith(L, Enabled(types), x) <=> EndsWith(ResetConstellations, mid, x)
      BY <2>2, <3>1, ResetIs, EndsWithConcat
    <3> QED
      BY <3>2, ResetIs
  <2> HIDE DEF L
  <2>5. BlacklistKept(L)
    BY <1>4 DEF BlacklistKept
  <2>6. ConstellationsKept(L)
    <3>1. Enabled(types') = {}
      <4>1. types' # <<>> /\ types'[1] = NoTypes
        BY <2>1
      <4> QED
        BY <4>1 DEF Enabled, NoTypes
    <3> QED
      BY <2>3, <2>4, <3>1 DEF ConstellationsKept, Unbarred
  <2>7. types' \in Maybe(SvTypes)
    <3>1. NoTypes \in SvTypes
      BY DEF NoTypes, SvTypes
    <3> QED
      BY <2>1, <3>1, MaybeOf
  <2>8. ids' \in SUBSET Satellites /\ svIds' \in SUBSET Satellites
    BY <1>3 DEF TypeOK, AdapterTyped
  <2> QED
    BY <1>1, <1>3, <2>1, <2>3, <2>5, <2>6, <2>7, <2>8, SvHandled
<1>5. CASE ~world.supported
  <2>1. UNCHANGED <<svVars, api>>
    BY <1>3, <1>5 DEF ResetSvTypeConfig, svVars
  <2> QED
    BY <1>1, <1>3, <2>1, IdleHandled
<1> QED
  BY <1>4, <1>5

LEMMA SvConfigHandled ==
  ASSUME TypeOK, MailSuits, UpdateSvConfig, UNCHANGED settingVars
  PROVE  Handled
<1> DEFINE m == Head(queue)
           R == IF Removes(m.types[1]) THEN ResetConstellations ELSE <<>>
           S == SetConstellations(IF types = <<>> THEN NoTypes ELSE types[1])
           A == IF m.types = <<>> THEN ResetConstellations ELSE R \o S
           B == SetBlacklist(m.svs)
           L == A \o B
<1>1. Takes /\ m.kind = "svConfig"
  BY DEF UpdateSvConfig, Handles, Takes
<1>2. m.types \in Maybe(SvTypes) /\ m.svs \in SUBSET Satellites /\ world.integration
  BY <1>1, HeadTyped, MessageFields DEF Takes, Suits
<1>3. UNCHANGED <<known, restoring, lockVars, engine, enables, world, pending>>
  BY DEF UpdateSvConfig
<1>4. types' = m.types /\ ids' = m.svs /\ svIds' = m.svs /\ api' = api \o L
  BY DEF UpdateSvConfig, PostCalls
<1>5. S \in Seq(Call) /\ OnlySv(S)
  <2>1. NoTypes \in SvTypes
    BY DEF NoTypes, SvTypes
  <2>2. types # <<>> => types[1] \in SvTypes
    BY MaybeSome DEF TypeOK, AdapterTyped
  <2> QED
    BY <2>1, <2>2, ConstellationsAre
<1>6. R \in Seq(Call) /\ OnlySv(R)
  BY ResetIs, NothingIs
<1> HIDE DEF R, S
<1>7. A \in Seq(Call) /\ OnlySv(A)
  BY <1>5, <1>6, ResetIs, OnlySvConcat
<1>8. m.svs \in Blacklists(ids', types')
  BY <1>2, <1>4 DEF Blacklists
<1>9. B \in Seq(Call) /\ OnlySv(B) /\ Brings(B, "blacklist", Blacklists(ids', types'))
  BY <1>2, <1>8, BlacklistIs
<1> HIDE DEF A, B
<1>10. L \in Seq(Call) /\ OnlySv(L)
  BY <1>7, <1>9, OnlySvConcat
<1>11. BlacklistKept(L)
  BY <1>7, <1>9, BringsLast DEF BlacklistKept
<1>12. ConstellationsKept(L)
  BY <1>2 DEF ConstellationsKept
<1> HIDE DEF L
<1> QED
  BY <1>1, <1>2, <1>3, <1>4, <1>10, <1>11, <1>12, SvHandled

----------------------------------------------------------------------------
(* Every handler but the engine's coming up.                                  *)

LEMMA HandlersHandled ==
  ASSUME TypeOK, MailSuits,
         \/ AdapterStep /\ ~RestoreSvConfig /\ UNCHANGED settingVars
         \/ SettingHandlers
  PROVE  Handled
<1>1. CASE AdapterStep /\ ~RestoreSvConfig /\ UNCHANGED settingVars
  <2>1. CASE Wait
    BY <1>1, <2>1, WaitHandled
  <2>2. CASE UpdateConfig
    BY <1>1, <2>2, UpdateConfigHandled
  <2>3. CASE UpdateSvTypeConfig
    BY <1>1, <2>3, SvTypeConfigHandled
  <2>4. CASE ResetSvTypeConfig
    BY <1>1, <2>4, ResetSvTypeConfigHandled
  <2>5. CASE UpdateSvConfig
    BY <1>1, <2>5, SvConfigHandled
  <2>6. CASE EnableGnss
    BY <1>1, <2>6, EnableHandled
  <2>7. CASE DisableGnss
    BY <1>1, <2>7, DisableHandled
  <2>8. CASE ControlNfw
    BY <1>1, <2>8, ControlNfwHandled
  <2> QED
    BY <1>1, <2>1, <2>2, <2>3, <2>4, <2>5, <2>6, <2>7, <2>8 DEF AdapterStep
<1>2. CASE SettingHandlers
  <2>1. CASE SetConstrainedTunc \/ SetPositionAssistedClockEstimator
    BY <2>1, SetHandled DEF SetConstrainedTunc, SetPositionAssistedClockEstimator, Kept
  <2>2. CASE ConfigLeverArm \/ ConfigDeadReckoningEngineParams \/ ConfigEngineRunState \/ HandleLocApiResponse
    <3>1. \E kinds : AnswerFor(kinds) /\ kinds \subseteq AskKinds \cup {"response"}
      BY <2>2 DEF ConfigLeverArm, ConfigDeadReckoningEngineParams, ConfigEngineRunState,
                  HandleLocApiResponse, AskKinds
    <3> QED
      BY <3>1, AnswerHandled
  <2>3. CASE \/ ConfigUnserved \/ UpdateSystemPowerState \/ SetMeasurementCorrections
             \/ ReportGnssAntennaInformation \/ ReportGnssSvIdConfig
    <3>1. \E kinds : Ignored(kinds) /\ "engineUp" \notin kinds /\ "measCorr" \notin kinds
      BY <2>3 DEF ConfigUnserved, UpdateSystemPowerState, SetMeasurementCorrections,
                  ReportGnssAntennaInformation, ReportGnssSvIdConfig
    <3> QED
      BY <3>1, IgnoredHandled
  <2>4. CASE DeleteAidingData
    BY <2>4, DeleteHandled
  <2>5. CASE GetConfig
    BY <2>5, GetHandled
  <2>6. CASE InitMeasCorr
    BY <2>6, InitMeasCorrHandled
  <2>7. CASE InjectLocation \/ InjectTime
    BY <2>7, InjectHandled
  <2>8. CASE BlockCPI
    BY <2>8, BlockHandled
  <2> QED
    BY <1>2, <2>1, <2>2, <2>3, <2>4, <2>5, <2>6, <2>7, <2>8 DEF SettingHandlers
<1> QED
  BY <1>1, <1>2

----------------------------------------------------------------------------
(* The callers' threads: a message arrives, or a caller looks or waits.       *)

Arrives(m) ==
  queue' = Append(queue, m) /\ m \in Message /\ Suits(m) /\ m.kind # "engineUp"

CorrArrives ==
  /\ world.supported => corr'.told \subseteq corr.told
  /\ corr'.open /\ ~corr'.looking /\ corr'.told = {} =>
       \/ corr.open /\ ~corr.looking /\ corr.told = {}
       \/ ~known
       \/ \E m : Arrives(m) /\ m.kind = "measCorr"

Calling ==
  /\ UNCHANGED <<adapterVars, api, engine, world, stored, has, asked, raced>>
  /\ UNCHANGED queue \/ \E m : Arrives(m)
  /\ CorrArrives
  /\ enables' \in Nat /\ AsksTyped' /\ OwnTyped'

LEMMA ClientCalling ==
  ASSUME TypeOK, MailSuits, ClientStep, UNCHANGED settingVars
  PROVE  Calling
<1>1. CorrArrives /\ AsksTyped' /\ OwnTyped' /\ UNCHANGED <<stored, has, asked, raced>>
  BY DEF CorrArrives, TypeOK, AsksTyped, OwnTyped, settingVars, askVars, ownVars
<1>2. enables \in Nat
  BY DEF TypeOK, WorldTyped
<1>3. ASSUME NEW l \in Maybe(LockConfigs), NEW svs \in Maybe(SvIdConfigs), GnssUpdateConfigCommand(l, svs)
      PROVE  Calling
  <2> DEFINE m == [kind |-> "update", lock |-> l, svs |-> svs]
  <2>1. l \in Maybe(Lock) /\ svs \in Maybe(SUBSET Satellites)
    BY ConfigsAssumption DEF Maybe
  <2>2. m \in Message
    BY <2>1 DEF Message
  <2>3. Suits(m)
    BY <1>3 DEF Suits, GnssUpdateConfigCommand
  <2>4. Arrives(m)
    BY <1>3, <2>2, <2>3 DEF Arrives, GnssUpdateConfigCommand, Send
  <2> QED
    BY <1>1, <1>2, <1>3, <2>4 DEF Calling, GnssUpdateConfigCommand
<1>4. ASSUME NEW t \in SvTypeConfigs, SvTypeCommand(t)
      PROVE  Calling
  <2> DEFINE m == [kind |-> "svTypes", types |-> t]
  <2>1. t \in SvTypes
    BY ConfigsAssumption
  <2>2. m \in Message
    BY <2>1 DEF Message
  <2>3. Suits(m)
    BY DEF Suits
  <2>4. Arrives(m)
    BY <1>4, <2>2, <2>3 DEF Arrives, SvTypeCommand, Send
  <2> QED
    BY <1>1, <1>2, <1>4, <2>4 DEF Calling, SvTypeCommand
<1>5. ASSUME NEW t \in Maybe(SvTypeConfigs), NEW svs \in SvIdConfigs, SvConfigCommand(t, svs)
      PROVE  Calling
  <2> DEFINE m == [kind |-> "svConfig", types |-> t, svs |-> svs]
  <2>1. t \in Maybe(SvTypes) /\ svs \in SUBSET Satellites
    BY ConfigsAssumption DEF Maybe
  <2>2. m \in Message
    BY <2>1 DEF Message
  <2>3. Suits(m)
    BY <1>5 DEF Suits, SvConfigCommand
  <2>4. Arrives(m)
    BY <1>5, <2>2, <2>3 DEF Arrives, SvConfigCommand, Send
  <2> QED
    BY <1>1, <1>2, <1>5, <2>4 DEF Calling, SvConfigCommand
<1>6. ASSUME NEW allow \in BOOLEAN, NfwControlCommand(allow)
      PROVE  Calling
  <2> DEFINE m == [kind |-> "nfw", allow |-> allow]
  <2>1. m \in Message
    BY DEF Message
  <2>2. Suits(m)
    BY <1>6 DEF Suits, NfwControlCommand
  <2>3. Arrives(m)
    BY <1>6, <2>1, <2>2 DEF Arrives, NfwControlCommand, Send
  <2> QED
    BY <1>1, <1>2, <1>6, <2>3 DEF Calling, NfwControlCommand
<1>7. CASE ResetSvTypeCommand
  <2> DEFINE m == [kind |-> "resetSvTypes"]
  <2>1. m \in Message
    BY DEF Message, PlainKinds
  <2>2. Suits(m)
    BY DEF Suits
  <2>3. Arrives(m)
    BY <1>7, <2>1, <2>2 DEF Arrives, ResetSvTypeCommand, Send
  <2> QED
    BY <1>1, <1>2, <1>7, <2>3 DEF Calling, ResetSvTypeCommand
<1>8. CASE EnableCommand
  <2> DEFINE m == [kind |-> "enable", id |-> enables']
  <2>1. enables' = enables + 1
    BY <1>8 DEF EnableCommand
  <2>2. m \in Message
    BY <1>2, <2>1 DEF Message
  <2>3. Suits(m)
    BY DEF Suits
  <2>4. Arrives(m)
    BY <1>8, <2>2, <2>3 DEF Arrives, EnableCommand, Send
  <2> QED
    BY <1>1, <1>2, <1>8, <2>1, <2>4 DEF Calling, EnableCommand
<1>9. CASE DisableCommand
  <2>1. PICK id \in 1..enables : Send([kind |-> "disable", id |-> id])
    BY <1>9 DEF DisableCommand
  <2> DEFINE m == [kind |-> "disable", id |-> id]
  <2>2. m \in Message
    BY <1>2 DEF Message
  <2>3. Suits(m)
    BY DEF Suits
  <2>4. Arrives(m)
    BY <2>1, <2>2, <2>3 DEF Arrives, Send
  <2> QED
    BY <1>1, <1>2, <1>9, <2>4 DEF Calling, DisableCommand
<1> QED
  BY <1>3, <1>4, <1>5, <1>6, <1>7, <1>8, <1>9 DEF ClientStep

LEMMA AskCalling ==
  ASSUME TypeOK, MailSuits, NEW r \in Request, Ask(r)
  PROVE  Calling
<1> DEFINE m == [kind |-> r.kind, ask |-> r, id |-> Len(asks) + 1]
<1>1. asks \in Seq(Request) /\ Len(asks) + 1 \in Nat \ {0}
  BY DEF TypeOK, AsksTyped
<1>2. m \in Message
  <2>1. CASE r \in SetRequest
    BY <1>1, <2>1 DEF Message, SetRequest
  <2>2. CASE r \notin SetRequest
    <3>1. r.kind \in AskKinds
      BY <2>2 DEF Request, AskKinds
    <3> QED
      BY <1>1, <3>1 DEF Message
  <2> QED
    BY <2>1, <2>2
<1>3. r.kind \in AskKinds \cup {"set"}
  BY DEF Request, SetRequest, AskKinds
<1>4. m.kind = r.kind
  OBVIOUS
<1>5. Suits(m) /\ m.kind # "engineUp"
  BY <1>3, <1>4 DEF Suits, AskKinds
<1>6. Arrives(m)
  BY <1>2, <1>5 DEF Arrives, Ask, Send
<1>7. AsksTyped' /\ OwnTyped' /\ CorrArrives
  BY <1>1 DEF Ask, TypeOK, AsksTyped, OwnTyped, CorrArrives, ownVars
<1>8. enables' \in Nat /\ UNCHANGED <<adapterVars, api, engine, world, stored, has, asked, raced>>
  BY DEF Ask, KeepAdapter, TypeOK, WorldTyped
<1> QED
  BY <1>6, <1>7, <1>8 DEF Calling

LEMMA PostCalling ==
  ASSUME TypeOK, MailSuits, NEW m \in Message, Post(m), Suits(m), m.kind # "engineUp"
  PROVE  Calling
<1>1. Arrives(m)
  BY DEF Arrives, Post, Send
<1>2. AsksTyped' /\ OwnTyped' /\ CorrArrives
  BY DEF Post, TypeOK, AsksTyped, OwnTyped, CorrArrives, ownVars, askVars
<1>3. enables' \in Nat /\ UNCHANGED <<adapterVars, api, engine, world, stored, has, asked, raced>>
  BY DEF Post, KeepAdapter, TypeOK, WorldTyped, askVars
<1> QED
  BY <1>1, <1>2, <1>3 DEF Calling

LEMMA CorrCalling ==
  ASSUME TypeOK, MailSuits,
         OpenMeasCorrCommand \/ OpenMeasCorrLooks \/ CloseMeasCorrCommand
  PROVE  Calling
<1>1. AsksTyped' /\ enables' \in Nat /\ UNCHANGED <<adapterVars, api, engine, world, stored, has, asked, raced>>
  BY DEF OpenMeasCorrCommand, OpenMeasCorrLooks, CloseMeasCorrCommand, KeepAdapter, TypeOK, AsksTyped,
         WorldTyped, askVars
<1>2. corr \in Corr
  BY DEF TypeOK, OwnTyped
<1>3. CASE OpenMeasCorrCommand
  <2>1. corr' = [open |-> TRUE, looking |-> TRUE, told |-> {}] /\ queue' = queue
    BY <1>3 DEF OpenMeasCorrCommand
  <2>2. OwnTyped'
    BY <1>3, <2>1 DEF OpenMeasCorrCommand, TypeOK, OwnTyped, Corr
  <2>3. CorrArrives
    BY <2>1 DEF CorrArrives
  <2> QED
    BY <1>1, <2>1, <2>2, <2>3 DEF Calling
<1>4. CASE CloseMeasCorrCommand
  <2>1. corr' = [corr EXCEPT !.open = FALSE] /\ queue' = queue
    BY <1>4 DEF CloseMeasCorrCommand
  <2>2. OwnTyped'
    BY <1>2, <1>4, <2>1 DEF CloseMeasCorrCommand, TypeOK, OwnTyped, Corr
  <2>3. CorrArrives
    BY <1>2, <2>1 DEF CorrArrives, Corr
  <2> QED
    BY <1>1, <2>1, <2>2, <2>3 DEF Calling
<1>5. CASE OpenMeasCorrLooks
  <2>1. /\ corr' = [corr EXCEPT !.looking = FALSE,
                                !.told = IF known /\ ~world.supported THEN @ \cup {"refused"} ELSE @]
        /\ queue' = IF known /\ world.supported
                    THEN Append(queue, [kind |-> "measCorr", mask |-> "all"]) ELSE queue
    BY <1>5 DEF OpenMeasCorrLooks
  <2>2. OwnTyped'
    BY <1>2, <1>5, <2>1 DEF OpenMeasCorrLooks, TypeOK, OwnTyped, Corr
  <2> DEFINE m == [kind |-> "measCorr", mask |-> "all"]
  <2>3. m \in Message /\ (world.supported => Suits(m))
    BY DEF Message, Suits, MeasCorrCapabilities
  <2>4. known /\ world.supported => Arrives(m)
    BY <2>1, <2>3 DEF Arrives
  <2>5. UNCHANGED queue \/ \E x : Arrives(x)
    BY <2>1, <2>4
  <2>6. /\ corr'.open = corr.open
        /\ corr'.told = IF known /\ ~world.supported THEN corr.told \cup {"refused"} ELSE corr.told
    BY <1>2, <2>1 DEF Corr
  <2>7. CorrArrives
    <3>1. m.kind = "measCorr"
      OBVIOUS
    <3> HIDE DEF m
    <3> QED
      BY <2>4, <2>6, <3>1 DEF CorrArrives
  <2> QED
    BY <1>1, <2>2, <2>5, <2>7 DEF Calling
<1> QED
  BY <1>3, <1>4, <1>5

LEMMA AntennaCalling ==
  ASSUME TypeOK, MailSuits, AntennaInfoInitCommand \/ AntennaInfoCloseCommand
  PROVE  Calling
<1>1. AsksTyped' /\ enables' \in Nat /\ UNCHANGED <<adapterVars, api, engine, world, stored, has, asked, raced>>
  BY DEF AntennaInfoInitCommand, AntennaInfoCloseCommand, KeepAdapter, TypeOK, AsksTyped,
         WorldTyped, askVars
<1>2. OwnTyped' /\ CorrArrives
  BY DEF AntennaInfoInitCommand, AntennaInfoCloseCommand, TypeOK, OwnTyped, CorrArrives
<1> DEFINE m == [kind |-> "antenna"]
<1>3. m \in Message /\ Suits(m) /\ m.kind # "engineUp"
  BY DEF Message, PlainKinds, Suits
<1>4. AntennaInfoInitCommand => Arrives(m)
  BY <1>3 DEF AntennaInfoInitCommand, Send, Arrives
<1>5. AntennaInfoCloseCommand => UNCHANGED queue
  BY DEF AntennaInfoCloseCommand
<1> HIDE DEF m
<1> QED
  BY <1>1, <1>2, <1>4, <1>5 DEF Calling

LEMMA TickCalling ==
  ASSUME TypeOK, MailSuits, Tick
  PROVE  Calling
  BY DEF Tick, Calling, KeepAdapter, TypeOK, AsksTyped, OwnTyped, WorldTyped, CorrArrives, askVars, ownVars

LEMMA SettingsCalling ==
  ASSUME TypeOK, MailSuits, SettingCommands
  PROVE  Calling
<1>1. CASE \E r \in Request : Ask(r)
  BY <1>1, AskCalling
<1>2. CASE \E m \in Message : Post(m) /\ Suits(m) /\ m.kind # "engineUp"
  BY <1>2, PostCalling
<1>3. CASE OpenMeasCorrCommand \/ CloseMeasCorrCommand
  BY <1>3, CorrCalling
<1>4. CASE AntennaInfoInitCommand \/ AntennaInfoCloseCommand
  BY <1>4, AntennaCalling
<1>5. CASE Tick
  BY <1>5, TickCalling
<1>6. CASE MeasCorrSetCorrectionsCommand
  <2> DEFINE m == [kind |-> "corrections"]
  <2>1. m \in Message /\ Suits(m) /\ m.kind # "engineUp"
    BY DEF Message, PlainKinds, Suits
  <2>2. Post(m)
    BY <1>6 DEF MeasCorrSetCorrectionsCommand, Post
  <2> QED
    BY <2>1, <2>2, <1>2
<1>7. CASE Looks("values") /\ \E v \in Values : \/ SetConstrainedTuncCommand(v)
                                                 \/ SetPositionAssistedClockEstimatorCommand(v)
  <2>1. PICK v \in Values : SetConstrainedTuncCommand(v) \/ SetPositionAssistedClockEstimatorCommand(v)
    BY <1>7
  <2>2. \A s \in Kept : [kind |-> "set", setting |-> s, value |-> v] \in Request
    BY DEF Request, SetRequest
  <2>3. \E r \in Request : Ask(r)
    BY <2>1, <2>2 DEF SetConstrainedTuncCommand, SetPositionAssistedClockEstimatorCommand, Kept
  <2> QED
    BY <1>1, <2>3
<1>8. CASE \/ ConfigLeverArmCommand \/ ConfigDeadReckoningEngineParamsCommand
           \/ \E dre \in BOOLEAN : ConfigEngineRunStateCommand(dre)
           \/ \E spe \in BOOLEAN : GnssDeleteAidingDataCommand(spe)
           \/ \E flag \in GetFlags : GnssGetConfigCommand(flag)
           \/ ConfigRobustLocationCommand \/ GnssUpdateSecondaryBandConfigCommand
           \/ GnssGetSecondaryBandConfigCommand
  <2>1. /\ [kind |-> "leverArm"] \in Request /\ [kind |-> "dreParams"] \in Request
        /\ \A dre \in BOOLEAN : [kind |-> "runState", dre |-> dre] \in Request
        /\ \A spe \in BOOLEAN : [kind |-> "delete", spe |-> spe] \in Request
        /\ \A flag \in GetFlags : [kind |-> "get", flag |-> flag] \in Request
        /\ \A what \in {"robust", "band", "getBand"} : [kind |-> "unserved", what |-> what] \in Request
    BY DEF Request
  <2>2. \E r \in Request : Ask(r)
    BY <1>8, <2>1 DEF ConfigLeverArmCommand, ConfigDeadReckoningEngineParamsCommand,
      ConfigEngineRunStateCommand, GnssDeleteAidingDataCommand, GnssGetConfigCommand,
      ConfigRobustLocationCommand, GnssUpdateSecondaryBandConfigCommand, GnssGetSecondaryBandConfigCommand
  <2> QED
    BY <1>1, <2>2
<1>9. CASE \/ \E near \in BOOLEAN : InjectLocationCommand(near)
           \/ \E seconds \in 0..1 : BlockCPICommand(seconds)
           \/ InjectLocationExtCommand \/ InjectTimeCommand
           \/ UpdateSystemPowerStateCommand
  <2>1. /\ \A near \in BOOLEAN : LET m == [kind |-> "location", near |-> near]
             IN m \in Message /\ Suits(m) /\ m.kind # "engineUp"
        /\ \A seconds \in 0..1 : LET m == [kind |-> "block", till |-> second + seconds]
             IN m \in Message /\ Suits(m) /\ m.kind # "engineUp"
        /\ \A k \in {"time", "power"} : LET m == [kind |-> k]
             IN m \in Message /\ Suits(m) /\ m.kind # "engineUp"
    <3>1. second \in Nat
      BY DEF TypeOK, AsksTyped
    <3> QED
      BY <3>1 DEF Message, PlainKinds, Suits
  <2>2. \E m \in Message : Post(m) /\ Suits(m) /\ m.kind # "engineUp"
    BY <1>9, <2>1 DEF InjectLocationCommand, BlockCPICommand, InjectLocationExtCommand, InjectTimeCommand,
                      UpdateSystemPowerStateCommand
  <2> QED
    BY <1>2, <2>2
<1> QED
  BY <1>3, <1>4, <1>5, <1>6, <1>7, <1>8, <1>9 DEF SettingCommands

----------------------------------------------------------------------------
(* The LocApi's thread runs the call at the head of its queue: A is what it   *)
(* goes on with, B what it posts behind the others.                           *)

Ran(A, B) ==
  /\ api # <<>> /\ Head(api).call # "open"
  /\ A \in Seq(Call) /\ Len(A) <= 1 /\ B \in Seq(Call)
  /\ \A i \in DOMAIN A : /\ A[i].call \in {"fill", "check", "default", "send"}
                         /\ A[i].call = "fill" => world.supported /\ A[i].svs # <<>>
  /\ \A i \in DOMAIN B : B[i].call = "set" /\ B[i].id = 0
  /\ api' = (A \o Tail(api)) \o B

After(t, base) == IF Sets(Head(api), t) THEN To(Head(api), t) ELSE base

EngineRan ==
  /\ WorldTyped' /\ engine'.up = engine.up
  /\ engine.up => engine'.lock = After("lock", engine.lock)
  /\ engine.up /\ ~world.supported => engine'.blacklist = After("blacklist", engine.blacklist)
  /\ ~engine.up => engine' = engine
  /\ engine.up /\ ~world.integration /\ ConstellationsCome =>
       \A x \in Constellations : x \in engine'.enabled <=> EndsWith(<<Head(api)>>, engine.enabled, x)

(* What becomes of a setting.                                                 *)
ValueRan(A, B, s) ==
  /\ stored'[s] \in {asked[s], Due(asked[s])}
  /\ \A i \in DOMAIN A :
       /\ A[i].call = "default" /\ A[i].setting = s => asked[s] = Unset
       /\ A[i].call = "send" /\ A[i].setting = s => A[i].value = Due(asked[s])
  /\ Checks(Head(api), s) =>
       (\E i \in DOMAIN A : Checks(A[i], s)) \/ Brings(B, s, {Due(asked[s])})
  /\ Quiet(B, s) \/ Brings(B, s, {Due(asked[s])})
  /\ engine.up => has'[s] = After(s, has[s])
ValuesRan(A, B) == world.settings # {} => \A s \in Kept \ raced : ValueRan(A, B, s)

QueueRan ==
  \/ queue' = queue
  \/ \E m \in Message :
       /\ queue' = Append(queue, m) /\ m.kind \in {"response", "svIds"}
       /\ m.kind = "response" => Head(api).call \in {"set", "delete"} /\ m.id = Head(api).id

Running ==
  /\ \E A, B : Ran(A, B) /\ ValuesRan(A, B)
  /\ UNCHANGED <<known, lockVars, types, pending, restoring, enables, world, askVars, second, ownVars, raced>>
  /\ ~world.supported => ids' = ids
  /\ QueueRan /\ EngineRan
  /\ ids' \in SUBSET Satellites /\ svIds' \in SUBSET Satellites /\ SettingsTyped'

LEMMA HeadCallTyped ==
  ASSUME TypeOK, api # <<>>
  PROVE  /\ Head(api) \in Call /\ Tail(api) \in Seq(Call) /\ Head(api) = api[1] /\ 1 \in DOMAIN api
         /\ <<>> \in Seq(Call) /\ Tail(api) = (<<>> \o Tail(api)) \o <<>>
<1>1. Head(api) \in Call /\ Tail(api) \in Seq(Call) /\ Head(api) = api[1] /\ 1 \in DOMAIN api
  BY TailElements DEF TypeOK, MailTyped
<1>2. <<>> \in Seq(Call) /\ Tail(api) = <<>> \o Tail(api)
  BY <1>1, ConcatNothing
<1>3. <<>> \o Tail(api) = (<<>> \o Tail(api)) \o <<>>
  BY <1>1, <1>2, ConcatNothing
<1> QED
  BY <1>1, <1>2, <1>3

(* A call that has nothing to do with the settings, and goes on with nothing. *)
LEMMA SimplyRan ==
  ASSUME TypeOK, ValuesCome, api # <<>>, UNCHANGED <<stored, has>>, api' = Tail(api),
         Head(api).call \in {"setLock", "setBlacklist", "setConstellations", "resetConstellations",
                             "delete", "getBlacklist", "inject"}
  PROVE  \E A, B : Ran(A, B) /\ ValuesRan(A, B)
<1>1. DOMAIN <<>> = {} /\ Len(<<>>) = 0
  OBVIOUS
<1>2. Ran(<<>>, <<>>)
  BY <1>1, HeadCallTyped DEF Ran
<1>3. ValuesRan(<<>>, <<>>)
  <2> SUFFICES ASSUME world.settings # {}, NEW s \in Kept \ raced
               PROVE  ValueRan(<<>>, <<>>, s)
    BY DEF ValuesRan
  <2>1. stored[s] \in {asked[s], Due(asked[s])}
    BY DEF ValuesCome, ValueComes
  <2>2. ~Checks(Head(api), s)
    BY DEF Checks
  <2>3. ~Sets(Head(api), s)
    BY DEF Sets, Kept
  <2> QED
    BY <1>1, <2>1, <2>2, <2>3 DEF ValueRan, Quiet, After
<1> QED
  BY <1>2, <1>3

LEMMA TakesCall ==
  ASSUME NEW e, EngineTakes(e)
  PROVE  (engine.up => engine' = e) /\ (~engine.up => engine' = engine)
  BY DEF EngineTakes

LEMMA SetLockRuns ==
  ASSUME TypeOK, MailSuits, CallsSuit, ValuesCome, SetGpsLockSync, UNCHANGED settingVars
  PROVE  Running
<1> DEFINE c == Head(api)
           e == [engine EXCEPT !.lock = c.lock]
<1>1. api # <<>> /\ c.call = "setLock" /\ api' = Tail(api)
  BY DEF SetGpsLockSync, Runs
<1>2. c \in Call /\ c.lock \in Lock
  BY <1>1, HeadCallTyped, CallFields
<1>3. \E A, B : Ran(A, B) /\ ValuesRan(A, B)
  BY <1>1, SimplyRan DEF settingVars
<1>4. /\ e.up = engine.up /\ e.lock = c.lock /\ e.blacklist = engine.blacklist /\ e.enabled = engine.enabled
      /\ e \in [up: BOOLEAN, lock: Lock, blacklist: SUBSET Satellites, enabled: SUBSET Constellations]
  BY <1>2 DEF TypeOK, WorldTyped
<1>5. EngineTakes(e)
  BY DEF SetGpsLockSync
<1>6. UNCHANGED <<adapterVars, queue, enables, world>>
  BY DEF SetGpsLockSync
<1> HIDE DEF e
<1>7. Sets(c, "lock") /\ To(c, "lock") = c.lock /\ ~Sets(c, "blacklist")
  BY <1>1 DEF Sets, To
<1>8. \A x : EndsWith(<<c>>, engine.enabled, x) <=> x \in engine.enabled
  BY <1>1, EndsWithOne DEF Adds, Clears
<1>9. EngineRan
  BY <1>4, <1>5, <1>6, <1>7, <1>8, TakesCall DEF EngineRan, After, TypeOK, WorldTyped
<1>10. SettingsTyped'
  BY DEF TypeOK, SettingsTyped, settingVars, askVars
<1> QED
  BY <1>3, <1>6, <1>9, <1>10 DEF Running, QueueRan, settingVars, TypeOK, AdapterTyped, adapterVars, svVars

LEMMA SetBlacklistRuns ==
  ASSUME TypeOK, MailSuits, CallsSuit, ValuesCome, SetBlacklistSv, UNCHANGED settingVars
  PROVE  Running
<1> DEFINE c == Head(api)
           e == [engine EXCEPT !.blacklist = c.svs]
<1>1. api # <<>> /\ c.call = "setBlacklist" /\ api' = Tail(api)
  BY DEF SetBlacklistSv, Runs
<1>2. c \in Call /\ c.svs \in SUBSET Satellites
  BY <1>1, HeadCallTyped, CallFields
<1>3. \E A, B : Ran(A, B) /\ ValuesRan(A, B)
  BY <1>1, SimplyRan DEF settingVars
<1>4. /\ e.up = engine.up /\ e.lock = engine.lock /\ e.blacklist = c.svs /\ e.enabled = engine.enabled
      /\ e \in [up: BOOLEAN, lock: Lock, blacklist: SUBSET Satellites, enabled: SUBSET Constellations]
  BY <1>2 DEF TypeOK, WorldTyped
<1>5. EngineTakes(e)
  BY DEF SetBlacklistSv
<1>6. UNCHANGED <<adapterVars, queue, enables, world>>
  BY DEF SetBlacklistSv
<1> HIDE DEF e
<1>7. Sets(c, "blacklist") /\ To(c, "blacklist") = c.svs /\ ~Sets(c, "lock")
  BY <1>1 DEF Sets, To
<1>8. \A x : EndsWith(<<c>>, engine.enabled, x) <=> x \in engine.enabled
  BY <1>1, EndsWithOne DEF Adds, Clears
<1>9. EngineRan
  BY <1>4, <1>5, <1>6, <1>7, <1>8, TakesCall DEF EngineRan, After, TypeOK, WorldTyped
<1>10. SettingsTyped'
  BY DEF TypeOK, SettingsTyped, settingVars, askVars
<1> QED
  BY <1>3, <1>6, <1>9, <1>10 DEF Running, QueueRan, settingVars, TypeOK, AdapterTyped, adapterVars, svVars

LEMMA SetConstellationsRuns ==
  ASSUME TypeOK, MailSuits, CallsSuit, ValuesCome, SetConstellationControl, UNCHANGED settingVars
  PROVE  Running
<1> DEFINE c == Head(api)
           n == (engine.enabled \cup c.types.enabled) \ c.types.blacklisted
           e == [engine EXCEPT !.enabled = n]
<1>1. api # <<>> /\ c.call = "setConstellations" /\ api' = Tail(api)
  BY DEF SetConstellationControl, Runs
<1>2. c \in Call /\ c.types \in SvTypes
  BY <1>1, HeadCallTyped, CallFields
<1>3. \E A, B : Ran(A, B) /\ ValuesRan(A, B)
  BY <1>1, SimplyRan DEF settingVars
<1>4. n \in SUBSET Constellations
  BY <1>2 DEF SvTypes, TypeOK, WorldTyped
<1>5. EngineTakes(e)
  BY DEF SetConstellationControl
<1> HIDE DEF n
<1>6. /\ e.up = engine.up /\ e.lock = engine.lock /\ e.blacklist = engine.blacklist /\ e.enabled = n
      /\ e \in [up: BOOLEAN, lock: Lock, blacklist: SUBSET Satellites, enabled: SUBSET Constellations]
  BY <1>4 DEF TypeOK, WorldTyped
<1>7. UNCHANGED <<adapterVars, queue, enables, world>>
  BY DEF SetConstellationControl
<1> HIDE DEF e
<1>8. ~Sets(c, "lock") /\ ~Sets(c, "blacklist")
  BY <1>1 DEF Sets
<1>9. ~world.integration /\ ConstellationsCome => \A x : x \in n <=> EndsWith(<<c>>, engine.enabled, x)
  <2> SUFFICES ASSUME ~world.integration, ConstellationsCome, NEW x
               PROVE  x \in n <=> EndsWith(<<c>>, engine.enabled, x)
    OBVIOUS
  <2>1. c.types.blacklisted = {}
    BY <1>1, HeadCallTyped DEF ConstellationsCome
  <2>2. EndsWith(<<c>>, engine.enabled, x) <=> x \in c.types.enabled \/ x \in engine.enabled
    BY <1>1, EndsWithOne DEF Adds, Clears
  <2> QED
    BY <2>1, <2>2 DEF n
<1>10. EngineRan
  BY <1>5, <1>6, <1>7, <1>8, <1>9, TakesCall DEF EngineRan, After, TypeOK, WorldTyped
<1>11. SettingsTyped'
  BY DEF TypeOK, SettingsTyped, settingVars, askVars
<1> QED
  BY <1>3, <1>7, <1>10, <1>11 DEF Running, QueueRan, settingVars, TypeOK, AdapterTyped, adapterVars, svVars

LEMMA ResetRuns ==
  ASSUME TypeOK, MailSuits, CallsSuit, ValuesCome, ResetConstellationControl, UNCHANGED settingVars
  PROVE  Running
<1> DEFINE c == Head(api)
           e == [engine EXCEPT !.enabled = {}]
<1>1. api # <<>> /\ c.call = "resetConstellations" /\ api' = Tail(api)
  BY DEF ResetConstellationControl, Runs
<1>3. \E A, B : Ran(A, B) /\ ValuesRan(A, B)
  BY <1>1, SimplyRan DEF settingVars
<1>4. /\ e.up = engine.up /\ e.lock = engine.lock /\ e.blacklist = engine.blacklist /\ e.enabled = {}
      /\ e \in [up: BOOLEAN, lock: Lock, blacklist: SUBSET Satellites, enabled: SUBSET Constellations]
  BY DEF TypeOK, WorldTyped
<1>5. EngineTakes(e)
  BY DEF ResetConstellationControl
<1>6. UNCHANGED <<adapterVars, queue, enables, world>>
  BY DEF ResetConstellationControl
<1> HIDE DEF e
<1>7. ~Sets(c, "blacklist") /\ ~Sets(c, "lock")
  BY <1>1 DEF Sets
<1>8. \A x : ~EndsWith(<<c>>, engine.enabled, x)
  BY <1>1, EndsWithOne DEF Adds, Clears
<1>9. EngineRan
  BY <1>4, <1>5, <1>6, <1>7, <1>8, TakesCall DEF EngineRan, After, TypeOK, WorldTyped
<1>10. SettingsTyped'
  BY DEF TypeOK, SettingsTyped, settingVars, askVars
<1> QED
  BY <1>3, <1>6, <1>9, <1>10 DEF Running, QueueRan, settingVars, TypeOK, AdapterTyped, adapterVars, svVars

(* The engine and the settings are as they were.                              *)
LEMMA EngineIdle ==
  ASSUME TypeOK, api # <<>>, UNCHANGED <<engine, enables, world>>, Head(api).call \notin
           {"setLock", "update", "setBlacklist", "setConstellations", "resetConstellations", "open"}
  PROVE  EngineRan
<1>1. ~Sets(Head(api), "blacklist") /\ ~Sets(Head(api), "lock")
  BY HeadCallTyped, CallFields DEF Sets, Kept
<1>2. \A x : EndsWith(<<Head(api)>>, engine.enabled, x) <=> x \in engine.enabled
  BY EndsWithOne DEF Adds, Clears
<1> QED
  BY <1>1, <1>2 DEF EngineRan, After, TypeOK, WorldTyped

----------------------------------------------------------------------------
(* The call that brings a restarted engine its configuration.                 *)

OneGoesOn(A) == A \in Seq(Call) /\ Len(A) <= 1

LEMMA OneGoes ==
  ASSUME NEW x \in Call
  PROVE  <<x>> \in Seq(Call) /\ Len(<<x>>) <= 1 /\ DOMAIN <<x>> = {1} /\ <<x>>[1] = x
  OBVIOUS

LEMMA NoneGoes == <<>> \in Seq(Call) /\ Len(<<>>) <= 1 /\ DOMAIN <<>> = {}
  OBVIOUS

LEMMA CheckCallIs ==
  ASSUME NEW r \in Kept, NEW x, x = [call |-> "check", setting |-> r]
  PROVE  x \in Call /\ x.call = "check" /\ x.setting = r /\ Check(r) = <<x>>
  BY DEF Call, Check

(* What the call goes on with for the settings.                               *)
LEMMA AfterRan ==
  ASSUME TypeOK, ValuesCome, api # <<>>, UNCHANGED <<stored, has>>,
         Head(api).call \in {"update", "fill"}, api' = Head(api).after \o Tail(api)
  PROVE  \E A, B : Ran(A, B) /\ ValuesRan(A, B)
<1> DEFINE c == Head(api)
           A == c.after
           k == [call |-> "check", setting |-> "tunc"]
<1>1. c \in Call /\ A \in {<<>>, Check("tunc")}
  BY HeadCallTyped, CallFields
<1>2. k \in Call /\ k.call = "check" /\ k.setting = "tunc" /\ Check("tunc") = <<k>>
  BY CheckCallIs DEF Kept
<1> HIDE DEF k, A
<1>3. /\ A \in Seq(Call) /\ Len(A) <= 1
      /\ \A i \in DOMAIN A : A[i] = k
      /\ A # <<>> => 1 \in DOMAIN A
  <2>1. CASE A = <<>>
    BY <2>1, NoneGoes
  <2>2. CASE A = <<k>>
    BY <1>2, <2>2, OneGoes
  <2> QED
    BY <1>1, <1>2, <2>1, <2>2
<1>4. api' = (A \o Tail(api)) \o <<>>
  <2>1. A \o Tail(api) \in Seq(Call)
    BY <1>3, HeadCallTyped
  <2> QED
    BY <2>1, ConcatNothing DEF A
<1>5. Ran(A, <<>>)
  BY <1>2, <1>3, <1>4, NoneGoes DEF Ran
<1>6. ValuesRan(A, <<>>)
  <2> SUFFICES ASSUME world.settings # {}, NEW s \in Kept \ raced
               PROVE  ValueRan(A, <<>>, s)
    BY DEF ValuesRan
  <2>1. stored[s] \in {asked[s], Due(asked[s])}
    BY DEF ValuesCome, ValueComes
  <2>2. Checks(c, s) => \E i \in DOMAIN A : Checks(A[i], s)
    <3>1. Checks(c, s) => A # <<>>
      BY DEF Checks, A
    <3>2. Checks(k, s)
      BY <1>2 DEF Checks
    <3> QED
      BY <1>3, <3>1, <3>2
  <2>3. ~Sets(c, s)
    BY DEF Sets, Kept
  <2>4. \A i \in DOMAIN A : A[i].call = "check"
    BY <1>2, <1>3
  <2> QED
    BY <2>1, <2>2, <2>3, <2>4, NoneGoes DEF ValueRan, Quiet, After
<1> QED
  BY <1>5, <1>6

LEMMA UpdateRuns ==
  ASSUME TypeOK, MailSuits, CallsSuit, ValuesCome, GnssUpdateConfig, UNCHANGED settingVars
  PROVE  Running
<1> DEFINE c == Head(api)
           e == IF c.lock = <<>> THEN engine ELSE [engine EXCEPT !.lock = c.lock[1]]
           x == [c EXCEPT !.call = "fill"]
<1>1. api # <<>> /\ c.call = "update"
  BY DEF GnssUpdateConfig, Runs
<1>2. c \in Call /\ c = api[1] /\ 1 \in DOMAIN api
  BY <1>1, HeadCallTyped
<1>3. /\ c \in [call: {"update", "fill"}, lock: Maybe(Lock),
                svs: Maybe(SUBSET Satellites), after: {<<>>, Check("tunc")}]
      /\ c.lock \in Maybe(Lock) /\ c.svs \in Maybe(SUBSET Satellites)
  BY <1>1, <1>2, CallFields
<1>4. c.lock # <<>> => c.lock[1] \in Lock
  BY <1>3, MaybeSome
<1>5. /\ e.up = engine.up /\ e.blacklist = engine.blacklist /\ e.enabled = engine.enabled
      /\ e.lock = IF c.lock = <<>> THEN engine.lock ELSE c.lock[1]
      /\ e \in [up: BOOLEAN, lock: Lock, blacklist: SUBSET Satellites, enabled: SUBSET Constellations]
  BY <1>4 DEF TypeOK, WorldTyped
<1>6. EngineTakes(e) /\ UNCHANGED <<known, lockVars, types, pending, restoring, queue, enables, world>>
  BY DEF GnssUpdateConfig
<1> HIDE DEF e
<1>7. /\ ~Sets(c, "blacklist") /\ (Sets(c, "lock") <=> c.lock # <<>>)
      /\ Sets(c, "lock") => To(c, "lock") = c.lock[1]
  BY <1>1 DEF Sets, To
<1>8. \A y : EndsWith(<<c>>, engine.enabled, y) <=> y \in engine.enabled
  BY <1>1, EndsWithOne DEF Adds, Clears
<1>9. EngineRan
  BY <1>5, <1>6, <1>7, <1>8, TakesCall DEF EngineRan, After, TypeOK, WorldTyped
<1>10. SettingsTyped' /\ UNCHANGED <<stored, has>>
  BY DEF TypeOK, SettingsTyped, settingVars, askVars
<1>11. CASE c.svs # <<>> /\ world.supported
  <2>1. svIds' = c.svs[1] /\ ids' = {} /\ api' = [api EXCEPT ![1].call = "fill"]
    BY <1>11 DEF GnssUpdateConfig
  <2>2. c.svs[1] \in SUBSET Satellites
    BY <1>3, <1>11, MaybeSome
  <2>3. /\ x \in [call: {"update", "fill"}, lock: Maybe(Lock),
                  svs: Maybe(SUBSET Satellites), after: {<<>>, Check("tunc")}]
        /\ x.call = "fill" /\ x.after = c.after /\ x.svs = c.svs
    BY <1>3
  <2>4. x \in Call
    BY <2>3 DEF Call
  <2>5. api' = [api EXCEPT ![1] = x]
    BY <1>2, <2>1 DEF TypeOK, MailTyped
  <2> HIDE DEF x
  <2>6. api' = <<x>> \o Tail(api)
    BY <1>1, <2>4, <2>5, ReplaceHead DEF TypeOK, MailTyped
  <2>7. api' = (<<x>> \o Tail(api)) \o <<>>
    <3>1. <<x>> \o Tail(api) \in Seq(Call)
      BY <1>1, <2>4, HeadCallTyped, OneGoes
    <3> QED
      BY <2>6, <3>1, ConcatNothing
  <2>8. Ran(<<x>>, <<>>)
    BY <1>1, <1>11, <2>3, <2>4, <2>7, OneGoes, NoneGoes DEF Ran
  <2>9. ValuesRan(<<x>>, <<>>)
    <3> SUFFICES ASSUME world.settings # {}, NEW s \in Kept \ raced
                 PROVE  ValueRan(<<x>>, <<>>, s)
      BY DEF ValuesRan
    <3>1. stored[s] \in {asked[s], Due(asked[s])}
      BY DEF ValuesCome, ValueComes
    <3>2. Checks(c, s) => Checks(x, s)
      BY <1>1, <2>3 DEF Checks
    <3>3. ~Sets(c, s)
      BY <1>1 DEF Sets, Kept
    <3>4. /\ \A i \in DOMAIN <<x>> : <<x>>[i].call = "fill"
          /\ 1 \in DOMAIN <<x>> /\ <<x>>[1] = x
      BY <2>3, <2>4, OneGoes
    <3> QED
      BY <1>10, <3>1, <3>2, <3>3, <3>4, NoneGoes DEF ValueRan, Quiet, After
  <2>10. \E A, B : Ran(A, B) /\ ValuesRan(A, B)
    BY <2>8, <2>9
  <2>11. ids' \in SUBSET Satellites /\ svIds' \in SUBSET Satellites
    BY <2>1, <2>2
  <2> QED
    BY <1>6, <1>9, <1>10, <1>11, <2>10, <2>11 DEF Running, QueueRan, settingVars
<1>12. CASE c.svs = <<>> \/ ~world.supported
  <2>1. api' = c.after \o Tail(api) /\ UNCHANGED <<ids, svIds>>
    BY <1>12 DEF GnssUpdateConfig
  <2>2. \E A, B : Ran(A, B) /\ ValuesRan(A, B)
    BY <1>1, <1>10, <2>1, AfterRan
  <2>3. ids' \in SUBSET Satellites /\ svIds' \in SUBSET Satellites
    BY <2>1 DEF TypeOK, AdapterTyped
  <2> QED
    BY <1>6, <1>9, <1>10, <2>1, <2>2, <2>3 DEF Running, QueueRan, settingVars
<1> QED
  BY <1>11, <1>12

LEMMA FillRuns ==
  ASSUME TypeOK, MailSuits, CallsSuit, ValuesCome, SvIdConfigUpdateSync, UNCHANGED settingVars
  PROVE  Running
<1> DEFINE c == Head(api)
           e == [engine EXCEPT !.blacklist = c.svs[1]]
<1>1. api # <<>> /\ c.call = "fill" /\ api' = c.after \o Tail(api) /\ ids' = c.svs[1]
  BY DEF SvIdConfigUpdateSync, Runs
<1>2. c \in Call /\ c = api[1] /\ 1 \in DOMAIN api
  BY <1>1, HeadCallTyped
<1>3. world.supported /\ c.svs # <<>>
  BY <1>1, <1>2 DEF CallsSuit
<1>4. c.svs[1] \in SUBSET Satellites
  BY <1>1, <1>2, <1>3, CallFields, MaybeSome
<1>5. /\ e.up = engine.up /\ e.lock = engine.lock /\ e.enabled = engine.enabled
      /\ e \in [up: BOOLEAN, lock: Lock, blacklist: SUBSET Satellites, enabled: SUBSET Constellations]
  BY <1>4 DEF TypeOK, WorldTyped
<1>6. EngineTakes(e) /\ UNCHANGED <<known, lockVars, svIds, types, pending, restoring, queue, enables, world>>
  BY DEF SvIdConfigUpdateSync
<1> HIDE DEF e
<1>7. ~Sets(c, "lock")
  BY <1>1 DEF Sets
<1>8. \A y : EndsWith(<<c>>, engine.enabled, y) <=> y \in engine.enabled
  BY <1>1, EndsWithOne DEF Adds, Clears
<1>9. EngineRan
  BY <1>3, <1>5, <1>6, <1>7, <1>8, TakesCall DEF EngineRan, After, TypeOK, WorldTyped
<1>10. SettingsTyped' /\ UNCHANGED <<stored, has>>
  BY DEF TypeOK, SettingsTyped, settingVars, askVars
<1>11. \E A, B : Ran(A, B) /\ ValuesRan(A, B)
  BY <1>1, <1>10, AfterRan
<1>12. ids' \in SUBSET Satellites /\ svIds' \in SUBSET Satellites
  BY <1>1, <1>4, <1>6 DEF TypeOK, AdapterTyped
<1> QED
  BY <1>3, <1>6, <1>9, <1>10, <1>11, <1>12 DEF Running, QueueRan, settingVars

----------------------------------------------------------------------------
(* The calls that look at a setting, load it, send it, and set it.            *)

LEMMA ValueKnown ==
  ASSUME TypeOK, ValuesCome, world.settings # {}, NEW s \in Kept \ raced
  PROVE  /\ stored[s] \in {asked[s], Due(asked[s])}
         /\ stored[s] = Unset => asked[s] = Unset
         /\ stored[s] # Unset => stored[s] = Due(asked[s])
         /\ api # <<>> /\ Head(api).call = "default" /\ Head(api).setting = s => asked[s] = Unset
         /\ api # <<>> /\ Head(api).call = "send" /\ Head(api).setting = s => Head(api).value = Due(asked[s])
<1>1. ValueComes(s)
  BY DEF ValuesCome
<1>2. stored[s] \in {asked[s], Due(asked[s])}
  BY <1>1 DEF ValueComes
<1>3. Due(asked[s]) # Unset
  BY DEF Due, Unset
<1>4. asked[s] # Unset => Due(asked[s]) = asked[s]
  BY DEF Due
<1>5. api # <<>> => Head(api) = api[1] /\ 1 \in DOMAIN api
  BY HeadCallTyped
<1> QED
  BY <1>1, <1>2, <1>3, <1>4, <1>5 DEF ValueComes

(* The adapter's part and the engine are left alone.                          *)
ApiFrame ==
  UNCHANGED <<adapterVars, engine, enables, world, askVars, second, ownVars, raced>>

LEMMA ApiFrameRuns ==
  ASSUME TypeOK, api # <<>>, ApiFrame, QueueRan, SettingsTyped', \E A, B : Ran(A, B) /\ ValuesRan(A, B),
         Head(api).call \in {"check", "default", "send", "set", "delete", "getBlacklist", "inject"}
  PROVE  Running
<1>1. EngineRan
  BY EngineIdle DEF ApiFrame
<1>2. ids' \in SUBSET Satellites /\ svIds' \in SUBSET Satellites
  BY DEF ApiFrame, adapterVars, svVars, TypeOK, AdapterTyped
<1> QED
  BY <1>1, <1>2 DEF Running, ApiFrame, adapterVars, svVars

LEMMA CheckRuns ==
  ASSUME TypeOK, MailSuits, CallsSuit, ValuesCome, CheckSetting
  PROVE  Running
<1> DEFINE c == Head(api)
           r == c.setting
           x == IF LoadsDefault(r) THEN [call |-> "default", setting |-> r]
                ELSE [call |-> "send", setting |-> r, value |-> stored[r]]
<1>1. api # <<>> /\ c.call = "check" /\ api' = [api EXCEPT ![1] = x]
  BY DEF CheckSetting, Runs
<1>2. ApiFrame /\ UNCHANGED <<queue, stored, has>>
  BY DEF CheckSetting, KeepForApi, ApiFrame
<1>3. c \in Call /\ r \in Kept
  BY <1>1, HeadCallTyped, CallFields
<1>4. stored[r] \in Value
  BY <1>3 DEF TypeOK, SettingsTyped
<1>5. x \in Call /\ x.setting = r
  BY <1>3, <1>4 DEF Call, LoadsDefault, Value
<1>6. /\ x.call = IF stored[r] = Unset THEN "default" ELSE "send"
      /\ stored[r] # Unset => x.value = stored[r]
  BY DEF LoadsDefault
<1> HIDE DEF x
<1>7. api' = <<x>> \o Tail(api)
  BY <1>1, <1>5, ReplaceHead DEF TypeOK, MailTyped
<1>8. api' = (<<x>> \o Tail(api)) \o <<>>
  <2>1. <<x>> \o Tail(api) \in Seq(Call)
    BY <1>1, <1>5, HeadCallTyped, OneGoes
  <2> QED
    BY <1>7, <2>1, ConcatNothing
<1>9. Ran(<<x>>, <<>>)
  BY <1>1, <1>5, <1>6, <1>8, OneGoes, NoneGoes DEF Ran
<1>10. ValuesRan(<<x>>, <<>>)
  <2> SUFFICES ASSUME world.settings # {}, NEW s \in Kept \ raced
               PROVE  ValueRan(<<x>>, <<>>, s)
    BY DEF ValuesRan
  <2>1. /\ stored[s] \in {asked[s], Due(asked[s])}
        /\ stored[s] = Unset => asked[s] = Unset
        /\ stored[s] # Unset => stored[s] = Due(asked[s])
    BY ValueKnown
  <2>2. Checks(c, s) => Checks(x, s)
    BY <1>1, <1>5, <1>6 DEF Checks
  <2>3. ~Sets(c, s)
    BY <1>1 DEF Sets, Kept
  <2>4. DOMAIN <<x>> = {1} /\ <<x>>[1] = x
    BY <1>5, OneGoes
  <2> QED
    BY <1>2, <1>5, <1>6, <2>1, <2>2, <2>3, <2>4, NoneGoes DEF ValueRan, Quiet, After
<1>11. SettingsTyped'
  BY <1>2 DEF TypeOK, SettingsTyped, ApiFrame, askVars
<1>12. \E A, B : Ran(A, B) /\ ValuesRan(A, B)
  BY <1>9, <1>10
<1> QED
  BY <1>1, <1>2, <1>11, <1>12, ApiFrameRuns DEF QueueRan

LEMMA LoadRuns ==
  ASSUME TypeOK, MailSuits, CallsSuit, ValuesCome, LoadDefault
  PROVE  Running
<1> DEFINE c == Head(api)
           r == c.setting
           x == [call |-> "send", setting |-> r, value |-> "file"]
<1>1. api # <<>> /\ c.call = "default" /\ api' = [api EXCEPT ![1] = x]
  BY DEF LoadDefault, Runs
<1>2. ApiFrame /\ UNCHANGED <<queue, has>> /\ stored' = [stored EXCEPT ![r] = "file"]
  BY DEF LoadDefault, KeepForApi, ApiFrame
<1>3. c \in Call /\ r \in Kept
  BY <1>1, HeadCallTyped, CallFields
<1>5. x \in Call /\ x.setting = r /\ x.call = "send" /\ x.value = "file"
  BY <1>3 DEF Call
<1> HIDE DEF x
<1>7. api' = <<x>> \o Tail(api)
  BY <1>1, <1>5, ReplaceHead DEF TypeOK, MailTyped
<1>8. api' = (<<x>> \o Tail(api)) \o <<>>
  <2>1. <<x>> \o Tail(api) \in Seq(Call)
    BY <1>1, <1>5, HeadCallTyped, OneGoes
  <2> QED
    BY <1>7, <2>1, ConcatNothing
<1>9. Ran(<<x>>, <<>>)
  BY <1>1, <1>5, <1>8, OneGoes, NoneGoes DEF Ran
<1>10. ValuesRan(<<x>>, <<>>)
  <2> SUFFICES ASSUME world.settings # {}, NEW s \in Kept \ raced
               PROVE  ValueRan(<<x>>, <<>>, s)
    BY DEF ValuesRan
  <2>1. stored[s] \in {asked[s], Due(asked[s])} /\ (r = s => asked[s] = Unset)
    BY <1>1, ValueKnown
  <2>2. stored'[s] = IF r = s THEN "file" ELSE stored[s]
    BY <1>2, <1>3 DEF TypeOK, SettingsTyped
  <2>3. r = s => Due(asked[s]) = "file"
    BY <2>1 DEF Due
  <2>4. Checks(c, s) => Checks(x, s)
    BY <1>1, <1>5 DEF Checks
  <2>5. ~Sets(c, s)
    BY <1>1 DEF Sets, Kept
  <2>6. DOMAIN <<x>> = {1} /\ <<x>>[1] = x
    BY <1>5, OneGoes
  <2> QED
    BY <1>2, <1>5, <2>1, <2>2, <2>3, <2>4, <2>5, <2>6, NoneGoes DEF ValueRan, Quiet, After
<1>11. SettingsTyped'
  BY <1>2 DEF TypeOK, SettingsTyped, ApiFrame, askVars, Value
<1>12. \E A, B : Ran(A, B) /\ ValuesRan(A, B)
  BY <1>9, <1>10
<1> QED
  BY <1>1, <1>2, <1>11, <1>12, ApiFrameRuns DEF QueueRan

LEMMA SendRuns ==
  ASSUME TypeOK, MailSuits, CallsSuit, ValuesCome, SendSetting
  PROVE  Running
<1> DEFINE c == Head(api)
           r == c.setting
           k == [call |-> "check", setting |-> "pace"]
           A == IF r = "tunc" THEN <<k>> ELSE <<>>
           b == [call |-> "set", setting |-> r, value |-> c.value, id |-> 0]
<1>1. api # <<>> /\ c.call = "send"
  BY DEF SendSetting, Runs
<1>2. ApiFrame /\ UNCHANGED <<queue, stored, has>>
  BY DEF SendSetting, KeepForApi, ApiFrame
<1>3. c \in Call /\ r \in Kept /\ c.value \in Values \cup {"file"}
  BY <1>1, HeadCallTyped, CallFields
<1>4. k \in Call /\ k.call = "check" /\ k.setting = "pace" /\ Check("pace") = <<k>>
  BY CheckCallIs DEF Kept
<1>5. b \in Call /\ b.call = "set" /\ b.setting = r /\ b.value = c.value /\ b.id = 0
  BY <1>3 DEF Call
<1>6. api' = (A \o Tail(api)) \o <<b>>
  BY <1>4 DEF SendSetting
<1> HIDE DEF k, b
<1>7. /\ A \in Seq(Call) /\ Len(A) <= 1
      /\ \A i \in DOMAIN A : A[i] = k
      /\ r = "tunc" => 1 \in DOMAIN A
  BY <1>4, OneGoes, NoneGoes
<1> HIDE DEF A
<1>8. Ran(A, <<b>>)
  BY <1>1, <1>4, <1>5, <1>6, <1>7, OneGoes DEF Ran
<1>9. ValuesRan(A, <<b>>)
  <2> SUFFICES ASSUME world.settings # {}, NEW s \in Kept \ raced
               PROVE  ValueRan(A, <<b>>, s)
    BY DEF ValuesRan
  <2>1. stored[s] \in {asked[s], Due(asked[s])} /\ (r = s => c.value = Due(asked[s]))
    BY <1>1, ValueKnown
  <2>2. r = s => Brings(<<b>>, s, {Due(asked[s])})
    <3>1. r = s => Sets(b, s) /\ To(b, s) = Due(asked[s])
      BY <1>5, <2>1 DEF Sets, To
    <3> QED
      BY <1>5, <3>1, OneCall
  <2>3. r # s => Quiet(<<b>>, s)
    <3>1. r # s => ~Sets(b, s)
      BY <1>5 DEF Sets, Kept
    <3> QED
      BY <1>5, <3>1, OneCall
  <2>4. Checks(c, s) /\ r # s => \E i \in DOMAIN A : Checks(A[i], s)
    <3> SUFFICES ASSUME Checks(c, s), r # s
                 PROVE  \E i \in DOMAIN A : Checks(A[i], s)
      OBVIOUS
    <3>1. r = "tunc" /\ s = "pace"
      BY <1>1 DEF Checks, Kept
    <3>2. Checks(k, s)
      BY <1>4, <3>1 DEF Checks
    <3> QED
      BY <1>7, <3>1, <3>2
  <2>5. ~Sets(c, s)
    BY <1>1 DEF Sets, Kept
  <2>6. \A i \in DOMAIN A : A[i].call = "check"
    BY <1>4, <1>7
  <2> QED
    BY <1>2, <2>1, <2>2, <2>3, <2>4, <2>5, <2>6 DEF ValueRan, After
<1>10. SettingsTyped'
  BY <1>2 DEF TypeOK, SettingsTyped, ApiFrame, askVars
<1>11. \E X, Y : Ran(X, Y) /\ ValuesRan(X, Y)
  BY <1>8, <1>9
<1> QED
  BY <1>1, <1>2, <1>10, <1>11, ApiFrameRuns DEF QueueRan

LEMMA RespondRan ==
  ASSUME NEW id \in Nat, Respond(id), Head(api).call \in {"set", "delete"}, id = Head(api).id
  PROVE  QueueRan
<1> DEFINE m == [kind |-> "response", id |-> id]
<1>1. id # 0 => m \in Message
  BY DEF Message
<1>2. m.kind = "response" /\ m.id = id
  OBVIOUS
<1>3. queue' = IF id = 0 THEN queue ELSE Append(queue, m)
  BY DEF Respond
<1> HIDE DEF m
<1> QED
  BY <1>1, <1>2, <1>3 DEF QueueRan

LEMMA SetModeRuns ==
  ASSUME TypeOK, MailSuits, CallsSuit, ValuesCome, SetMode
  PROVE  Running
<1> DEFINE c == Head(api)
<1>1. api # <<>> /\ c.call = "set" /\ api' = Tail(api)
  BY DEF SetMode, Runs
<1>2. /\ ApiFrame /\ stored' = stored /\ Respond(c.id)
      /\ has' = IF engine.up THEN [has EXCEPT ![c.setting] = c.value] ELSE has
  BY DEF SetMode, KeepForApi, ApiFrame
<1>3. c \in Call /\ c.setting \in Kept /\ c.value \in Values \cup {"file"} /\ c.id \in Nat
  BY <1>1, HeadCallTyped, CallFields
<1>4. Ran(<<>>, <<>>)
  BY <1>1, HeadCallTyped, NoneGoes DEF Ran
<1>5. ValuesRan(<<>>, <<>>)
  <2> SUFFICES ASSUME world.settings # {}, NEW s \in Kept \ raced
               PROVE  ValueRan(<<>>, <<>>, s)
    BY DEF ValuesRan
  <2>1. stored[s] \in {asked[s], Due(asked[s])}
    BY ValueKnown
  <2>2. ~Checks(c, s)
    BY <1>1 DEF Checks
  <2>3. Sets(c, s) <=> c.setting = s
    BY <1>1 DEF Sets, Kept
  <2>4. To(c, s) = c.value
    BY <1>1 DEF To
  <2>5. engine.up => has'[s] = After(s, has[s])
    BY <1>2, <1>3, <2>3, <2>4 DEF After, TypeOK, SettingsTyped
  <2> QED
    BY <1>2, <2>1, <2>2, <2>5, NoneGoes DEF ValueRan, Quiet
<1>6. SettingsTyped'
  BY <1>2, <1>3 DEF TypeOK, SettingsTyped, ApiFrame, askVars, Value
<1>7. QueueRan
  BY <1>1, <1>2, <1>3, RespondRan
<1>8. \E A, B : Ran(A, B) /\ ValuesRan(A, B)
  BY <1>4, <1>5
<1> QED
  BY <1>1, <1>2, <1>6, <1>7, <1>8, ApiFrameRuns

LEMMA OthersRun ==
  ASSUME TypeOK, MailSuits, CallsSuit, ValuesCome,
         DeleteInEngine \/ GetBlacklistSv \/ InjectPosition
  PROVE  Running
<1> DEFINE c == Head(api)
<1>1. api # <<>> /\ c.call \in {"delete", "getBlacklist", "inject"} /\ api' = Tail(api)
  BY DEF DeleteInEngine, GetBlacklistSv, InjectPosition, Runs
<1>2. ApiFrame /\ UNCHANGED <<stored, has>>
  BY DEF DeleteInEngine, GetBlacklistSv, InjectPosition, KeepForApi, ApiFrame
<1>3. QueueRan
  <2>1. CASE DeleteInEngine
    <3>1. c.id \in Nat /\ c.call = "delete"
      BY <1>1, <2>1, HeadCallTyped, CallFields DEF DeleteInEngine, Runs
    <3> QED
      BY <2>1, <3>1, RespondRan DEF DeleteInEngine
  <2>2. CASE GetBlacklistSv
    <3> DEFINE m == [kind |-> "svIds"]
    <3>1. m \in Message /\ m.kind = "svIds"
      BY DEF Message, PlainKinds
    <3>2. queue' = IF engine.up THEN Append(queue, m) ELSE queue
      BY <2>2 DEF GetBlacklistSv
    <3> HIDE DEF m
    <3> QED
      BY <3>1, <3>2 DEF QueueRan
  <2>3. CASE InjectPosition
    BY <2>3 DEF InjectPosition, QueueRan
  <2> QED
    BY <2>1, <2>2, <2>3
<1>4. SettingsTyped'
  BY <1>2 DEF TypeOK, SettingsTyped, ApiFrame, askVars
<1>5. \E A, B : Ran(A, B) /\ ValuesRan(A, B)
  BY <1>1, <1>2, SimplyRan
<1> QED
  BY <1>1, <1>2, <1>3, <1>4, <1>5, ApiFrameRuns

LEMMA CallsRun ==
  ASSUME TypeOK, MailSuits, CallsSuit, ValuesCome,
         \/ (SetGpsLockSync \/ GnssUpdateConfig \/ SvIdConfigUpdateSync \/ SetBlacklistSv
             \/ SetConstellationControl \/ ResetConstellationControl) /\ UNCHANGED settingVars
         \/ SettingCalls
  PROVE  Running
<1>1. CASE SettingCalls
  BY <1>1, CheckRuns, LoadRuns, SendRuns, SetModeRuns, OthersRun DEF SettingCalls
<1>2. CASE (SetGpsLockSync \/ GnssUpdateConfig \/ SvIdConfigUpdateSync \/ SetBlacklistSv
             \/ SetConstellationControl \/ ResetConstellationControl) /\ UNCHANGED settingVars
  BY <1>2, SetLockRuns, UpdateRuns, FillRuns, SetBlacklistRuns, SetConstellationsRuns, ResetRuns
<1> QED
  BY <1>1, <1>2

----------------------------------------------------------------------------
(* The seven kinds of step.                                                   *)

Opened == OpenAnew /\ UNCHANGED <<stored, askVars, second, ownVars, raced>>
Downed == EngineDown /\ UNCHANGED settingVars
Restored == RestoreSvConfig /\ UNCHANGED settingVars

LEMMA StepKinds ==
  ASSUME TypeOK, MailSuits, CallsSuit, ValuesCome, [Next]_allVars
  PROVE  Handled \/ Calling \/ Running \/ Opened \/ Downed \/ SetConfigStep \/ Restored \/ UNCHANGED allVars
<1>1. CASE AdapterSteps
  <2>1. CASE SettingHandlers
    BY <2>1, HandlersHandled
  <2>2. CASE AdapterStep /\ UNCHANGED settingVars
    BY <2>2, HandlersHandled DEF Restored
  <2> QED
    BY <1>1, <2>1, <2>2 DEF AdapterSteps
<1>2. CASE ApiSteps
  BY <1>2, CallsRun DEF ApiSteps, Opened
<1>3. CASE ClientSteps
  BY <1>3, ClientCalling, SettingsCalling, CorrCalling DEF ClientSteps
<1>4. CASE EngineDown /\ UNCHANGED settingVars
  BY <1>4 DEF Downed
<1> QED
  BY <1>1, <1>2, <1>3, <1>4 DEF Next

----------------------------------------------------------------------------
(* What is in a queue as it moves on.                                         *)

LEMMA TailHolds ==
  ASSUME NEW S, NEW s \in Seq(S), s # <<>>, NEW i \in DOMAIN s, s[i] # Head(s) \/ i # 1
  PROVE  \E j \in DOMAIN Tail(s) : Tail(s)[j] = s[i]
<1>1. i # 1 /\ i - 1 \in DOMAIN Tail(s) /\ Tail(s)[i - 1] = s[i]
  BY TailElements
<1> QED
  BY <1>1

LEMMA TailFrom ==
  ASSUME NEW S, NEW s \in Seq(S), s # <<>>, NEW i \in DOMAIN Tail(s)
  PROVE  \E j \in DOMAIN s : Tail(s)[i] = s[j] /\ j = i + 1 /\ j # 1
<1>1. i \in Nat /\ i > 0 /\ i + 1 \in DOMAIN s /\ Tail(s)[i] = s[i + 1]
  BY TailElements
<1> QED
  BY <1>1

LEMMA AppendFrom ==
  ASSUME NEW S, NEW s \in Seq(S), NEW m \in S
  PROVE  /\ Append(s, m) \in Seq(S) /\ Append(s, m) # <<>>
         /\ \A i \in DOMAIN s : i \in DOMAIN Append(s, m) /\ Append(s, m)[i] = s[i]
         /\ Len(s) + 1 \in DOMAIN Append(s, m) /\ Append(s, m)[Len(s) + 1] = m
         /\ \A i \in DOMAIN Append(s, m) : (i \in DOMAIN s /\ Append(s, m)[i] = s[i]) \/ Append(s, m)[i] = m
         /\ s # <<>> => Head(Append(s, m)) = Head(s) /\ Len(s) + 1 # 1
<1> DEFINE t == Append(s, m)
<1>1. t \in Seq(S) /\ Len(t) = Len(s) + 1 /\ Len(s) \in Nat
  OBVIOUS
<1>2. DOMAIN s = 1..Len(s) /\ DOMAIN t = 1..(Len(s) + 1)
  BY <1>1
<1>3. \A i \in 1..Len(s) : t[i] = s[i]
  OBVIOUS
<1>4. t[Len(s) + 1] = m
  OBVIOUS
<1>5. \A i \in 1..(Len(s) + 1) : i \in 1..Len(s) \/ i = Len(s) + 1
  BY <1>1
<1>6. t # <<>>
  BY <1>1
<1>7. s # <<>> => Len(s) > 0 /\ Head(s) = s[1]
  OBVIOUS
<1>8. Head(t) = t[1]
  BY <1>1
<1> HIDE DEF t
<1>9. s # <<>> => Head(t) = Head(s) /\ Len(s) + 1 # 1
  BY <1>1, <1>3, <1>7, <1>8
<1>10. \A i \in DOMAIN s : i \in DOMAIN t /\ t[i] = s[i]
  BY <1>1, <1>2, <1>3
<1>11. Len(s) + 1 \in DOMAIN t
  BY <1>1, <1>2
<1>12. \A i \in DOMAIN t : (i \in DOMAIN s /\ t[i] = s[i]) \/ t[i] = m
  BY <1>2, <1>3, <1>4, <1>5
<1> QED
  BY <1>1, <1>4, <1>6, <1>9, <1>10, <1>11, <1>12 DEF t

LEMMA RanIs ==
  ASSUME TypeOK, NEW A, NEW B, Ran(A, B)
  PROVE  /\ api' \in Seq(Call)
         /\ \A i \in DOMAIN api : i # 1 => \E j \in DOMAIN api' : api'[j] = api[i]
         /\ \A i \in DOMAIN A : \E j \in DOMAIN api' : api'[j] = A[i]
         /\ \A j \in DOMAIN api' : \/ j = 1 /\ 1 \in DOMAIN A /\ api'[j] = A[1]
                                   \/ \E i \in DOMAIN api : i # 1 /\ api'[j] = api[i]
                                   \/ \E i \in DOMAIN B : api'[j] = B[i]
<1> DEFINE M == A \o Tail(api)
<1>1. api \in Seq(Call) /\ Tail(api) \in Seq(Call) /\ A \in Seq(Call) /\ B \in Seq(Call) /\ api # <<>>
  BY HeadCallTyped DEF Ran, TypeOK, MailTyped
<1>2. M \in Seq(Call)
  BY <1>1
<1>3. api' = M \o B
  BY DEF Ran
<1>4. ASSUME NEW i \in DOMAIN A
      PROVE  \E j \in DOMAIN M : M[j] = A[i]
  <2>1. i \in DOMAIN M /\ M[i] = A[i]
    BY <1>1, ConcatElements
  <2> QED
    BY <2>1
<1>5. ASSUME NEW i \in DOMAIN api, i # 1
      PROVE  \E j \in DOMAIN M : M[j] = api[i]
  <2>1. PICK k \in DOMAIN Tail(api) : Tail(api)[k] = api[i]
    BY <1>1, <1>5, TailHolds
  <2>2. Len(A) + k \in DOMAIN M /\ M[Len(A) + k] = Tail(api)[k]
    <3>1. ASSUME NEW t \in Seq(Call), NEW q \in DOMAIN t
          PROVE  Len(A) + q \in DOMAIN (A \o t) /\ (A \o t)[Len(A) + q] = t[q]
      <4>1. A \in Seq(Call)
        BY <1>1
      <4> QED
        BY <4>1, ConcatElements
    <3> QED
      BY <1>1, <3>1
  <2> QED
    BY <2>1, <2>2
<1>6. ASSUME NEW j \in DOMAIN M
      PROVE  \/ j = 1 /\ 1 \in DOMAIN A /\ M[j] = A[1]
             \/ \E i \in DOMAIN api : i # 1 /\ M[j] = api[i]
  <2>1. CASE j \in DOMAIN A /\ M[j] = A[j]
    <3>1. Len(A) <= 1 /\ Len(A) \in Nat /\ DOMAIN A = 1..Len(A)
      BY <1>1 DEF Ran
    <3>2. j = 1
      BY <2>1, <3>1
    <3> QED
      BY <2>1, <3>2
  <2>2. CASE j - Len(A) \in DOMAIN Tail(api) /\ M[j] = Tail(api)[j - Len(A)]
    <3> DEFINE k == j - Len(A)
    <3>1. \E i \in DOMAIN api : Tail(api)[k] = api[i] /\ i = k + 1 /\ i # 1
      BY <1>1, <2>2, TailFrom
    <3> QED
      BY <2>2, <3>1
  <2> QED
    BY <1>1, <2>1, <2>2, ConcatCases
<1> HIDE DEF M
<1>7. /\ api' \in Seq(Call)
      /\ \A j \in DOMAIN M : j \in DOMAIN api' /\ api'[j] = M[j]
      /\ \A j \in DOMAIN api' : (j \in DOMAIN M /\ api'[j] = M[j]) \/ \E i \in DOMAIN B : api'[j] = B[i]
  <2>1. M \o B \in Seq(Call) /\ \A j \in DOMAIN M : j \in DOMAIN (M \o B) /\ (M \o B)[j] = M[j]
    BY <1>1, <1>2, ConcatElements
  <2>2. ASSUME NEW j \in DOMAIN (M \o B)
        PROVE  (j \in DOMAIN M /\ (M \o B)[j] = M[j]) \/ \E i \in DOMAIN B : (M \o B)[j] = B[i]
    BY <1>1, <1>2, ConcatCases
  <2> QED
    BY <1>3, <2>1, <2>2
<1>8. \A i \in DOMAIN api : i # 1 => \E j \in DOMAIN api' : api'[j] = api[i]
  <2> SUFFICES ASSUME NEW i \in DOMAIN api, i # 1
               PROVE  \E j \in DOMAIN api' : api'[j] = api[i]
    OBVIOUS
  <2>1. PICK k \in DOMAIN M : M[k] = api[i]
    BY <1>5
  <2> QED
    BY <1>7, <2>1
<1>9. \A i \in DOMAIN A : \E j \in DOMAIN api' : api'[j] = A[i]
  <2> SUFFICES ASSUME NEW i \in DOMAIN A
               PROVE  \E j \in DOMAIN api' : api'[j] = A[i]
    OBVIOUS
  <2>1. PICK k \in DOMAIN M : M[k] = A[i]
    BY <1>4
  <2> QED
    BY <1>7, <2>1
<1>10. ASSUME NEW j \in DOMAIN api'
       PROVE  \/ j = 1 /\ 1 \in DOMAIN A /\ api'[j] = A[1]
              \/ \E i \in DOMAIN api : i # 1 /\ api'[j] = api[i]
              \/ \E i \in DOMAIN B : api'[j] = B[i]
  <2>1. CASE j \in DOMAIN M /\ api'[j] = M[j]
    BY <1>6, <2>1
  <2> QED
    BY <1>7, <2>1
<1> QED
  BY <1>7, <1>8, <1>9, <1>10

(* L is posted behind the calls that wait.                                    *)
LEMMA PostedIs ==
  ASSUME TypeOK, NEW L \in Seq(Call), api' = api \o L
  PROVE  /\ api' \in Seq(Call)
         /\ \A i \in DOMAIN api : i \in DOMAIN api' /\ api'[i] = api[i]
         /\ \A j \in DOMAIN api' : (j \in DOMAIN api /\ api'[j] = api[j]) \/ \E i \in DOMAIN L : api'[j] = L[i]
<1>1. api \in Seq(Call)
  BY DEF TypeOK, MailTyped
<1>2. api \o L \in Seq(Call) /\ \A i \in DOMAIN api : i \in DOMAIN (api \o L) /\ (api \o L)[i] = api[i]
  BY <1>1, ConcatElements
<1>3. ASSUME NEW j \in DOMAIN (api \o L)
      PROVE  (j \in DOMAIN api /\ (api \o L)[j] = api[j]) \/ \E i \in DOMAIN L : (api \o L)[j] = L[i]
  BY <1>1, ConcatCases
<1> QED
  BY <1>2, <1>3

----------------------------------------------------------------------------
(* What goes on whatever the step: the types, the mail that suits, and an     *)
(* engine that reopens or has come up.                                        *)

Goes ==
  /\ TypeOK' /\ MailSuits' /\ CallsSuit'
  /\ Reopens => Reopens' \/ (IsUp' /\ ComesUp')

LEMMA HandledGoes ==
  ASSUME TypeOK, MailSuits, CallsSuit, Handled
  PROVE  Goes /\ (Reopens => Reopens') /\ (IsUp => IsUp') /\ (ComesUp => ComesUp')
<1>1. /\ Takes /\ UNCHANGED <<known, restoring, engine, enables, world, has>> /\ (world.framework = "Q" => nfw')
      /\ PendingKept /\ AdapterTyped' /\ SettingsTyped' /\ AsksTyped' /\ OwnTyped'
  BY DEF Handled
<1>2. PICK L \in Seq(Call) : Keeps(L)
  BY DEF Handled
<1>3. /\ api' \in Seq(Call)
      /\ \A i \in DOMAIN api : i \in DOMAIN api' /\ api'[i] = api[i]
      /\ \A j \in DOMAIN api' : (j \in DOMAIN api /\ api'[j] = api[j]) \/ \E i \in DOMAIN L : api'[j] = L[i]
  BY <1>2, PostedIs DEF Keeps
<1>4. queue \in Seq(Message) /\ queue # <<>> /\ queue' = Tail(queue) /\ pending \in Seq(Message)
  BY <1>1 DEF Takes, TypeOK, MailTyped
<1>5. /\ queue' \in Seq(Message) /\ Head(queue) = queue[1] /\ 1 \in DOMAIN queue /\ Head(queue) \in Message
      /\ \A i \in DOMAIN queue' : \E j \in DOMAIN queue : queue'[i] = queue[j]
  <2>1. Tail(queue) \in Seq(Message) /\ Head(queue) = queue[1] /\ 1 \in DOMAIN queue /\ queue[1] \in Message
    BY <1>4, TailElements
  <2>2. ASSUME NEW i \in DOMAIN Tail(queue)
        PROVE  \E j \in DOMAIN queue : Tail(queue)[i] = queue[j]
    BY <1>4, TailFrom
  <2> QED
    BY <1>4, <2>1, <2>2
<1>6. Suits(Head(queue))
  BY <1>5 DEF MailSuits
<1>7. /\ pending' \in Seq(Message)
      /\ \A i \in DOMAIN pending' : \/ i \in DOMAIN pending /\ pending'[i] = pending[i]
                                    \/ pending'[i] = Head(queue) /\ Head(queue).kind \in WaitingKinds
  <2>1. CASE pending' = pending
    BY <1>4, <2>1
  <2>2. CASE pending' = Append(pending, Head(queue)) /\ Head(queue).kind \in WaitingKinds
    BY <1>4, <1>5, <2>2, AppendFrom
  <2> QED
    BY <1>1, <2>1, <2>2 DEF PendingKept
<1>8. TypeOK'
  BY <1>1, <1>3, <1>5, <1>7 DEF TypeOK, MailTyped, WorldTyped
<1>9. Reopens => Reopens'
  BY <1>3 DEF Reopens
<1>10. ASSUME NEW i \in DOMAIN queue, queue[i].kind = "engineUp"
       PROVE  \E j \in DOMAIN queue' : queue'[j].kind = "engineUp"
  <2>1. queue[i] # Head(queue)
    BY <1>1, <1>10 DEF Takes
  <2>2. \E j \in DOMAIN Tail(queue) : Tail(queue)[j] = queue[i]
    BY <1>4, <2>1, TailHolds
  <2> QED
    BY <1>4, <1>10, <2>2
<1>11. (IsUp => IsUp') /\ (ComesUp => ComesUp')
  BY <1>1, <1>10 DEF IsUp, ComesUp, Takes
<1>12. MailSuits'
  <2>1. \A m : Suits(m)' <=> Suits(m)
    BY <1>1 DEF Suits, MeasCorrCapabilities
  <2>2. \A i \in DOMAIN queue' : Suits(queue'[i])
    BY <1>5 DEF MailSuits
  <2>3. \A i \in DOMAIN pending' : Suits(pending'[i]) /\ pending'[i].kind \in WaitingKinds
    BY <1>6, <1>7 DEF MailSuits
  <2>4. (restoring' => FALSE) /\ (world'.framework = "Q" => nfw') /\ (~engine'.up => Reopens')
    BY <1>1, <1>9 DEF Takes, MailSuits
  <2>5. (\A i \in DOMAIN queue : Suits(queue[i]))'
    BY <1>1, <2>2 DEF Suits, MeasCorrCapabilities
  <2>6. (\A i \in DOMAIN pending : Suits(pending[i]) /\ pending[i].kind \in WaitingKinds)'
    BY <1>1, <2>3 DEF Suits, MeasCorrCapabilities
  <2> QED
    BY <2>4, <2>5, <2>6 DEF MailSuits
<1>13. CallsSuit'
  <2>1. \A i \in DOMAIN L : L[i].call \notin {"open", "default", "send", "fill"}
    BY <1>2 DEF Keeps, Ordinary
  <2> QED
    BY <1>1, <1>3, <2>1 DEF CallsSuit
<1> QED
  BY <1>8, <1>9, <1>11, <1>12, <1>13 DEF Goes

----------------------------------------------------------------------------
MailGoes ==
  /\ queue' \in Seq(Message)
  /\ (\A i \in DOMAIN queue : Suits(queue[i]))'
  /\ (\A i \in DOMAIN pending : Suits(pending[i]) /\ pending[i].kind \in WaitingKinds)'
  /\ (restoring => queue # <<>> /\ Head(queue).kind = "engineUp")'
  /\ (IsUp => IsUp') /\ (ComesUp => ComesUp')

(* A message m arrives.                                                       *)

LEMMA ArrivalGoes ==
  ASSUME TypeOK, MailSuits, NEW m \in Message, Suits(m), queue' = Append(queue, m),
         UNCHANGED <<world, restoring, pending>>
  PROVE  /\ MailGoes
         /\ m.kind = "engineUp" => IsUp' /\ ComesUp'
<1>1. queue \in Seq(Message)
  BY DEF TypeOK, MailTyped
<1>2. /\ queue' \in Seq(Message) /\ queue' # <<>>
      /\ \A i \in DOMAIN queue : i \in DOMAIN queue' /\ queue'[i] = queue[i]
      /\ Len(queue) + 1 \in DOMAIN queue' /\ queue'[Len(queue) + 1] = m
      /\ \A i \in DOMAIN queue' : (i \in DOMAIN queue /\ queue'[i] = queue[i]) \/ queue'[i] = m
      /\ queue # <<>> => Head(queue') = Head(queue) /\ Len(queue) + 1 # 1
  BY <1>1, AppendFrom
<1>3. \A i \in DOMAIN queue' : Suits(queue'[i])
  BY <1>2 DEF MailSuits
<1>4. (\A i \in DOMAIN queue : Suits(queue[i]))'
  BY <1>3 DEF Suits, MeasCorrCapabilities
<1>5. (\A i \in DOMAIN pending : Suits(pending[i]) /\ pending[i].kind \in WaitingKinds)'
  BY DEF MailSuits, Suits, MeasCorrCapabilities
<1>6. (restoring => queue # <<>> /\ Head(queue).kind = "engineUp")'
  BY <1>2 DEF MailSuits
<1>7. (IsUp => IsUp') /\ (ComesUp => ComesUp')
  BY <1>2 DEF IsUp, ComesUp
<1>8. m.kind = "engineUp" => IsUp' /\ ComesUp'
  BY <1>2 DEF IsUp, ComesUp, MailSuits
<1> QED
  BY <1>2, <1>4, <1>5, <1>6, <1>7, <1>8 DEF MailGoes

(* The mail is as it was.                                                     *)
LEMMA SameMailGoes ==
  ASSUME TypeOK, MailSuits, UNCHANGED <<world, restoring, pending, queue>>
  PROVE  MailGoes
  BY DEF MailGoes, TypeOK, MailTyped, MailSuits, Suits, MeasCorrCapabilities, IsUp, ComesUp

LEMMA CallingGoes ==
  ASSUME TypeOK, MailSuits, CallsSuit, Calling
  PROVE  Goes /\ (Reopens => Reopens') /\ (IsUp => IsUp') /\ (ComesUp => ComesUp')
<1>1. /\ UNCHANGED <<adapterVars, api, engine, world, stored, has, asked, raced>>
      /\ enables' \in Nat /\ AsksTyped' /\ OwnTyped'
  BY DEF Calling
<1>2. UNCHANGED <<world, restoring, pending>>
  BY <1>1 DEF adapterVars
<1>3. MailGoes
  <2>1. CASE UNCHANGED queue
    BY <1>2, <2>1, SameMailGoes
  <2>2. ASSUME NEW m, Arrives(m)
        PROVE  MailGoes
    BY <1>2, <2>2, ArrivalGoes DEF Arrives
  <2> QED
    BY <2>1, <2>2 DEF Calling
<1>4. Reopens => Reopens'
  BY <1>1 DEF Reopens
<1>5. TypeOK'
  BY <1>1, <1>3 DEF TypeOK, MailGoes, AdapterTyped, MailTyped, WorldTyped, SettingsTyped, adapterVars,
     lockVars, svVars
<1>6. MailSuits'
  <2>1. (world.framework = "Q" => nfw)' /\ (~engine.up => Reopens)'
    BY <1>1, <1>4 DEF MailSuits, adapterVars, lockVars
  <2> QED
    BY <1>3, <2>1 DEF MailSuits, MailGoes
<1>7. CallsSuit'
  BY <1>1 DEF CallsSuit
<1> QED
  BY <1>3, <1>4, <1>5, <1>6, <1>7 DEF Goes, MailGoes

LEMMA RunningGoes ==
  ASSUME TypeOK, MailSuits, CallsSuit, Running
  PROVE  Goes /\ (Reopens => Reopens') /\ (IsUp => IsUp') /\ (ComesUp => ComesUp')
<1>1. /\ UNCHANGED <<known, lockVars, types, pending, restoring, enables, world, askVars, second, ownVars, raced>>
      /\ QueueRan /\ EngineRan
      /\ ids' \in SUBSET Satellites /\ svIds' \in SUBSET Satellites /\ SettingsTyped'
  BY DEF Running
<1>2. PICK A, B : Ran(A, B)
  BY DEF Running
<1>3. /\ api' \in Seq(Call)
      /\ \A i \in DOMAIN api : i # 1 => \E j \in DOMAIN api' : api'[j] = api[i]
      /\ \A j \in DOMAIN api' : \/ j = 1 /\ 1 \in DOMAIN A /\ api'[j] = A[1]
                                \/ \E i \in DOMAIN api : i # 1 /\ api'[j] = api[i]
                                \/ \E i \in DOMAIN B : api'[j] = B[i]
  BY <1>2, RanIs
<1>4. MailGoes
  <2>1. CASE UNCHANGED queue
    BY <1>1, <2>1, SameMailGoes
  <2>2. ASSUME NEW m \in Message, queue' = Append(queue, m), m.kind \in {"response", "svIds"}
        PROVE  MailGoes
    <3>1. Suits(m)
      BY <2>2 DEF Suits
    <3> QED
      BY <1>1, <2>2, <3>1, ArrivalGoes
  <2> QED
    BY <1>1, <2>1, <2>2 DEF QueueRan
<1>5. Reopens => Reopens'
  <2> SUFFICES ASSUME NEW i \in DOMAIN api, api[i].call = "open"
               PROVE  Reopens'
    BY DEF Reopens
  <2>1. i # 1
    BY <1>2, HeadCallTyped DEF Ran
  <2>2. PICK j \in DOMAIN api' : api'[j] = api[i]
    BY <1>3, <2>1
  <2> QED
    BY <2>2 DEF Reopens
<1>6. TypeOK'
  <2>1. AdapterTyped'
    BY <1>1 DEF TypeOK, AdapterTyped, lockVars
  <2>2. WorldTyped'
    BY <1>1 DEF EngineRan
  <2>3. AsksTyped' /\ OwnTyped'
    BY <1>1 DEF TypeOK, AsksTyped, OwnTyped, askVars, ownVars
  <2> QED
    BY <1>1, <1>3, <1>4, <2>1, <2>2, <2>3 DEF TypeOK, MailTyped, MailGoes
<1>7. MailSuits'
  <2>1. (world.framework = "Q" => nfw)' /\ (~engine.up => Reopens)'
    BY <1>1, <1>5 DEF MailSuits, lockVars, EngineRan
  <2> QED
    BY <1>4, <2>1 DEF MailSuits, MailGoes
<1>8. CallsSuit'
  <2>1. /\ \A i \in DOMAIN A : A[i].call = "fill" => world.supported /\ A[i].svs # <<>>
        /\ \A i \in DOMAIN B : B[i].call = "set"
    BY <1>2 DEF Ran
  <2> QED
    BY <1>1, <1>3, <2>1 DEF CallsSuit
<1> QED
  BY <1>4, <1>5, <1>6, <1>7, <1>8 DEF Goes, MailGoes

LEMMA OpenedGoes ==
  ASSUME TypeOK, MailSuits, CallsSuit, Opened
  PROVE  Goes /\ IsUp' /\ ComesUp'
<1> DEFINE m == [kind |-> "engineUp"]
<1>1. /\ api # <<>> /\ Head(api).call = "open" /\ api' = Tail(api) /\ queue' = Append(queue, m)
      /\ engine' = [engine EXCEPT !.up = TRUE, !.blacklist = {}, !.enabled = {}]
      /\ has' = [s \in Kept |-> Unset]
      /\ UNCHANGED <<adapterVars, enables, world, stored, askVars, second, ownVars, raced>>
  BY DEF Opened, OpenAnew, Open, Runs
<1>2. m \in Message /\ Suits(m) /\ m.kind = "engineUp"
  BY DEF Message, PlainKinds, Suits
<1>3. UNCHANGED <<world, restoring, pending>>
  BY <1>1 DEF adapterVars
<1> HIDE DEF m
<1>4. MailGoes /\ IsUp' /\ ComesUp'
  BY <1>1, <1>2, <1>3, ArrivalGoes
<1>5. /\ engine'.up
      /\ engine' \in [up: BOOLEAN, lock: Lock, blacklist: SUBSET Satellites, enabled: SUBSET Constellations]
  BY <1>1 DEF TypeOK, WorldTyped
<1>6. api' \in Seq(Call) /\ \A i \in DOMAIN api' : \E j \in DOMAIN api : api'[i] = api[j] /\ j # 1
  <2>1. api \in Seq(Call)
    BY DEF TypeOK, MailTyped
  <2> QED
    BY <1>1, <2>1, TailElements, TailFrom
<1>7. has' \in [Kept -> Value]
  BY <1>1 DEF Value
<1>8. TypeOK'
  BY <1>1, <1>4, <1>5, <1>6, <1>7 DEF TypeOK, MailGoes, AdapterTyped, MailTyped, WorldTyped, SettingsTyped, AsksTyped,
     OwnTyped, adapterVars, lockVars, svVars, askVars, ownVars
<1>9. MailSuits'
  <2>1. (world.framework = "Q" => nfw)'
    BY <1>1 DEF MailSuits, adapterVars, lockVars
  <2> QED
    BY <1>4, <1>5, <2>1 DEF MailSuits, MailGoes
<1>10. CallsSuit'
  BY <1>1, <1>6 DEF CallsSuit
<1> QED
  BY <1>4, <1>8, <1>9, <1>10 DEF Goes, MailGoes

LEMMA DownedGoes ==
  ASSUME TypeOK, MailSuits, CallsSuit, Downed
  PROVE  Goes /\ Reopens'
<1> DEFINE c == [call |-> "open"]
<1>1. /\ engine' = [engine EXCEPT !.up = FALSE] /\ api' = Append(api, c)
      /\ UNCHANGED <<adapterVars, queue, enables, world>> /\ UNCHANGED settingVars
  BY DEF Downed, EngineDown
<1>2. c \in Call /\ c.call = "open"
  BY DEF Call
<1> HIDE DEF c
<1>3. /\ api' \in Seq(Call)
      /\ Len(api) + 1 \in DOMAIN api' /\ api'[Len(api) + 1] = c
      /\ \A i \in DOMAIN api' : (i \in DOMAIN api /\ api'[i] = api[i]) \/ api'[i] = c
  BY <1>1, <1>2, AppendFrom DEF TypeOK, MailTyped
<1>4. Reopens'
  BY <1>2, <1>3 DEF Reopens
<1>5. UNCHANGED <<world, restoring, pending, queue>>
  BY <1>1 DEF adapterVars
<1>6. MailGoes
  BY <1>5, SameMailGoes
<1>7. engine' \in [up: BOOLEAN, lock: Lock, blacklist: SUBSET Satellites, enabled: SUBSET Constellations]
  BY <1>1 DEF TypeOK, WorldTyped
<1>8. TypeOK'
  BY <1>1, <1>3, <1>6, <1>7 DEF TypeOK, MailGoes, AdapterTyped, MailTyped, WorldTyped, SettingsTyped, AsksTyped,
     OwnTyped, adapterVars, lockVars, svVars, askVars, ownVars, settingVars
<1>9. MailSuits'
  <2>1. (world.framework = "Q" => nfw)'
    BY <1>1 DEF MailSuits, adapterVars, lockVars
  <2> QED
    BY <1>4, <1>6, <2>1 DEF MailSuits, MailGoes
<1>10. CallsSuit'
  BY <1>1, <1>2, <1>3 DEF CallsSuit
<1> QED
  BY <1>4, <1>8, <1>9, <1>10 DEF Goes, MailGoes

----------------------------------------------------------------------------
(* The engine's coming up: setConfig, and what is restored after it.          *)

ConfigCall ==
  [call |-> "update", lock |-> <<ExpectedLock>>, svs |-> <<svIds>>,
   after |-> IF world.settings = {} THEN <<>> ELSE Check("tunc")]

LEMMA ConfigCallIs ==
  ASSUME TypeOK
  PROVE  /\ ConfigCall \in Call /\ ConfigCall.call = "update"
         /\ Sets(ConfigCall, "lock") /\ To(ConfigCall, "lock") = ExpectedLock
         /\ world.settings # {} => \A s : Checks(ConfigCall, s)
<1>1. ExpectedLock \in Lock /\ svIds \in SUBSET Satellites
  BY DEF TypeOK, AdapterTyped, ExpectedLock, Lock
<1>2. <<ExpectedLock>> \in Maybe(Lock) /\ <<svIds>> \in Maybe(SUBSET Satellites)
  BY <1>1, MaybeOf
<1>3. ConfigCall \in Call
  BY <1>2 DEF Call, ConfigCall
<1>4. /\ ConfigCall.call = "update" /\ ConfigCall.lock = <<ExpectedLock>>
      /\ ConfigCall.after = IF world.settings = {} THEN <<>> ELSE Check("tunc")
  BY DEF ConfigCall
<1>5. <<ExpectedLock>> # <<>> /\ <<ExpectedLock>>[1] = ExpectedLock /\ Check("tunc") # <<>>
  BY DEF Check
<1> QED
  BY <1>3, <1>4, <1>5 DEF Sets, To, Checks

LEMMA ConfigIs ==
  ASSUME TypeOK, SetConfigStep
  PROVE  /\ ~restoring /\ restoring' = TRUE /\ known' = TRUE
         /\ queue # <<>> /\ Head(queue).kind = "engineUp" /\ queue' = queue \o MeasCorrAtEngineUp
         /\ api' = api \o <<ConfigCall>>
         /\ UNCHANGED <<lockVars, svVars, pending, engine, enables, world>> /\ UNCHANGED settingVars
  BY DEF SetConfigStep, SetConfig, Handles, PostCalls, ConfigCall

LEMMA ConfigGoes ==
  ASSUME TypeOK, MailSuits, CallsSuit, SetConfigStep
  PROVE  Goes /\ (Reopens => Reopens') /\ IsUp'
<1> DEFINE m == [kind |-> "measCorr", mask |-> MeasCorrCapabilities]
<1>1. /\ ~restoring /\ restoring' = TRUE /\ known' = TRUE
      /\ queue # <<>> /\ Head(queue).kind = "engineUp" /\ queue' = queue \o MeasCorrAtEngineUp
      /\ api' = api \o <<ConfigCall>>
      /\ UNCHANGED <<lockVars, svVars, pending, engine, enables, world>> /\ UNCHANGED settingVars
  BY ConfigIs
<1>2. <<ConfigCall>> \in Seq(Call) /\ Ordinary(<<ConfigCall>>)
  BY ConfigCallIs, OneCall
<1>3. /\ api' \in Seq(Call)
      /\ \A i \in DOMAIN api : i \in DOMAIN api' /\ api'[i] = api[i]
      /\ \A j \in DOMAIN api' : \/ j \in DOMAIN api /\ api'[j] = api[j]
                                \/ \E i \in DOMAIN <<ConfigCall>> : api'[j] = <<ConfigCall>>[i]
  BY <1>1, <1>2, PostedIs
<1>4. m \in Message /\ Suits(m)
  BY DEF Message, Suits, MeasCorrCapabilities
<1>5. queue \in Seq(Message) /\ Head(queue) = queue[1] /\ 1 \in DOMAIN queue
  BY <1>1, TailElements DEF TypeOK, MailTyped
<1>6. queue' = IF corr.open THEN Append(queue, m) ELSE queue
  <2>1. queue \o <<>> = queue /\ queue \o <<m>> = Append(queue, m)
    BY <1>4, <1>5, ConcatNothing, ConcatOne
  <2> QED
    BY <1>1, <2>1 DEF MeasCorrAtEngineUp
<1> HIDE DEF m
<1>7. /\ queue' \in Seq(Message) /\ queue' # <<>> /\ Head(queue') = Head(queue)
      /\ \A i \in DOMAIN queue : i \in DOMAIN queue' /\ queue'[i] = queue[i]
      /\ \A i \in DOMAIN queue' : (i \in DOMAIN queue /\ queue'[i] = queue[i]) \/ queue'[i] = m
  <2>1. CASE corr.open
    BY <1>1, <1>4, <1>5, <1>6, <2>1, AppendFrom
  <2>2. CASE ~corr.open
    BY <1>1, <1>5, <1>6, <2>2
  <2> QED
    BY <2>1, <2>2
<1>8. Reopens => Reopens'
  BY <1>3 DEF Reopens
<1>9. IsUp'
  BY <1>1, <1>5, <1>7 DEF IsUp
<1>10. TypeOK'
  BY <1>1, <1>3, <1>7 DEF TypeOK, AdapterTyped, MailTyped, WorldTyped, SettingsTyped, AsksTyped,
     OwnTyped, lockVars, svVars, askVars, ownVars, settingVars
<1>11. MailSuits'
  <2>1. \A i \in DOMAIN queue' : Suits(queue'[i])
    BY <1>4, <1>7 DEF MailSuits
  <2>2. (\A i \in DOMAIN queue : Suits(queue[i]))'
    BY <1>1, <2>1 DEF Suits, MeasCorrCapabilities
  <2>3. (\A i \in DOMAIN pending : Suits(pending[i]) /\ pending[i].kind \in WaitingKinds)'
    BY <1>1 DEF MailSuits, Suits, MeasCorrCapabilities
  <2>4. (world.framework = "Q" => nfw)' /\ (~engine.up => Reopens)'
    BY <1>1, <1>8 DEF MailSuits, lockVars
  <2>5. (restoring => queue # <<>> /\ Head(queue).kind = "engineUp")'
    BY <1>1, <1>7
  <2> QED
    BY <2>2, <2>3, <2>4, <2>5 DEF MailSuits
<1>12. CallsSuit'
  BY <1>1, <1>2, <1>3 DEF CallsSuit, Ordinary
<1> QED
  BY <1>8, <1>9, <1>10, <1>11, <1>12 DEF Goes

RestoreCalls == SetBlacklist(ids) \o SvTypeCalls(types, FALSE)

LEMMA RestoreCallsAre ==
  ASSUME TypeOK
  PROVE  /\ RestoreCalls \in Seq(Call) /\ OnlySv(RestoreCalls) /\ Unbarred(RestoreCalls)
         /\ Brings(RestoreCalls, "blacklist", Blacklists(ids, types))
         /\ \A base, x : EndsWith(RestoreCalls, base, x) <=> x \in Enabled(types) \/ x \in base
<1> DEFINE B == SetBlacklist(ids)
           C == SvTypeCalls(types, FALSE)
<1>1. ids \in SUBSET Satellites /\ types \in Maybe(SvTypes)
  BY DEF TypeOK, AdapterTyped
<1>2. ids \in Blacklists(ids, types)
  BY <1>1 DEF Blacklists
<1>3. /\ B \in Seq(Call) /\ OnlySv(B) /\ Unbarred(B)
      /\ Brings(B, "blacklist", Blacklists(ids, types))
      /\ \A base, x : EndsWith(B, base, x) <=> x \in base
  BY <1>1, <1>2, BlacklistIs
<1>4. /\ C \in Seq(Call) /\ OnlySv(C) /\ Unbarred(C)
      /\ Quiet(C, "blacklist") \/ Brings(C, "blacklist", Blacklists(ids, types))
      /\ \A base, x : EndsWith(C, base, x) <=> x \in Enabled(types) \/ x \in base
  <2>1. CASE types = <<>>
    <3>1. C = <<>> /\ Enabled(types) = {}
      BY <2>1 DEF SvTypeCalls, Enabled
    <3> QED
      BY <3>1, NothingIs
  <2>2. CASE types # <<>>
    <3>1. types[1] \in SvTypes /\ types = <<types[1]>>
      BY <1>1, <2>2, MaybeSome
    <3>2. SvTypesKept(SvTypeCalls(<<types[1]>>, FALSE), types[1], FALSE)
      BY <1>1, <3>1, SvTypeCallsKept
    <3>3. SvTypesKept(C, types[1], FALSE) /\ Blacklists(ids, <<types[1]>>) = Blacklists(ids, types)
      BY <3>1, <3>2
    <3>4. Enabled(types) = types[1].enabled
      BY <2>2 DEF Enabled
    <3> HIDE DEF C
    <3> QED
      BY <3>3, <3>4 DEF SvTypesKept
  <2> QED
    BY <2>1, <2>2
<1> HIDE DEF B, C
<1>5. B \o C \in Seq(Call) /\ OnlySv(B \o C) /\ Unbarred(B \o C)
  BY <1>3, <1>4, OnlySvConcat
<1>6. Brings(B \o C, "blacklist", Blacklists(ids, types))
  BY <1>3, <1>4, BringsFirst, BringsLast
<1>7. \A base, x : EndsWith(B \o C, base, x) <=> x \in Enabled(types) \/ x \in base
  <2> TAKE base, x
  <2>1. x \in base <=> EndsWith(B, base, x)
    BY <1>3
  <2>2. EndsWith(B \o C, base, x) <=> EndsWith(C, base, x)
    BY <1>3, <1>4, <2>1, EndsWithConcat
  <2> QED
    BY <1>4, <2>2
<1> QED
  BY <1>5, <1>6, <1>7 DEF RestoreCalls, B, C

LEMMA RestoredIs ==
  ASSUME Restored
  PROVE  /\ restoring /\ restoring' = FALSE
         /\ api' = api \o RestoreCalls /\ queue' = Tail(queue) \o pending
         /\ pending' = [i \in DOMAIN pending |-> Freed]
         /\ UNCHANGED <<known, lockVars, svVars, engine, enables, world>> /\ UNCHANGED settingVars
  BY DEF Restored, RestoreSvConfig, SendPending, PostCalls, RestoreCalls

(* What is kept of the messages that were sent is freed messages.             *)
LEMMA FreedTyped ==
  ASSUME NEW s \in Seq(Message), NEW t, t = [i \in DOMAIN s |-> Freed]
  PROVE  t \in Seq(Message) /\ \A i \in DOMAIN t : t[i] = Freed
<1>1. Freed \in Message
  BY DEF Freed, Message, PlainKinds
<1>2. Len(s) \in Nat /\ DOMAIN s = 1..Len(s)
  OBVIOUS
<1>3. t \in [1..Len(s) -> Message]
  BY <1>1, <1>2
<1> QED
  BY <1>2, <1>3

LEMMA RestoredGoes ==
  ASSUME TypeOK, MailSuits, CallsSuit, Restored
  PROVE  Goes /\ (Reopens => Reopens') /\ (ComesUp => ComesUp')
<1>1. /\ restoring /\ restoring' = FALSE
      /\ api' = api \o RestoreCalls /\ queue' = Tail(queue) \o pending
      /\ pending' = [i \in DOMAIN pending |-> Freed]
      /\ UNCHANGED <<known, lockVars, svVars, engine, enables, world>> /\ UNCHANGED settingVars
  BY RestoredIs
<1>2. RestoreCalls \in Seq(Call) /\ Ordinary(RestoreCalls)
  BY RestoreCallsAre, OnlySvIs
<1>3. /\ api' \in Seq(Call)
      /\ \A i \in DOMAIN api : i \in DOMAIN api' /\ api'[i] = api[i]
      /\ \A j \in DOMAIN api' : \/ j \in DOMAIN api /\ api'[j] = api[j]
                                \/ \E i \in DOMAIN RestoreCalls : api'[j] = RestoreCalls[i]
  BY <1>1, <1>2, PostedIs
<1>4. queue \in Seq(Message) /\ queue # <<>> /\ pending \in Seq(Message)
  BY <1>1 DEF TypeOK, MailTyped, MailSuits
<1> DEFINE T == Tail(queue)
<1>5. /\ T \in Seq(Message) /\ T \o pending \in Seq(Message)
      /\ \A i \in DOMAIN T : i \in DOMAIN (T \o pending) /\ (T \o pending)[i] = T[i]
      /\ \A i \in DOMAIN T : \E j \in DOMAIN queue : T[i] = queue[j]
  <2>1. T \in Seq(Message)
    BY <1>4, TailElements
  <2>2. \A i \in DOMAIN T : \E j \in DOMAIN queue : T[i] = queue[j]
    BY <1>4, TailFrom
  <2> HIDE DEF T
  <2> QED
    BY <1>4, <2>1, <2>2, ConcatElements
<1>6. ASSUME NEW i \in DOMAIN (T \o pending)
      PROVE  \/ \E j \in DOMAIN queue : (T \o pending)[i] = queue[j]
             \/ \E j \in DOMAIN pending : (T \o pending)[i] = pending[j]
  <2> HIDE DEF T
  <2>1. \/ i \in DOMAIN T /\ (T \o pending)[i] = T[i]
        \/ i - Len(T) \in DOMAIN pending /\ (T \o pending)[i] = pending[i - Len(T)]
    BY <1>4, <1>5, ConcatCases
  <2> QED
    BY <1>5, <2>1
<1>7. ComesUp => ComesUp'
  <2> SUFFICES ASSUME NEW i \in DOMAIN queue, queue[i].kind = "engineUp", i # 1
               PROVE  ComesUp'
    BY <1>1 DEF ComesUp
  <2>1. PICK j \in DOMAIN T : T[j] = queue[i]
    BY <1>4, TailHolds
  <2>2. j \in DOMAIN queue' /\ queue'[j] = queue[i]
    BY <1>1, <1>5, <2>1
  <2> QED
    BY <1>1, <2>2 DEF ComesUp
<1>8. Reopens => Reopens'
  BY <1>3 DEF Reopens
<1>9. queue' = T \o pending
  BY <1>1
<1> HIDE DEF T
<1>10. pending' \in Seq(Message) /\ \A i \in DOMAIN pending' : pending'[i] = Freed
  BY <1>1, <1>4, FreedTyped
<1>13. TypeOK'
  BY <1>1, <1>3, <1>5, <1>9, <1>10 DEF TypeOK, AdapterTyped, MailTyped, WorldTyped, SettingsTyped, AsksTyped,
     OwnTyped, lockVars, svVars, askVars, ownVars, settingVars
<1>11. MailSuits'
  <2>1. \A i \in DOMAIN queue' : Suits(queue'[i])
    BY <1>6, <1>9 DEF MailSuits
  <2>2. (\A i \in DOMAIN queue : Suits(queue[i]))'
    BY <1>1, <2>1 DEF Suits, MeasCorrCapabilities
  <2>3. (\A i \in DOMAIN pending : Suits(pending[i]) /\ pending[i].kind \in WaitingKinds)'
    BY <1>10 DEF Freed, Suits, WaitingKinds
  <2>4. (world.framework = "Q" => nfw)' /\ (~engine.up => Reopens)' /\ ~restoring'
    BY <1>1, <1>8 DEF MailSuits, lockVars
  <2> QED
    BY <2>2, <2>3, <2>4 DEF MailSuits
<1>12. CallsSuit'
  BY <1>1, <1>2, <1>3 DEF CallsSuit, Ordinary
<1> QED
  BY <1>7, <1>8, <1>11, <1>12, <1>13 DEF Goes

----------------------------------------------------------------------------
(* What comes goes on coming: a message is handled.                           *)

LEMMA EnabledTyped == AdapterTyped => Enabled(types) \in SUBSET Constellations
<1> SUFFICES ASSUME AdapterTyped
             PROVE  Enabled(types) \in SUBSET Constellations
  OBVIOUS
<1>1. types \in Maybe(SvTypes)
  BY DEF AdapterTyped
<1>2. CASE types = <<>>
  BY <1>2 DEF Enabled
<1>3. CASE types # <<>>
  <2>1. types[1] \in SvTypes
    BY <1>1, <1>3, MaybeSome
  <2> QED
    BY <1>3, <2>1 DEF Enabled, SvTypes
<1> QED
  BY <1>2, <1>3

LEMMA HandledLock ==
  ASSUME TypeOK, MailSuits, CallsSuit, LockComes, Handled
  PROVE  LockComes'
<1>1. (Reopens => Reopens') /\ (ComesUp => ComesUp')
  BY HandledGoes
<1>2. PICK L \in Seq(Call) : Keeps(L)
  BY DEF Handled
<1>3. api' = api \o L /\ LockKept(L) /\ engine' = engine
  BY <1>2 DEF Keeps, Handled
<1>4. api \in Seq(Call)
  BY DEF TypeOK, MailTyped
<1>5. CASE Brings(L, "lock", {ExpectedLock'})
  <2>1. Ends(api \o L, "lock", engine.lock, {ExpectedLock'})
    BY <1>4, <1>5, EndsLast
  <2> QED
    BY <1>3, <2>1 DEF LockComes
<1>6. CASE Quiet(L, "lock") /\ ExpectedLock' = ExpectedLock /\ Ends(api, "lock", engine.lock, {ExpectedLock})
  <2>1. Ends(api \o L, "lock", engine.lock, {ExpectedLock})
    BY <1>4, <1>6, EndsFirst
  <2> QED
    BY <1>3, <1>6, <2>1 DEF LockComes
<1> QED
  BY <1>1, <1>3, <1>5, <1>6 DEF LockComes, LockKept

LEMMA HandledBlacklist ==
  ASSUME TypeOK, MailSuits, CallsSuit, BlacklistComes, Handled
  PROVE  BlacklistComes'
<1>1. (Reopens => Reopens') /\ (IsUp => IsUp')
  BY HandledGoes
<1>2. PICK L \in Seq(Call) : Keeps(L)
  BY DEF Handled
<1>3. api' = api \o L /\ BlacklistKept(L) /\ engine' = engine /\ world' = world
  BY <1>2 DEF Keeps, Handled
<1> SUFFICES ASSUME ~world.supported
             PROVE  (Reopens \/ IsUp \/ Ends(api, "blacklist", engine.blacklist, Blacklists(ids, types)))'
  BY <1>3 DEF BlacklistComes
<1>4. api \in Seq(Call)
  BY DEF TypeOK, MailTyped
<1>5. CASE Brings(L, "blacklist", Blacklists(ids', types'))
  <2>1. Ends(api \o L, "blacklist", engine.blacklist, Blacklists(ids', types'))
    BY <1>4, <1>5, EndsLast
  <2> QED
    BY <1>3, <2>1
<1>6. CASE /\ Quiet(L, "blacklist") /\ UNCHANGED <<ids, types>>
           /\ Ends(api, "blacklist", engine.blacklist, Blacklists(ids, types))
  <2>1. Ends(api \o L, "blacklist", engine.blacklist, Blacklists(ids, types))
    BY <1>4, <1>6, EndsFirst
  <2> QED
    BY <1>3, <1>6, <2>1
<1> QED
  BY <1>1, <1>3, <1>5, <1>6 DEF BlacklistComes, BlacklistKept

(* The constellations once the calls L have run behind those that wait.       *)
LEMMA PostedEnables ==
  ASSUME TypeOK, NEW L \in Seq(Call), NEW base, NEW more,
         \A x \in Constellations : EndsWith(api, base, x) => x \in more
  PROVE  /\ \A x \in Constellations : EndsWith(api \o L, base, x) => EndsWith(L, more, x)
         /\ (\A x \in more : x \in Constellations /\ EndsWith(api, base, x)) =>
              \A x \in Constellations : EndsWith(L, more, x) => EndsWith(api \o L, base, x)
<1> DEFINE mid == {y \in Constellations : EndsWith(api, base, y)}
<1>1. api \in Seq(Call)
  BY DEF TypeOK, MailTyped
<1>2. \A x \in Constellations : x \in mid <=> EndsWith(api, base, x)
  OBVIOUS
<1>3. \A x : x \in mid => x \in more
  OBVIOUS
<1>4. (\A x \in more : x \in Constellations /\ EndsWith(api, base, x)) => \A x : x \in more => x \in mid
  OBVIOUS
<1> HIDE DEF mid
<1>5. \A x \in Constellations : EndsWith(api \o L, base, x) <=> EndsWith(L, mid, x)
  BY <1>1, <1>2, EndsWithConcat
<1>6. ASSUME NEW x \in Constellations, EndsWith(api \o L, base, x)
      PROVE  EndsWith(L, more, x)
  BY <1>3, <1>5, <1>6, EndsWithGrows
<1>7. ASSUME \A x \in more : x \in Constellations /\ EndsWith(api, base, x),
             NEW x \in Constellations, EndsWith(L, more, x)
      PROVE  EndsWith(api \o L, base, x)
  BY <1>4, <1>5, <1>7, EndsWithGrows
<1> QED
  BY <1>6, <1>7

LEMMA HandledConstellations ==
  ASSUME TypeOK, MailSuits, CallsSuit, ConstellationsCome, Handled
  PROVE  ConstellationsCome'
<1>1. (Reopens => Reopens') /\ (IsUp => IsUp')
  BY HandledGoes
<1>2. PICK L \in Seq(Call) : Keeps(L)
  BY DEF Handled
<1>3. api' = api \o L /\ ConstellationsKept(L) /\ engine' = engine /\ world' = world /\ AdapterTyped'
  BY <1>2 DEF Keeps, Handled
<1> SUFFICES ASSUME ~world.integration
             PROVE  ConstellationsCome'
  BY <1>3 DEF ConstellationsCome
<1>4. /\ \A i \in DOMAIN api : api[i].call = "setConstellations" => api[i].types.blacklisted = {}
      /\ \A x \in Constellations : EndsWith(api, engine.enabled, x) => x \in Enabled(types)
      /\ Reopens \/ IsUp \/ \A x \in Enabled(types) : EndsWith(api, engine.enabled, x)
  BY DEF ConstellationsCome
<1>5. /\ \A i \in DOMAIN L : L[i].call = "setConstellations" => L[i].types.blacklisted = {}
      /\ \A x : x \in Enabled(types)' <=> EndsWith(L, Enabled(types), x)
  BY <1>3 DEF ConstellationsKept
<1>6. \A j \in DOMAIN api' : (j \in DOMAIN api /\ api'[j] = api[j]) \/ \E i \in DOMAIN L : api'[j] = L[i]
  BY <1>3, PostedIs
<1>7. (\A i \in DOMAIN api : api[i].call = "setConstellations" => api[i].types.blacklisted = {})'
  BY <1>4, <1>5, <1>6
<1>8. /\ \A x \in Constellations : EndsWith(api \o L, engine.enabled, x) => EndsWith(L, Enabled(types), x)
      /\ (\A x \in Enabled(types) : x \in Constellations /\ EndsWith(api, engine.enabled, x)) =>
           \A x \in Constellations : EndsWith(L, Enabled(types), x) => EndsWith(api \o L, engine.enabled, x)
  BY <1>4, PostedEnables
<1>9. (\A x \in Constellations : EndsWith(api, engine.enabled, x) => x \in Enabled(types))'
  BY <1>3, <1>5, <1>8
<1>10. Enabled(types) \in SUBSET Constellations /\ (Enabled(types) \in SUBSET Constellations)'
  <2>1. AdapterTyped
    BY DEF TypeOK
  <2>2. Enabled(types) \in SUBSET Constellations
    BY <2>1, EnabledTyped
  <2>3. AdapterTyped' => (Enabled(types) \in SUBSET Constellations)'
    BY EnabledTyped, PTL
  <2> QED
    BY <1>3, <2>2, <2>3
<1>11. (Reopens \/ IsUp \/ \A x \in Enabled(types) : EndsWith(api, engine.enabled, x))'
  <2>1. CASE \A x \in Enabled(types) : EndsWith(api, engine.enabled, x)
    <3>1. \A x \in Constellations : EndsWith(L, Enabled(types), x) => EndsWith(api \o L, engine.enabled, x)
      BY <1>8, <1>10, <2>1
    <3>2. \A x \in Enabled(types)' : EndsWith(api \o L, engine.enabled, x)
      BY <1>5, <1>10, <3>1
    <3> QED
      BY <1>3, <3>2
  <2> QED
    BY <1>1, <1>4, <2>1
<1> QED
  BY <1>7, <1>9, <1>11 DEF ConstellationsCome

----------------------------------------------------------------------------
LEMMA HandledValues ==
  ASSUME TypeOK, MailSuits, CallsSuit, ValuesCome, Handled
  PROVE  ValuesCome'
<1>1. (Reopens => Reopens') /\ (ComesUp => ComesUp')
  BY HandledGoes
<1>2. PICK L \in Seq(Call) : Keeps(L)
  BY DEF Handled
<1>3. api' = api \o L /\ ValuesKept(L) /\ Ordinary(L) /\ engine' = engine /\ world' = world /\ has' = has
  BY <1>2 DEF Keeps, Handled
<1> SUFFICES ASSUME world.settings # {}, NEW s \in Kept, s \notin raced'
             PROVE  ValueComes(s)'
  BY <1>3 DEF ValuesCome
<1>4. api \in Seq(Call)
  BY DEF TypeOK, MailTyped
<1>5. /\ \A i \in DOMAIN api : i \in DOMAIN api' /\ api'[i] = api[i]
      /\ \A j \in DOMAIN api' : (j \in DOMAIN api /\ api'[j] = api[j]) \/ \E i \in DOMAIN L : api'[j] = L[i]
  BY <1>3, PostedIs
<1>6. \A i \in DOMAIN L : L[i].call # "default" /\ L[i].call # "send"
  BY <1>3 DEF Ordinary
<1>7. ValueKept(L, s)
  BY <1>3 DEF ValuesKept
<1>8. CASE s \notin raced /\ Quiet(L, s) /\ stored'[s] = stored[s] /\ asked'[s] = asked[s]
  <2>1. ValueComes(s)
    BY <1>8 DEF ValuesCome
  <2>2. stored'[s] \in {asked'[s], Due(asked'[s])}
    BY <1>8, <2>1 DEF ValueComes
  <2>3. ASSUME NEW j \in DOMAIN api'
        PROVE  /\ api'[j].call = "default" /\ api'[j].setting = s => asked'[s] = Unset
               /\ api'[j].call = "send" /\ api'[j].setting = s => api'[j].value = Due(asked'[s])
    BY <1>5, <1>6, <1>8, <2>1 DEF ValueComes
  <2>4. Will(s) => Will(s)'
    BY <1>5 DEF Will
  <2>5. Ends(api, s, has[s], {Due(asked[s])}) => Ends(api', s, has'[s], {Due(asked'[s])})
    <3>1. Ends(api, s, has[s], {Due(asked[s])}) => Ends(api \o L, s, has[s], {Due(asked[s])})
      BY <1>4, <1>8, EndsFirst
    <3> QED
      BY <1>3, <1>8, <3>1
  <2> QED
    BY <1>1, <2>1, <2>2, <2>3, <2>4, <2>5 DEF ValueComes
<1>9. CASE /\ ~HoldsValueOf(s) /\ stored'[s] = asked'[s] /\ asked'[s] \in Values
           /\ Brings(L, s, {asked'[s]})
  <2>1. Due(asked'[s]) = asked'[s]
    BY <1>9, SettingsAssumption DEF Due, Unset
  <2>2. ASSUME NEW i \in DOMAIN api, api[i].call \in {"default", "send"}, api[i].setting = s
        PROVE  FALSE
    <3>1. i = 1
      BY <2>2 DEF CallsSuit
    <3>2. api # <<>> /\ Head(api) = api[1]
      BY <1>4, <3>1
    <3> QED
      BY <1>9, <2>2, <3>1, <3>2 DEF HoldsValueOf, Runs
  <2>3. ASSUME NEW j \in DOMAIN api'
        PROVE  ~(api'[j].call \in {"default", "send"} /\ api'[j].setting = s)
    BY <1>5, <1>6, <2>2
  <2>4. Ends(api \o L, s, has[s], {asked'[s]})
    BY <1>4, <1>9, EndsLast
  <2>5. Ends(api', s, has'[s], {Due(asked'[s])})
    BY <1>3, <2>1, <2>4
  <2> QED
    BY <1>9, <2>3, <2>5 DEF ValueComes
<1> QED
  BY <1>7, <1>8, <1>9 DEF ValueKept

LEMMA HandledCorr ==
  ASSUME TypeOK, MailSuits, CallsSuit, CorrComes, Handled
  PROVE  CorrComes'
<1>1. /\ queue # <<>> /\ queue' = Tail(queue) /\ known' = known /\ world' = world
      /\ corr' = IF Head(queue).kind = "measCorr"
                 THEN [corr EXCEPT !.told = @ \cup {Head(queue).mask}] ELSE corr
  BY DEF Handled, Takes, CorrKept
<1>2. queue \in Seq(Message) /\ Head(queue) = queue[1] /\ 1 \in DOMAIN queue
  BY <1>1, TailElements DEF TypeOK, MailTyped
<1>3. corr \in Corr
  BY DEF TypeOK, OwnTyped
<1>4. CASE Head(queue).kind = "measCorr"
  <2>1. Head(queue).mask = MeasCorrCapabilities
    BY <1>2, <1>4 DEF MailSuits, Suits
  <2>2. corr'.told = corr.told \cup {MeasCorrCapabilities}
    BY <1>1, <1>3, <1>4, <2>1 DEF Corr
  <2> QED
    BY <1>1, <2>2 DEF CorrComes, MeasCorrCapabilities
<1>5. CASE Head(queue).kind # "measCorr"
  <2>1. corr' = corr
    BY <1>1, <1>5
  <2>2. ASSUME NEW i \in DOMAIN queue, queue[i].kind = "measCorr"
        PROVE  \E j \in DOMAIN queue' : queue'[j].kind = "measCorr"
    <3>1. PICK j \in DOMAIN Tail(queue) : Tail(queue)[j] = queue[i]
      BY <1>1, <1>2, <1>5, <2>2, TailHolds
    <3> QED
      BY <1>1, <2>2, <3>1
  <2> QED
    BY <1>1, <2>1, <2>2 DEF CorrComes
<1> QED
  BY <1>4, <1>5

----------------------------------------------------------------------------
(* A caller's message arrives, or a caller looks.                             *)

LEMMA CallingComes ==
  ASSUME TypeOK, MailSuits, CallsSuit, Calling,
         LockComes, BlacklistComes, ConstellationsCome, ValuesCome, CorrComes
  PROVE  LockComes' /\ BlacklistComes' /\ ConstellationsCome' /\ ValuesCome' /\ CorrComes'
<1>1. /\ UNCHANGED <<known, lockVars, svVars, pending, restoring>>
      /\ UNCHANGED <<api, engine, world, stored, has, asked, raced>>
      /\ UNCHANGED queue \/ \E m : Arrives(m)
      /\ CorrArrives
  BY DEF Calling, adapterVars
<1>2. (Reopens => Reopens') /\ (IsUp => IsUp') /\ (ComesUp => ComesUp')
  BY CallingGoes
<1>3. LockComes'
  BY <1>1, <1>2 DEF LockComes, ExpectedLock, lockVars
<1>4. BlacklistComes'
  BY <1>1, <1>2 DEF BlacklistComes, svVars
<1>5. ConstellationsCome'
  BY <1>1, <1>2 DEF ConstellationsCome, svVars
<1>6. ValuesCome'
  <2> SUFFICES ASSUME world.settings # {}, NEW s \in Kept \ raced
               PROVE  ValueComes(s)'
    BY <1>1 DEF ValuesCome
  <2>1. ValueComes(s)
    BY DEF ValuesCome
  <2>2. Will(s)' <=> Will(s)
    BY <1>1 DEF Will
  <2> QED
    BY <1>1, <1>2, <2>1, <2>2 DEF ValueComes
<1>7. CorrComes'
  <2>1. queue \in Seq(Message)
    BY DEF TypeOK, MailTyped
  <2>2. \A i \in DOMAIN queue : i \in DOMAIN queue' /\ queue'[i] = queue[i]
    <3>1. ASSUME NEW m, Arrives(m)
          PROVE  \A i \in DOMAIN queue : i \in DOMAIN queue' /\ queue'[i] = queue[i]
      BY <2>1, <3>1, AppendFrom DEF Arrives
    <3> QED
      BY <1>1, <3>1
  <2>3. ASSUME NEW m, Arrives(m), m.kind = "measCorr"
        PROVE  \E i \in DOMAIN queue' : queue'[i].kind = "measCorr"
    <3>1. Len(queue) + 1 \in DOMAIN queue' /\ queue'[Len(queue) + 1] = m
      BY <2>1, <2>3, AppendFrom DEF Arrives
    <3> QED
      BY <2>3, <3>1
  <2>4. world.supported => corr'.told \subseteq {"all"}
    BY <1>1 DEF CorrComes, CorrArrives
  <2>5. corr'.open /\ ~corr'.looking /\ corr'.told = {} =>
          ~known \/ \E i \in DOMAIN queue' : queue'[i].kind = "measCorr"
    BY <1>1, <2>2, <2>3 DEF CorrComes, CorrArrives
  <2> QED
    BY <1>1, <2>4, <2>5 DEF CorrComes
<1> QED
  BY <1>3, <1>4, <1>5, <1>6, <1>7

----------------------------------------------------------------------------
(* The LocApi's thread runs a call.                                           *)

LEMMA RanQuiet ==
  ASSUME NEW A, NEW B, Ran(A, B)
  PROVE  /\ Quiet(A, "lock") /\ Quiet(B, "lock")
         /\ Quiet(A, "blacklist") /\ Quiet(B, "blacklist")
         /\ \A s : Quiet(A, s)
         /\ Plain(A) /\ Plain(B)
<1>1. A \in Seq(Call) /\ B \in Seq(Call)
  BY DEF Ran
<1>2. /\ \A i \in DOMAIN A : A[i].call \in {"fill", "check", "default", "send"}
      /\ \A i \in DOMAIN B : B[i].call = "set"
  BY DEF Ran
<1>3. \A i \in DOMAIN B : B[i].setting \in Kept
  <2> SUFFICES ASSUME NEW i \in DOMAIN B
               PROVE  B[i].setting \in Kept
    OBVIOUS
  <2>1. B[i] \in Call
    BY <1>1, ElementTyped
  <2> QED
    BY <1>2, <2>1, CallFields
<1>4. \A s : Quiet(A, s)
  BY <1>2 DEF Quiet, Sets
<1>5. Quiet(B, "lock") /\ Quiet(B, "blacklist")
  BY <1>2, <1>3 DEF Quiet, Sets, Kept
<1>6. Plain(A) /\ Plain(B)
  BY <1>2 DEF Plain, Clears
<1> QED
  BY <1>4, <1>5, <1>6

LEMMA RunningEnds ==
  ASSUME TypeOK, NEW A, NEW B, Ran(A, B), NEW t, NEW base, NEW V,
         Quiet(A, t), Quiet(B, t), Ends(api, t, base, V)
  PROVE  Ends(api', t, After(t, base), V)
<1> DEFINE new == After(t, base)
<1>1. /\ api \in Seq(Call) /\ api # <<>> /\ A \in Seq(Call) /\ B \in Seq(Call)
      /\ api' = (A \o Tail(api)) \o B
  BY DEF Ran, TypeOK, MailTyped
<1>2. new = IF Sets(Head(api), t) THEN To(Head(api), t) ELSE base
  BY DEF After
<1> HIDE DEF new
<1>3. Ends((A \o Tail(api)) \o B, t, new, V)
  BY <1>1, <1>2, EndsOn
<1> QED
  BY <1>1, <1>3 DEF new

LEMMA RunningLock ==
  ASSUME TypeOK, MailSuits, CallsSuit, LockComes, Running
  PROVE  LockComes'
<1>1. (Reopens => Reopens') /\ (ComesUp => ComesUp')
  BY RunningGoes
<1>2. PICK A, B : Ran(A, B)
  BY DEF Running
<1>3. UNCHANGED lockVars /\ EngineRan
  BY DEF Running
<1>4. CASE engine.up /\ Ends(api, "lock", engine.lock, {ExpectedLock})
  <2>1. Ends(api', "lock", After("lock", engine.lock), {ExpectedLock})
    BY <1>2, <1>4, RanQuiet, RunningEnds
  <2>2. engine'.lock = After("lock", engine.lock) /\ ExpectedLock' = ExpectedLock
    BY <1>3, <1>4 DEF EngineRan, ExpectedLock, lockVars
  <2>3. Ends(api', "lock", engine'.lock, {ExpectedLock'})
    BY <2>1, <2>2
  <2> QED
    BY <2>3 DEF LockComes
<1> QED
  BY <1>1, <1>4 DEF LockComes, MailSuits

LEMMA RunningBlacklist ==
  ASSUME TypeOK, MailSuits, CallsSuit, BlacklistComes, Running
  PROVE  BlacklistComes'
<1>1. (Reopens => Reopens') /\ (IsUp => IsUp')
  BY RunningGoes
<1>2. PICK A, B : Ran(A, B)
  BY DEF Running
<1>3. types' = types /\ world' = world /\ EngineRan /\ (~world.supported => ids' = ids)
  BY DEF Running
<1> SUFFICES ASSUME ~world.supported
             PROVE  (Reopens \/ IsUp \/ Ends(api, "blacklist", engine.blacklist, Blacklists(ids, types)))'
  BY <1>3 DEF BlacklistComes
<1>4. CASE engine.up /\ Ends(api, "blacklist", engine.blacklist, Blacklists(ids, types))
  <2>1. Ends(api', "blacklist", After("blacklist", engine.blacklist), Blacklists(ids, types))
    BY <1>2, <1>4, RanQuiet, RunningEnds
  <2>2. engine'.blacklist = After("blacklist", engine.blacklist)
    BY <1>3, <1>4 DEF EngineRan
  <2> QED
    BY <1>3, <2>1, <2>2
<1> QED
  BY <1>1, <1>4 DEF BlacklistComes, MailSuits

LEMMA RunningEnables ==
  ASSUME TypeOK, MailSuits, CallsSuit, ConstellationsCome, ~world.integration, Running
  PROVE  \A x \in Constellations : EndsWith(api', engine'.enabled, x) <=> EndsWith(api, engine.enabled, x)
<1>1. PICK A, B : Ran(A, B)
  BY DEF Running
<1> SUFFICES ASSUME NEW x \in Constellations
             PROVE  EndsWith(api', engine'.enabled, x) <=> EndsWith(api, engine.enabled, x)
  OBVIOUS
<1> DEFINE T == Tail(api)
           base == engine'.enabled
<1>2. /\ api \in Seq(Call) /\ api # <<>> /\ A \in Seq(Call) /\ B \in Seq(Call) /\ T \in Seq(Call)
      /\ api' = (A \o T) \o B /\ Head(api).call # "open"
  BY <1>1, HeadCallTyped DEF Ran, TypeOK, MailTyped
<1>3. Plain(A) /\ Plain(B)
  BY <1>1, RanQuiet
<1>4. EngineRan
  BY DEF Running
<1>5. EndsWith(T, base, x) <=> EndsWith(api, engine.enabled, x)
  <2>1. CASE engine.up
    <3>1. x \in base <=> EndsWith(<<Head(api)>>, engine.enabled, x)
      BY <1>4, <2>1 DEF EngineRan
    <3> HIDE DEF base
    <3> QED
      BY <1>2, <3>1, EndsWithTail DEF T
  <2>2. CASE ~engine.up
    <3>1. PICK k \in DOMAIN api : api[k].call = "open"
      BY <2>2 DEF MailSuits, Reopens
    <3>2. PICK j \in DOMAIN T : T[j] = api[k]
      BY <1>2, <3>1, TailHolds DEF T
    <3>3. Clears(T[j])
      BY <3>1, <3>2 DEF Clears
    <3> DEFINE new == IF EndsWith(<<Head(api)>>, engine.enabled, x) THEN {x} ELSE {}
    <3>4. x \in new <=> EndsWith(<<Head(api)>>, engine.enabled, x)
      OBVIOUS
    <3> HIDE DEF new, base
    <3>5. EndsWith(T, new, x) <=> EndsWith(api, engine.enabled, x)
      BY <1>2, <3>4, EndsWithTail DEF T
    <3>6. EndsWith(T, new, x) <=> EndsWith(T, base, x)
      BY <3>3 DEF EndsWith
    <3> QED
      BY <3>5, <3>6
  <2> QED
    BY <2>1, <2>2
<1> HIDE DEF T, base
<1>6. EndsWith(A \o T, base, x) <=> EndsWith(T, base, x)
  <2>1. x \in base <=> EndsWith(A, base, x)
    BY <1>3, EndsWithPlain
  <2> QED
    BY <1>2, <2>1, EndsWithConcat
<1> DEFINE M == A \o T
           mid == IF EndsWith(M, base, x) THEN {x} ELSE {}
<1>7. M \in Seq(Call) /\ (x \in mid <=> EndsWith(M, base, x))
  BY <1>2
<1> HIDE DEF M, mid
<1>8. EndsWith(M \o B, base, x) <=> EndsWith(M, base, x)
  <2>1. EndsWith(M \o B, base, x) <=> EndsWith(B, mid, x)
    BY <1>2, <1>7, EndsWithConcat
  <2> QED
    BY <1>3, <1>7, <2>1, EndsWithPlain
<1> QED
  BY <1>2, <1>5, <1>6, <1>8 DEF M, base

LEMMA RunningConstellations ==
  ASSUME TypeOK, MailSuits, CallsSuit, ConstellationsCome, Running
  PROVE  ConstellationsCome'
<1>1. (Reopens => Reopens') /\ (IsUp => IsUp')
  BY RunningGoes
<1>2. PICK A, B : Ran(A, B)
  BY DEF Running
<1>3. types' = types /\ world' = world
  BY DEF Running
<1> SUFFICES ASSUME ~world.integration
             PROVE  ConstellationsCome'
  BY <1>3 DEF ConstellationsCome
<1>4. \A x \in Constellations : EndsWith(api', engine'.enabled, x) <=> EndsWith(api, engine.enabled, x)
  BY RunningEnables
<1>5. (\A i \in DOMAIN api : api[i].call = "setConstellations" => api[i].types.blacklisted = {})'
  <2> SUFFICES ASSUME NEW j \in DOMAIN api', api'[j].call = "setConstellations"
               PROVE  api'[j].types.blacklisted = {}
    OBVIOUS
  <2>1. /\ \A i \in DOMAIN A : A[i].call # "setConstellations"
        /\ \A i \in DOMAIN B : B[i].call # "setConstellations"
    BY <1>2 DEF Ran
  <2>2. \E i \in DOMAIN api : api'[j] = api[i]
    BY <1>2, <2>1, RanIs
  <2> QED
    BY <2>2 DEF ConstellationsCome
<1>6. (\A x \in Constellations : EndsWith(api, engine.enabled, x) => x \in Enabled(types))'
  BY <1>3, <1>4 DEF ConstellationsCome
<1>7. Enabled(types) \in SUBSET Constellations
  BY EnabledTyped DEF TypeOK
<1>8. (Reopens \/ IsUp \/ \A x \in Enabled(types) : EndsWith(api, engine.enabled, x))'
  <2>1. CASE \A x \in Enabled(types) : EndsWith(api, engine.enabled, x)
    BY <1>3, <1>4, <1>7, <2>1
  <2> QED
    BY <1>1, <2>1 DEF ConstellationsCome
<1> QED
  BY <1>5, <1>6, <1>8 DEF ConstellationsCome

----------------------------------------------------------------------------
LEMMA RunningValues ==
  ASSUME TypeOK, MailSuits, CallsSuit, ValuesCome, Running
  PROVE  ValuesCome'
<1>1. (Reopens => Reopens') /\ (ComesUp => ComesUp')
  BY RunningGoes
<1>2. PICK A, B : Ran(A, B) /\ ValuesRan(A, B)
  BY DEF Running
<1>3. asked' = asked /\ raced' = raced /\ world' = world
  BY DEF Running, askVars
<1> SUFFICES ASSUME world.settings # {}, NEW s \in Kept \ raced
             PROVE  ValueComes(s)'
  BY <1>3 DEF ValuesCome
<1>4. ValueComes(s) /\ ValueRan(A, B, s)
  BY <1>2 DEF ValuesCome, ValuesRan
<1>5. /\ api \in Seq(Call) /\ api # <<>> /\ Head(api) = api[1]
      /\ A \in Seq(Call) /\ B \in Seq(Call) /\ A \o Tail(api) \in Seq(Call)
      /\ api' = (A \o Tail(api)) \o B
  BY <1>2, HeadCallTyped DEF Ran, TypeOK, MailTyped
<1>6. /\ \A i \in DOMAIN api : i # 1 => \E j \in DOMAIN api' : api'[j] = api[i]
      /\ \A i \in DOMAIN A : \E j \in DOMAIN api' : api'[j] = A[i]
      /\ \A j \in DOMAIN api' : \/ j = 1 /\ 1 \in DOMAIN A /\ api'[j] = A[1]
                                \/ \E i \in DOMAIN api : i # 1 /\ api'[j] = api[i]
                                \/ \E i \in DOMAIN B : api'[j] = B[i]
  BY <1>2, RanIs
<1>7. \A i \in DOMAIN B : B[i].call = "set"
  BY <1>2 DEF Ran
<1>8. stored'[s] \in {asked'[s], Due(asked'[s])}
  BY <1>3, <1>4 DEF ValueRan
<1>9. ASSUME NEW j \in DOMAIN api'
      PROVE  /\ api'[j].call = "default" /\ api'[j].setting = s => asked'[s] = Unset
             /\ api'[j].call = "send" /\ api'[j].setting = s => api'[j].value = Due(asked'[s])
  <2>1. CASE 1 \in DOMAIN A /\ api'[j] = A[1]
    BY <1>3, <1>4, <2>1 DEF ValueRan
  <2>2. CASE \E i \in DOMAIN api : api'[j] = api[i]
    BY <1>3, <1>4, <2>2 DEF ValueComes
  <2>3. CASE \E i \in DOMAIN B : api'[j] = B[i]
    BY <1>7, <2>3
  <2> QED
    BY <1>6, <2>1, <2>2, <2>3
<1>10. Brings(B, s, {Due(asked[s])}) => Ends(api', s, has'[s], {Due(asked[s])})
  <2> DEFINE M == A \o Tail(api)
  <2>1. M \in Seq(Call) /\ api' = M \o B
    BY <1>5
  <2> HIDE DEF M
  <2> SUFFICES ASSUME Brings(B, s, {Due(asked[s])})
               PROVE  Ends(M \o B, s, has'[s], {Due(asked[s])})
    BY <2>1
  <2> QED
    BY <1>5, <2>1, EndsLast
<1>11. Will(s) => Will(s)' \/ Ends(api', s, has'[s], {Due(asked[s])})
  <2> SUFFICES ASSUME NEW i \in DOMAIN api, Checks(api[i], s)
               PROVE  Will(s)' \/ Ends(api', s, has'[s], {Due(asked[s])})
    BY DEF Will
  <2>1. CASE i # 1
    <3>1. PICK j \in DOMAIN api' : api'[j] = api[i]
      BY <1>6, <2>1
    <3> QED
      BY <3>1 DEF Will
  <2>2. CASE i = 1
    <3>1. (\E k \in DOMAIN A : Checks(A[k], s)) \/ Brings(B, s, {Due(asked[s])})
      BY <1>4, <1>5, <2>2 DEF ValueRan
    <3>2. ASSUME NEW k \in DOMAIN A, Checks(A[k], s)
          PROVE  Will(s)'
      <4>1. PICK j \in DOMAIN api' : api'[j] = A[k]
        BY <1>6
      <4> QED
        BY <3>2, <4>1 DEF Will
    <3> QED
      BY <1>10, <3>1, <3>2
  <2> QED
    BY <2>1, <2>2
<1>12. engine.up /\ Ends(api, s, has[s], {Due(asked[s])}) => Ends(api', s, has'[s], {Due(asked[s])})
  <2> SUFFICES ASSUME engine.up, Ends(api, s, has[s], {Due(asked[s])})
               PROVE  Ends(api', s, has'[s], {Due(asked[s])})
    OBVIOUS
  <2>1. CASE Quiet(B, s)
    <3>1. Quiet(A, s)
      BY <1>2, RanQuiet
    <3>2. Ends(api', s, After(s, has[s]), {Due(asked[s])})
      BY <1>2, <2>1, <3>1, RunningEnds
    <3> QED
      BY <1>4, <3>2 DEF ValueRan
  <2> QED
    BY <1>4, <1>10, <2>1 DEF ValueRan
<1>13. (Reopens \/ ComesUp \/ Will(s) \/ Ends(api, s, has[s], {Due(asked[s])}))'
  BY <1>1, <1>3, <1>4, <1>11, <1>12 DEF ValueComes, MailSuits
<1> QED
  BY <1>8, <1>9, <1>13 DEF ValueComes

LEMMA RunningCorr ==
  ASSUME TypeOK, MailSuits, CallsSuit, CorrComes, Running
  PROVE  CorrComes'
<1>1. known' = known /\ world' = world /\ corr' = corr /\ QueueRan
  BY DEF Running, ownVars
<1>2. queue \in Seq(Message)
  BY DEF TypeOK, MailTyped
<1>3. \A i \in DOMAIN queue : i \in DOMAIN queue' /\ queue'[i] = queue[i]
  BY <1>1, <1>2, AppendFrom DEF QueueRan
<1> QED
  BY <1>1, <1>3 DEF CorrComes

----------------------------------------------------------------------------
(* The engine opens: all of it will be sent.                                  *)

LEMMA OpenedComes ==
  ASSUME TypeOK, MailSuits, CallsSuit, Opened,
         LockComes, BlacklistComes, ConstellationsCome, ValuesCome, CorrComes
  PROVE  LockComes' /\ BlacklistComes' /\ ConstellationsCome' /\ ValuesCome' /\ CorrComes'
<1> DEFINE m == [kind |-> "engineUp"]
<1>1. /\ api # <<>> /\ Head(api).call = "open" /\ api' = Tail(api) /\ queue' = Append(queue, m)
      /\ engine' = [engine EXCEPT !.up = TRUE, !.blacklist = {}, !.enabled = {}]
      /\ UNCHANGED <<adapterVars, enables, world, stored, askVars, second, ownVars, raced>>
  BY DEF Opened, OpenAnew, Open, Runs
<1>2. m \in Message
  BY DEF Message, PlainKinds
<1> HIDE DEF m
<1>3. IsUp' /\ ComesUp'
  BY OpenedGoes
<1>4. api \in Seq(Call) /\ queue \in Seq(Message)
  BY DEF TypeOK, MailTyped
<1>5. engine'.enabled = {}
  BY <1>1 DEF TypeOK, WorldTyped
<1>6. \A i \in DOMAIN api' : \E j \in DOMAIN api : api'[i] = api[j] /\ j # 1
  BY <1>1, <1>4, TailFrom
<1>7. LockComes' /\ BlacklistComes'
  BY <1>3 DEF LockComes, BlacklistComes
<1>8. ConstellationsCome'
  <2> SUFFICES ASSUME ~world.integration
               PROVE  ConstellationsCome'
    BY <1>1 DEF ConstellationsCome
  <2>1. (\A i \in DOMAIN api : api[i].call = "setConstellations" => api[i].types.blacklisted = {})'
    BY <1>6 DEF ConstellationsCome
  <2>2. ASSUME NEW x \in Constellations, EndsWith(api', engine'.enabled, x)
        PROVE  x \in Enabled(types)
    <3> DEFINE c == Head(api)
    <3>1. ~Adds(c, x) /\ Clears(c)
      BY <1>1 DEF Adds, Clears
    <3>2. x \in {} <=> EndsWith(<<c>>, engine.enabled, x)
      BY <3>1, EndsWithOne
    <3>3. EndsWith(Tail(api), {}, x) <=> EndsWith(api, engine.enabled, x)
      BY <1>1, <1>4, <3>2, EndsWithTail
    <3> QED
      BY <1>1, <1>5, <2>2, <3>3 DEF ConstellationsCome
  <2>3. types' = types
    BY <1>1 DEF adapterVars, svVars
  <2>4. (\A x \in Constellations : EndsWith(api, engine.enabled, x) => x \in Enabled(types))'
    BY <2>2, <2>3
  <2> QED
    BY <1>3, <2>1, <2>4 DEF ConstellationsCome
<1>9. ValuesCome'
  <2> SUFFICES ASSUME world.settings # {}, NEW s \in Kept \ raced
               PROVE  ValueComes(s)'
    BY <1>1 DEF ValuesCome
  <2>1. ValueComes(s) /\ stored' = stored /\ asked' = asked
    BY <1>1 DEF ValuesCome, askVars
  <2> QED
    BY <1>3, <1>6, <2>1 DEF ValueComes
<1>10. CorrComes'
  <2>1. \A i \in DOMAIN queue : i \in DOMAIN queue' /\ queue'[i] = queue[i]
    BY <1>1, <1>2, <1>4, AppendFrom
  <2>2. known' = known /\ corr' = corr /\ world' = world
    BY <1>1 DEF adapterVars, ownVars
  <2> QED
    BY <2>1, <2>2 DEF CorrComes
<1> QED
  BY <1>7, <1>8, <1>9, <1>10

----------------------------------------------------------------------------
(* The engine goes down: it will be opened again.                             *)

LEMMA DownedComes ==
  ASSUME TypeOK, MailSuits, CallsSuit, Downed,
         LockComes, BlacklistComes, ConstellationsCome, ValuesCome, CorrComes
  PROVE  LockComes' /\ BlacklistComes' /\ ConstellationsCome' /\ ValuesCome' /\ CorrComes'
<1> DEFINE c == [call |-> "open"]
<1>1. /\ engine' = [engine EXCEPT !.up = FALSE] /\ api' = Append(api, c)
      /\ UNCHANGED <<adapterVars, queue, enables, world>> /\ UNCHANGED settingVars
  BY DEF Downed, EngineDown
<1>2. c \in Call /\ c.call = "open" /\ Clears(c) /\ \A x : ~Adds(c, x)
  BY DEF Call, Clears, Adds
<1> HIDE DEF c
<1>3. Reopens'
  BY DownedGoes
<1>4. api \in Seq(Call) /\ <<c>> \in Seq(Call) /\ api' = api \o <<c>>
  BY <1>1, <1>2, ConcatOne DEF TypeOK, MailTyped
<1>5. \A i \in DOMAIN api' : (i \in DOMAIN api /\ api'[i] = api[i]) \/ api'[i] = c
  BY <1>1, <1>2, <1>4, AppendFrom
<1>6. LockComes' /\ BlacklistComes'
  BY <1>3 DEF LockComes, BlacklistComes
<1>7. ConstellationsCome'
  <2> SUFFICES ASSUME ~world.integration
               PROVE  ConstellationsCome'
    BY <1>1 DEF ConstellationsCome
  <2>1. (\A i \in DOMAIN api : api[i].call = "setConstellations" => api[i].types.blacklisted = {})'
    BY <1>2, <1>5 DEF ConstellationsCome
  <2>2. ASSUME NEW x, NEW base
        PROVE  ~EndsWith(api \o <<c>>, base, x)
    <3> DEFINE mid == IF EndsWith(api, base, x) THEN {x} ELSE {}
    <3>1. x \in mid <=> EndsWith(api, base, x)
      OBVIOUS
    <3> HIDE DEF mid
    <3>2. EndsWith(api \o <<c>>, base, x) <=> EndsWith(<<c>>, mid, x)
      BY <1>4, <3>1, EndsWithConcat
    <3> QED
      BY <1>2, <3>2, EndsWithOne
  <2> QED
    BY <1>3, <1>4, <2>1, <2>2 DEF ConstellationsCome
<1>8. ValuesCome'
  <2> SUFFICES ASSUME world.settings # {}, NEW s \in Kept \ raced
               PROVE  ValueComes(s)'
    BY <1>1 DEF ValuesCome, settingVars
  <2>1. ValueComes(s) /\ stored' = stored /\ asked' = asked
    BY <1>1 DEF ValuesCome, settingVars, askVars
  <2> QED
    BY <1>2, <1>3, <1>5, <2>1 DEF ValueComes
<1>9. CorrComes'
  BY <1>1 DEF CorrComes, adapterVars, settingVars, ownVars
<1> QED
  BY <1>6, <1>7, <1>8, <1>9

(* The adapter configures the engine that has come up.                        *)
LEMMA ConfigComes ==
  ASSUME TypeOK, MailSuits, CallsSuit, SetConfigStep,
         LockComes, BlacklistComes, ConstellationsCome, ValuesCome, CorrComes
  PROVE  LockComes' /\ BlacklistComes' /\ ConstellationsCome' /\ ValuesCome' /\ CorrComes'
<1> DEFINE c == ConfigCall
<1>1. /\ known' = TRUE
      /\ queue # <<>> /\ queue' = queue \o MeasCorrAtEngineUp
      /\ api' = api \o <<c>>
      /\ UNCHANGED <<lockVars, svVars, pending, engine, enables, world>> /\ UNCHANGED settingVars
  BY ConfigIs
<1>2. /\ c \in Call /\ c.call = "update"
      /\ Sets(c, "lock") /\ To(c, "lock") = ExpectedLock
      /\ world.settings # {} => \A s : Checks(c, s)
  BY ConfigCallIs
<1> HIDE DEF c
<1>3. IsUp' /\ (Reopens => Reopens')
  BY ConfigGoes
<1>4. api \in Seq(Call) /\ <<c>> \in Seq(Call) /\ api' = Append(api, c)
  BY <1>1, <1>2, ConcatOne DEF TypeOK, MailTyped
<1>5. /\ \A i \in DOMAIN api' : (i \in DOMAIN api /\ api'[i] = api[i]) \/ api'[i] = c
      /\ Len(api) + 1 \in DOMAIN api' /\ api'[Len(api) + 1] = c
  BY <1>2, <1>4, AppendFrom
<1>6. LockComes'
  <2>1. Brings(<<c>>, "lock", {ExpectedLock}) /\ ExpectedLock' = ExpectedLock
    BY <1>1, <1>2, OneCall DEF ExpectedLock, lockVars
  <2>2. Ends(api \o <<c>>, "lock", engine.lock, {ExpectedLock})
    BY <1>4, <2>1, EndsLast
  <2>3. Ends(api', "lock", engine'.lock, {ExpectedLock'})
    BY <1>1, <2>1, <2>2
  <2> QED
    BY <2>3 DEF LockComes
<1>7. BlacklistComes'
  BY <1>3 DEF BlacklistComes
<1>8. ConstellationsCome'
  <2> SUFFICES ASSUME ~world.integration
               PROVE  ConstellationsCome'
    BY <1>1 DEF ConstellationsCome
  <2>1. (\A i \in DOMAIN api : api[i].call = "setConstellations" => api[i].types.blacklisted = {})'
    BY <1>2, <1>5 DEF ConstellationsCome
  <2>2. ASSUME NEW x, NEW base
        PROVE  EndsWith(api \o <<c>>, base, x) <=> EndsWith(api, base, x)
    <3> DEFINE mid == IF EndsWith(api, base, x) THEN {x} ELSE {}
    <3>1. x \in mid <=> EndsWith(api, base, x)
      OBVIOUS
    <3> HIDE DEF mid
    <3>2. EndsWith(api \o <<c>>, base, x) <=> EndsWith(<<c>>, mid, x)
      BY <1>4, <3>1, EndsWithConcat
    <3>3. Plain(<<c>>)
      BY <1>2, OneCall
    <3> QED
      BY <3>1, <3>2, <3>3, EndsWithPlain
  <2>3. types' = types /\ engine' = engine
    BY <1>1 DEF svVars
  <2>4. (\A x \in Constellations : EndsWith(api, engine.enabled, x) => x \in Enabled(types))'
    BY <1>1, <2>2, <2>3 DEF ConstellationsCome
  <2> QED
    BY <1>3, <2>1, <2>4 DEF ConstellationsCome
<1>9. ValuesCome'
  <2> SUFFICES ASSUME world.settings # {}, NEW s \in Kept \ raced
               PROVE  ValueComes(s)'
    BY <1>1 DEF ValuesCome, settingVars
  <2>1. ValueComes(s) /\ stored' = stored /\ asked' = asked
    BY <1>1 DEF ValuesCome, settingVars, askVars
  <2>2. Will(s)'
    BY <1>2, <1>5 DEF Will
  <2> QED
    BY <1>2, <1>5, <2>1, <2>2 DEF ValueComes
<1>10. CorrComes'
  <2>1. corr' = corr /\ world' = world
    BY <1>1 DEF settingVars, ownVars
  <2>2. ASSUME corr.open
        PROVE  \E i \in DOMAIN queue' : queue'[i].kind = "measCorr"
    <3> DEFINE m == [kind |-> "measCorr", mask |-> MeasCorrCapabilities]
    <3>1. m \in Message /\ m.kind = "measCorr"
      BY DEF Message, MeasCorrCapabilities
    <3>2. queue' = queue \o <<m>>
      BY <1>1, <2>2 DEF MeasCorrAtEngineUp
    <3> HIDE DEF m
    <3>3. queue \in Seq(Message)
      BY DEF TypeOK, MailTyped
    <3>4. queue' = Append(queue, m)
      BY <3>1, <3>2, <3>3, ConcatOne
    <3>5. Len(queue) + 1 \in DOMAIN queue' /\ queue'[Len(queue) + 1] = m
      BY <3>1, <3>3, <3>4, AppendFrom
    <3> QED
      BY <3>1, <3>5
  <2> QED
    BY <2>1, <2>2 DEF CorrComes
<1> QED
  BY <1>6, <1>7, <1>8, <1>9, <1>10

(* ... and restores the satellites and constellations.                        *)
LEMMA RestoredComes ==
  ASSUME TypeOK, MailSuits, CallsSuit, Restored,
         LockComes, BlacklistComes, ConstellationsCome, ValuesCome, CorrComes
  PROVE  LockComes' /\ BlacklistComes' /\ ConstellationsCome' /\ ValuesCome' /\ CorrComes'
<1> DEFINE L == RestoreCalls
<1>1. /\ restoring /\ api' = api \o L /\ queue' = Tail(queue) \o pending
      /\ UNCHANGED <<known, lockVars, svVars, engine, enables, world>> /\ UNCHANGED settingVars
  BY RestoredIs
<1>2. /\ L \in Seq(Call) /\ OnlySv(L) /\ Unbarred(L)
      /\ Brings(L, "blacklist", Blacklists(ids, types))
      /\ \A base, x : EndsWith(L, base, x) <=> x \in Enabled(types) \/ x \in base
  BY RestoreCallsAre
<1> HIDE DEF L
<1>3. (Reopens => Reopens') /\ (ComesUp => ComesUp')
  BY RestoredGoes
<1>4. Ordinary(L) /\ Quiet(L, "lock") /\ \A s \in Kept : Quiet(L, s)
  BY <1>2, OnlySvIs
<1>5. api \in Seq(Call) /\ queue \in Seq(Message) /\ pending \in Seq(Message)
  BY DEF TypeOK, MailTyped
<1>6. /\ \A i \in DOMAIN api : i \in DOMAIN api' /\ api'[i] = api[i]
      /\ \A j \in DOMAIN api' : (j \in DOMAIN api /\ api'[j] = api[j]) \/ \E i \in DOMAIN L : api'[j] = L[i]
  BY <1>1, <1>2, PostedIs
<1>7. LockComes'
  <2>1. Ends(api, "lock", engine.lock, {ExpectedLock}) => Ends(api \o L, "lock", engine.lock, {ExpectedLock})
    BY <1>2, <1>4, <1>5, EndsFirst
  <2>2. ExpectedLock' = ExpectedLock
    BY <1>1 DEF ExpectedLock, lockVars
  <2>3. Ends(api, "lock", engine.lock, {ExpectedLock}) => Ends(api', "lock", engine'.lock, {ExpectedLock'})
    BY <1>1, <2>1, <2>2
  <2> QED
    BY <1>3, <2>3 DEF LockComes
<1>8. BlacklistComes'
  <2>1. Ends(api \o L, "blacklist", engine.blacklist, Blacklists(ids, types))
    BY <1>2, <1>5, EndsLast
  <2>2. ids' = ids /\ types' = types
    BY <1>1 DEF svVars
  <2>3. Ends(api, "blacklist", engine.blacklist, Blacklists(ids, types))'
    BY <1>1, <2>1, <2>2
  <2> QED
    BY <2>3 DEF BlacklistComes
<1>9. ConstellationsCome'
  <2> SUFFICES ASSUME ~world.integration
               PROVE  ConstellationsCome'
    BY <1>1 DEF ConstellationsCome
  <2>1. (\A i \in DOMAIN api : api[i].call = "setConstellations" => api[i].types.blacklisted = {})'
    BY <1>2, <1>6 DEF ConstellationsCome, Unbarred
  <2>2. types' = types /\ engine' = engine
    BY <1>1 DEF svVars
  <2>3. \A x \in Constellations : EndsWith(api, engine.enabled, x) => x \in Enabled(types)
    BY DEF ConstellationsCome
  <2>4. \A x \in Constellations : EndsWith(api \o L, engine.enabled, x) => EndsWith(L, Enabled(types), x)
    BY <1>2, <2>3, PostedEnables
  <2>5. (\A x \in Constellations : EndsWith(api, engine.enabled, x) => x \in Enabled(types))'
    BY <1>1, <1>2, <2>2, <2>4
  <2>6. ASSUME NEW x \in Enabled(types)
        PROVE  EndsWith(api \o L, engine.enabled, x)
    <3> DEFINE mid == IF EndsWith(api, engine.enabled, x) THEN {x} ELSE {}
    <3>1. x \in mid <=> EndsWith(api, engine.enabled, x)
      OBVIOUS
    <3> HIDE DEF mid
    <3>2. EndsWith(api \o L, engine.enabled, x) <=> EndsWith(L, mid, x)
      BY <1>2, <1>5, <3>1, EndsWithConcat
    <3> QED
      BY <1>2, <3>2
  <2>7. (\A x \in Enabled(types) : EndsWith(api, engine.enabled, x))'
    BY <1>1, <2>2, <2>6
  <2> QED
    BY <2>1, <2>5, <2>7 DEF ConstellationsCome
<1>10. ValuesCome'
  <2> SUFFICES ASSUME world.settings # {}, NEW s \in Kept, s \notin raced
               PROVE  ValueComes(s)'
    BY <1>1 DEF ValuesCome, settingVars
  <2>1. ValueComes(s) /\ stored' = stored /\ asked' = asked /\ has' = has
    BY <1>1 DEF ValuesCome, settingVars, askVars
  <2>2. Will(s) => Will(s)'
    BY <1>6 DEF Will
  <2>3. Ends(api, s, has[s], {Due(asked[s])}) => Ends(api \o L, s, has[s], {Due(asked[s])})
    BY <1>2, <1>4, <1>5, EndsFirst
  <2>4. Ends(api, s, has[s], {Due(asked[s])}) => Ends(api', s, has'[s], {Due(asked'[s])})
    BY <1>1, <2>1, <2>3
  <2>5. stored'[s] \in {asked'[s], Due(asked'[s])}
    BY <2>1 DEF ValueComes
  <2>6. ASSUME NEW j \in DOMAIN api'
        PROVE  /\ api'[j].call = "default" /\ api'[j].setting = s => asked'[s] = Unset
               /\ api'[j].call = "send" /\ api'[j].setting = s => api'[j].value = Due(asked'[s])
    BY <1>4, <1>6, <2>1 DEF ValueComes, Ordinary
  <2> QED
    BY <1>3, <2>1, <2>2, <2>4, <2>5, <2>6 DEF ValueComes
<1>11. CorrComes'
  <2>1. known' = known /\ corr' = corr /\ world' = world
    BY <1>1 DEF settingVars, ownVars
  <2>2. ASSUME NEW i \in DOMAIN queue, queue[i].kind = "measCorr"
        PROVE  \E j \in DOMAIN queue' : queue'[j].kind = "measCorr"
    <3> DEFINE T == Tail(queue)
    <3>1. Head(queue) = queue[1] /\ queue # <<>> /\ Head(queue).kind = "engineUp"
      BY <1>1, <1>5, TailElements DEF MailSuits
    <3>2. PICK j \in DOMAIN T : T[j] = queue[i]
      BY <1>5, <2>2, <3>1, TailHolds
    <3>3. T \in Seq(Message) /\ queue' = T \o pending
      BY <1>1, <1>5, <3>1, TailElements
    <3> HIDE DEF T
    <3>4. j \in DOMAIN queue' /\ queue'[j] = queue[i]
      BY <1>5, <3>2, <3>3, ConcatElements
    <3> QED
      BY <2>2, <3>4
  <2> QED
    BY <2>1, <2>2 DEF CorrComes
<1> QED
  BY <1>7, <1>8, <1>9, <1>10, <1>11

----------------------------------------------------------------------------
(* The invariant.                                                             *)

LEMMA InitialInvariant == SettingsInit => IInv
<1> SUFFICES ASSUME SettingsInit
             PROVE  IInv
  OBVIOUS
<1> DEFINE c == [call |-> "open"]
<1>1. /\ known = FALSE /\ gpsLock = {"MO", "NI"} /\ afw = 0 /\ nfw = TRUE
      /\ ids = {} /\ svIds = {} /\ types = <<>> /\ pending = <<>> /\ restoring = FALSE
      /\ queue = <<>> /\ api = <<c>> /\ enables = 0 /\ world \in Worlds
      /\ engine \in [up: {FALSE}, lock: Lock, blacklist: {{}}, enabled: {{}}]
  BY DEF SettingsInit, Init
<1>2. /\ stored = [s \in Kept |-> Unset] /\ has = [s \in Kept |-> Unset] /\ asked = [s \in Kept |-> Unset]
      /\ asks = <<>> /\ answers = [id \in 1..MaxAsks |-> 0] /\ lastDelete = 0 /\ second = 1
      /\ corr = [open |-> FALSE, looking |-> FALSE, told |-> {}]
      /\ antenna = FALSE /\ blocked = 0 /\ raced = {}
  BY DEF SettingsInit
<1>3. c \in Call /\ c.call = "open" /\ Clears(c) /\ \A x : ~Adds(c, x)
  BY DEF Call, Clears, Adds
<1> HIDE DEF c
<1>4. api \in Seq(Call) /\ DOMAIN api = {1} /\ api[1] = c
  BY <1>1, <1>3
<1>5. Reopens
  BY <1>3, <1>4 DEF Reopens
<1>6. AdapterTyped
  BY <1>1 DEF AdapterTyped, Lock, Maybe
<1>7. MailTyped
  BY <1>1, <1>4 DEF MailTyped
<1>8. WorldTyped
  BY <1>1 DEF WorldTyped
<1>9. SettingsTyped
  BY <1>2 DEF SettingsTyped, Value
<1>10. AsksTyped
  BY <1>2 DEF AsksTyped
<1>11. OwnTyped
  BY <1>2 DEF OwnTyped, Corr
<1>12. MailSuits
  BY <1>1, <1>5 DEF MailSuits
<1>13. CallsSuit
  BY <1>3, <1>4 DEF CallsSuit
<1>14. LockComes /\ BlacklistComes
  BY <1>5 DEF LockComes, BlacklistComes
<1>15. ConstellationsCome
  <2>1. \A x : ~EndsWith(api, engine.enabled, x)
    BY <1>1, <1>3, EndsWithOne
  <2> QED
    BY <1>3, <1>4, <1>5, <2>1 DEF ConstellationsCome
<1>16. ValuesCome
  BY <1>2, <1>3, <1>4, <1>5 DEF ValuesCome, ValueComes
<1>17. CorrComes
  BY <1>2 DEF CorrComes
<1> QED
  BY <1>6, <1>7, <1>8, <1>9, <1>10, <1>11, <1>12, <1>13, <1>14, <1>15, <1>16, <1>17 DEF IInv, TypeOK

LEMMA StepGoes ==
  ASSUME IInv, [Next]_allVars
  PROVE  TypeOK' /\ MailSuits' /\ CallsSuit'
<1>1. TypeOK /\ MailSuits /\ CallsSuit /\ ValuesCome
  BY DEF IInv
<1>2. CASE UNCHANGED allVars
  BY <1>1, <1>2 DEF TypeOK, MailSuits, CallsSuit, AdapterTyped, MailTyped, WorldTyped, SettingsTyped, AsksTyped,
     OwnTyped, Suits, MeasCorrCapabilities, Reopens, allVars, vars, adapterVars, lockVars, svVars, settingVars,
     askVars, ownVars
<1>3. CASE Handled
  BY <1>1, <1>3, HandledGoes DEF Goes
<1>4. CASE Calling
  BY <1>1, <1>4, CallingGoes DEF Goes
<1>5. CASE Running
  BY <1>1, <1>5, RunningGoes DEF Goes
<1>6. CASE Opened
  BY <1>1, <1>6, OpenedGoes DEF Goes
<1>7. CASE Downed
  BY <1>1, <1>7, DownedGoes DEF Goes
<1>8. CASE SetConfigStep
  BY <1>1, <1>8, ConfigGoes DEF Goes
<1>9. CASE Restored
  BY <1>1, <1>9, RestoredGoes DEF Goes
<1> QED
  BY <1>1, <1>2, <1>3, <1>4, <1>5, <1>6, <1>7, <1>8, <1>9, StepKinds

LEMMA StepComes ==
  ASSUME IInv, [Next]_allVars
  PROVE  LockComes' /\ BlacklistComes' /\ ConstellationsCome' /\ ValuesCome' /\ CorrComes'
<1>1. /\ TypeOK /\ MailSuits /\ CallsSuit
      /\ LockComes /\ BlacklistComes /\ ConstellationsCome /\ ValuesCome /\ CorrComes
  BY DEF IInv
<1>2. CASE UNCHANGED allVars
  <2>1. /\ UNCHANGED <<known, lockVars, svVars, pending, restoring, queue, api, engine, world>>
        /\ UNCHANGED <<stored, has, asked, corr, raced>>
    BY <1>2 DEF allVars, vars, adapterVars, settingVars, askVars, ownVars
  <2>2. LockComes' /\ BlacklistComes' /\ ConstellationsCome'
    BY <1>1, <2>1 DEF LockComes, BlacklistComes, ConstellationsCome, Reopens, ComesUp, IsUp, ExpectedLock,
       lockVars, svVars
  <2>3. ValuesCome'
    BY <1>1, <2>1 DEF ValuesCome, ValueComes, Reopens, ComesUp, Will
  <2>4. CorrComes'
    BY <1>1, <2>1 DEF CorrComes
  <2> QED
    BY <2>2, <2>3, <2>4
<1>3. CASE Handled
  BY <1>1, <1>3, HandledLock, HandledBlacklist, HandledConstellations, HandledValues, HandledCorr
<1>4. CASE Calling
  BY <1>1, <1>4, CallingComes
<1>5. CASE Running
  BY <1>1, <1>5, RunningLock, RunningBlacklist, RunningConstellations, RunningValues, RunningCorr
<1>6. CASE Opened
  BY <1>1, <1>6, OpenedComes
<1>7. CASE Downed
  BY <1>1, <1>7, DownedComes
<1>8. CASE SetConfigStep
  BY <1>1, <1>8, ConfigComes
<1>9. CASE Restored
  BY <1>1, <1>9, RestoredComes
<1> QED
  BY <1>1, <1>2, <1>3, <1>4, <1>5, <1>6, <1>7, <1>8, <1>9, StepKinds

LEMMA Invariant == Spec => []IInv
<1>1. SettingsInit => IInv
  BY InitialInvariant
<1>2. IInv /\ [Next]_allVars => IInv'
  <2> SUFFICES ASSUME IInv, [Next]_allVars
               PROVE  IInv'
    OBVIOUS
  <2>1. TypeOK' /\ MailSuits' /\ CallsSuit'
    BY StepGoes
  <2>2. LockComes' /\ BlacklistComes' /\ ConstellationsCome' /\ ValuesCome' /\ CorrComes'
    BY StepComes
  <2> QED
    BY <2>1, <2>2 DEF IInv
<1> QED
  BY <1>1, <1>2, PTL DEF Spec

----------------------------------------------------------------------------
(* Types: the two queues hold messages and calls of known shape, and the      *)
(* adapter, the engine and the clients only values of theirs (GnssAdapter's   *)
(* control commands, and the calls it posts to the LocApi's thread).          *)
THEOREM SettingsTypes == Spec => []TypeOK
<1>1. IInv => TypeOK
  BY DEF IInv
<1> QED
  BY <1>1, Invariant, PTL

(* Once both queues are empty, the engine has the lock that the adapter's     *)
(* mode and its enabled state call for (setConfig, gnssUpdateConfig and the   *)
(* enable, disable and network control commands): whatever came in whatever   *)
(* order, the last call on the lock was posted after the last change of it.   *)
(* A step that takes a message that was freed is none of the model's: from    *)
(* where one is to come, the queue is not empty, and nothing is said.         *)
THEOREM LockHeld == Spec => []LockMatchesMode
<1>1. IInv => LockMatchesMode
  <2> SUFFICES ASSUME IInv, Settled
               PROVE  engine.lock = ExpectedLock
    BY DEF LockMatchesMode
  <2>1. queue = <<>> /\ api = <<>> /\ DOMAIN <<>> = {}
    BY DEF Settled
  <2>2. Ends(api, "lock", engine.lock, {ExpectedLock})
    BY <2>1 DEF IInv, LockComes, Reopens, ComesUp
  <2> QED
    BY <2>1, <2>2 DEF Ends, Brings
<1> QED
  BY <1>1, Invariant, PTL

(* Once both queues are empty, the engine has the blacklist and the           *)
(* constellations that the adapter remembers, after restarts too              *)
(* (gnssUpdateSvConfig and what the engine-up handler restores), and of every *)
(* setting what was set last, or else what gps.conf says (setConfig's call on *)
(* the LocApi's thread): but for a setting that was written while that thread *)
(* held the value before.  Whose constellations the adapter remembers is left *)
(* open: one that waited for the first engine runs behind newer ones.  As     *)
(* above, nothing is said from where a freed message is to come.              *)
THEOREM SettingsKept == Spec => []SettingsHeld
<1>1. IInv => SettingsHeld
  <2> SUFFICES ASSUME IInv, Settled
               PROVE  SettingsHeld
    BY DEF SettingsHeld, BlacklistHeld, ConstellationsHeldForHal, ValuesHeld
  <2>1. queue = <<>> /\ api = <<>> /\ DOMAIN <<>> = {}
    BY DEF Settled
  <2>2. ~Reopens /\ ~IsUp /\ ~ComesUp /\ \A s : ~Will(s)
    BY <2>1 DEF Reopens, IsUp, ComesUp, Will
  <2>3. \A t, base, V : Ends(<<>>, t, base, V) => base \in V
    BY <2>1 DEF Ends, Brings
  <2>4. BlacklistHeld
    <3> SUFFICES ASSUME ~world.supported
                 PROVE  engine.blacklist \cap Allowed(types) = ids \cap Allowed(types)
      BY DEF BlacklistHeld, Allowed
    <3>1. engine.blacklist \in Blacklists(ids, types)
      BY <2>1, <2>2, <2>3 DEF IInv, BlacklistComes
    <3> QED
      BY <3>1 DEF Blacklists
  <2>5. ConstellationsHeldForHal
    <3> SUFFICES ASSUME ~world.integration
                 PROVE  engine.enabled = Enabled(types)
      BY DEF ConstellationsHeldForHal
    <3>1. engine.enabled \in SUBSET Constellations
      BY DEF IInv, TypeOK, WorldTyped
    <3>2. \A x : EndsWith(<<>>, engine.enabled, x) <=> x \in engine.enabled
      BY EndsWithNothing
    <3>3. /\ \A x \in Constellations : x \in engine.enabled => x \in Enabled(types)
          /\ \A x \in Enabled(types) : x \in engine.enabled
      BY <2>1, <2>2, <3>2 DEF IInv, ConstellationsCome
    <3> QED
      BY <3>1, <3>3
  <2>6. ValuesHeld
    <3> SUFFICES ASSUME world.settings # {}, NEW s \in Kept \ raced
                 PROVE  has[s] = IF asked[s] = Unset THEN "file" ELSE asked[s]
      BY DEF ValuesHeld
    <3>1. Ends(<<>>, s, has[s], {Due(asked[s])})
      BY <2>1, <2>2 DEF IInv, ValuesCome, ValueComes
    <3> QED
      BY <2>3, <3>1 DEF Due
  <2> QED
    BY <2>4, <2>5, <2>6 DEF SettingsHeld
<1> QED
  BY <1>1, Invariant, PTL

(* Whoever opened the measurement corrections has been told the capabilities, *)
(* or refused, once both queues are empty and the engine is known: whether    *)
(* openMeasCorrCommand or setConfig came first, and however they interleaved. *)
THEOREM CorrectionsTold == Spec => []MeasCorrTold
<1>1. IInv => MeasCorrTold
  <2> SUFFICES ASSUME IInv, Settled, known, corr.open, ~corr.looking
               PROVE  IF world.supported THEN corr.told = {"all"} ELSE corr.told # {}
    BY DEF MeasCorrTold
  <2>1. queue = <<>> /\ DOMAIN <<>> = {}
    BY DEF Settled
  <2>2. corr.told # {} /\ (world.supported => corr.told \subseteq {"all"})
    BY <2>1 DEF IInv, CorrComes
  <2> QED
    BY <2>2
<1> QED
  BY <1>1, Invariant, PTL

----------------------------------------------------------------------------
(* A request is answered once, by the adapter or by the engine: one message   *)
(* of the queue carries it, or one that waits for the engine, or one call;    *)
(* never two of them, and only while it is unanswered.                        *)

Once == {"set", "leverArm", "dreParams", "runState", "delete", "unserved", "get"}
Mail(n)  == {m \in Message : m.kind \in Once \cup {"response"} /\ m.id = n}
Calls(n) == {c \in Call : c.call \in {"set", "delete"} /\ c.id = n}

Sole(s, P) == \A i, j \in DOMAIN s : s[i] \in P /\ s[j] \in P => i = j
Free(s, P) == \A i \in DOMAIN s : s[i] \notin P

IsOpen(n) == n <= Len(asks) /\ answers[n] = 0
AnsweredOnce(n) == n <= Len(asks) => answers[n] <= 1

AllFree(n) == Free(queue, Mail(n)) /\ Free(pending, Mail(n)) /\ Free(api, Calls(n))

AskFollows(n) ==
  /\ Sole(queue, Mail(n)) /\ Sole(pending, Mail(n)) /\ Sole(api, Calls(n))
  /\ Free(queue, Mail(n)) \/ Free(api, Calls(n))
  /\ Free(pending, Mail(n)) \/ (Free(queue, Mail(n)) /\ Free(api, Calls(n)))
  /\ IsOpen(n) \/ AllFree(n)
  /\ n > Len(asks) => answers[n] = 0
  /\ AnsweredOnce(n)

AskInv == IInv /\ Len(asks) <= MaxAsks /\ \A n \in 1..MaxAsks : AskFollows(n)

----------------------------------------------------------------------------
LEMMA TailCarries ==
  ASSUME NEW S, NEW s \in Seq(S), s # <<>>, NEW P
  PROVE  /\ Free(s, P) => Free(Tail(s), P)
         /\ Sole(s, P) => Sole(Tail(s), P)
         /\ Sole(s, P) /\ Head(s) \in P => Free(Tail(s), P)
<1>1. /\ Head(s) = s[1] /\ 1 \in DOMAIN s
      /\ \A i \in DOMAIN Tail(s) : i \in Nat /\ i > 0 /\ i + 1 \in DOMAIN s /\ Tail(s)[i] = s[i + 1]
  BY TailElements
<1>2. Free(s, P) => Free(Tail(s), P)
  BY <1>1 DEF Free
<1>3. Sole(s, P) => Sole(Tail(s), P)
  <2> SUFFICES ASSUME Sole(s, P), NEW i \in DOMAIN Tail(s), NEW j \in DOMAIN Tail(s),
                      Tail(s)[i] \in P, Tail(s)[j] \in P
               PROVE  i = j
    BY DEF Sole
  <2>1. s[i + 1] \in P /\ s[j + 1] \in P /\ i + 1 \in DOMAIN s /\ j + 1 \in DOMAIN s /\ i \in Nat /\ j \in Nat
    BY <1>1
  <2>2. i + 1 = j + 1
    BY <2>1 DEF Sole
  <2> QED
    BY <2>1, <2>2
<1>4. ASSUME Sole(s, P), Head(s) \in P, NEW i \in DOMAIN Tail(s), Tail(s)[i] \in P
      PROVE  FALSE
  <2>1. s[i + 1] \in P /\ i + 1 \in DOMAIN s /\ i \in Nat /\ i > 0
    BY <1>1, <1>4
  <2>2. i + 1 = 1
    BY <1>1, <1>4, <2>1 DEF Sole
  <2> QED
    BY <2>1, <2>2
<1> QED
  BY <1>2, <1>3, <1>4 DEF Free

LEMMA ConcatCarries ==
  ASSUME NEW S, NEW s \in Seq(S), NEW t \in Seq(S), NEW P
  PROVE  /\ Free(s \o t, P) <=> Free(s, P) /\ Free(t, P)
         /\ Sole(s, P) /\ Sole(t, P) /\ (Free(s, P) \/ Free(t, P)) => Sole(s \o t, P)
<1>1. /\ \A i \in DOMAIN s : i \in DOMAIN (s \o t) /\ (s \o t)[i] = s[i]
      /\ \A i \in DOMAIN t : Len(s) + i \in DOMAIN (s \o t) /\ (s \o t)[Len(s) + i] = t[i]
  BY ConcatElements
<1>2. \A i \in DOMAIN (s \o t) :
        \/ i \in DOMAIN s /\ (s \o t)[i] = s[i]
        \/ i - Len(s) \in DOMAIN t /\ (s \o t)[i] = t[i - Len(s)] /\ i \in Nat /\ Len(s) \in Nat
  BY ConcatCases
<1>3. Free(s \o t, P) <=> Free(s, P) /\ Free(t, P)
  BY <1>1, <1>2 DEF Free
<1>4. ASSUME Sole(s, P), Sole(t, P), Free(s, P) \/ Free(t, P),
             NEW i \in DOMAIN (s \o t), NEW j \in DOMAIN (s \o t), (s \o t)[i] \in P, (s \o t)[j] \in P
      PROVE  i = j
  <2>1. CASE Free(t, P)
    BY <1>2, <1>4, <2>1 DEF Free, Sole
  <2>2. CASE Free(s, P)
    <3>1. /\ i - Len(s) \in DOMAIN t /\ t[i - Len(s)] \in P /\ i \in Nat /\ Len(s) \in Nat
          /\ j - Len(s) \in DOMAIN t /\ t[j - Len(s)] \in P /\ j \in Nat
      BY <1>2, <1>4, <2>2 DEF Free
    <3>2. i - Len(s) = j - Len(s)
      BY <1>4, <3>1 DEF Sole
    <3> QED
      BY <3>1, <3>2
  <2> QED
    BY <1>4, <2>1, <2>2
<1> QED
  BY <1>3, <1>4 DEF Sole

LEMMA OneCarries ==
  ASSUME NEW x, NEW P
  PROVE  /\ Sole(<<x>>, P) /\ (x \notin P => Free(<<x>>, P))
         /\ Sole(<<>>, P) /\ Free(<<>>, P)
<1>1. DOMAIN <<x>> = {1} /\ <<x>>[1] = x /\ DOMAIN <<>> = {}
  OBVIOUS
<1> QED
  BY <1>1 DEF Sole, Free

LEMMA AppendCarries ==
  ASSUME NEW S, NEW s \in Seq(S), NEW m \in S, NEW P
  PROVE  /\ m \notin P => (Free(s, P) => Free(Append(s, m), P)) /\ (Sole(s, P) => Sole(Append(s, m), P))
         /\ Free(s, P) => Sole(Append(s, m), P)
<1>1. s \o <<m>> = Append(s, m) /\ <<m>> \in Seq(S)
  BY ConcatOne
<1>2. Sole(<<m>>, P) /\ (m \notin P => Free(<<m>>, P))
  BY OneCarries
<1>3. Free(s, P) => Sole(s, P)
  BY DEF Free, Sole
<1>4. /\ Free(s \o <<m>>, P) <=> Free(s, P) /\ Free(<<m>>, P)
      /\ Sole(s, P) /\ Sole(<<m>>, P) /\ (Free(s, P) \/ Free(<<m>>, P)) => Sole(s \o <<m>>, P)
  BY <1>1, ConcatCarries
<1> QED
  BY <1>1, <1>2, <1>3, <1>4

----------------------------------------------------------------------------
(* A step that carries nothing new and answers nothing.                       *)

LosesIn(s, t, P) == (Free(s, P) => Free(t, P)) /\ (Sole(s, P) => Sole(t, P))
Mild(n) == LosesIn(queue, queue', Mail(n)) /\ LosesIn(api, api', Calls(n))

LEMMA MildKeeps ==
  ASSUME NEW n, AskFollows(n), Mild(n), pending' = pending, asks' = asks, answers'[n] = answers[n]
  PROVE  AskFollows(n)'
  BY DEF AskFollows, AllFree, Mild, LosesIn, IsOpen, AnsweredOnce

(* The adapter handles a message and posts calls that carry nothing.          *)
LEMMA PostsNothing ==
  ASSUME TypeOK, NEW n, queue # <<>>, queue' = Tail(queue),
         NEW L \in Seq(Call), api' = api \o L, Free(L, Calls(n))
  PROVE  Mild(n)
<1>1. queue \in Seq(Message) /\ api \in Seq(Call)
  BY DEF TypeOK, MailTyped
<1>2. LosesIn(queue, queue', Mail(n))
  <2> DEFINE P == Mail(n)
  <2> HIDE DEF P
  <2>1. (Free(queue, P) => Free(Tail(queue), P)) /\ (Sole(queue, P) => Sole(Tail(queue), P))
    BY <1>1, TailCarries
  <2> QED
    BY <2>1 DEF LosesIn, P
<1>3. LosesIn(api, api', Calls(n))
  <2> DEFINE P == Calls(n)
  <2> HIDE DEF P
  <2>1. /\ Free(api \o L, P) <=> Free(api, P) /\ Free(L, P)
        /\ Sole(api, P) /\ Sole(L, P) /\ (Free(api, P) \/ Free(L, P)) => Sole(api \o L, P)
    BY <1>1, ConcatCarries
  <2>2. Free(L, P) /\ Sole(L, P)
    BY DEF P, Free, Sole
  <2> QED
    BY <2>1, <2>2 DEF LosesIn, P
<1> QED
  BY <1>2, <1>3 DEF Mild

----------------------------------------------------------------------------
(* The handlers, and the one request n.                                       *)

LEMMA HeadMail ==
  ASSUME TypeOK, queue # <<>>
  PROVE  /\ Head(queue) \in Message /\ queue \in Seq(Message) /\ api \in Seq(Call)
         /\ Head(queue) = queue[1] /\ 1 \in DOMAIN queue
  BY TailElements DEF TypeOK, MailTyped

LEMMA SilentKeeps ==
  ASSUME TypeOK, NEW n \in 1..MaxAsks, AskFollows(n), queue # <<>>, queue' = Tail(queue),
         NEW L \in Seq(Call), api' = api \o L, Free(L, Calls(n)),
         pending' = pending, asks' = asks, answers'[n] = answers[n]
  PROVE  AskFollows(n)'
  BY PostsNothing, MildKeeps

LEMMA ReportedFor ==
  ASSUME TypeOK, NEW n \in 1..MaxAsks, NEW S, ReportResponse(S)
  PROVE  /\ n \notin S => answers'[n] = answers[n]
         /\ n \in S /\ answers[n] = 0 => answers'[n] = 1
<1>1. n \in DOMAIN answers
  BY DEF TypeOK, AsksTyped
<1> QED
  BY <1>1 DEF ReportResponse

LEMMA AnsweredKeeps ==
  ASSUME TypeOK, NEW n \in 1..MaxAsks, AskFollows(n), queue # <<>>, queue' = Tail(queue),
         NEW L \in Seq(Call), api' = api \o L, Free(L, Calls(n)), pending' = pending, asks' = asks,
         Head(queue).kind \in Once \cup {"response"}, ReportResponse({Head(queue).id})
  PROVE  AskFollows(n)'
<1>1. /\ Head(queue) \in Message /\ queue \in Seq(Message) /\ api \in Seq(Call)
      /\ Head(queue) = queue[1] /\ 1 \in DOMAIN queue
  BY HeadMail
<1>2. CASE Head(queue).id = n
  <2>1. Head(queue) \in Mail(n)
    BY <1>1, <1>2 DEF Mail
  <2>2. ~Free(queue, Mail(n))
    BY <1>1, <2>1 DEF Free
  <2>3. /\ IsOpen(n) /\ Free(api, Calls(n)) /\ Free(pending, Mail(n))
        /\ Sole(queue, Mail(n)) /\ Sole(api, Calls(n)) /\ Sole(pending, Mail(n))
    BY <2>2 DEF AskFollows, AllFree
  <2>4. Free(Tail(queue), Mail(n)) /\ Sole(Tail(queue), Mail(n))
    <3> DEFINE P == Mail(n)
    <3>1. Sole(queue, P) /\ Head(queue) \in P
      BY <2>1, <2>3
    <3> HIDE DEF P
    <3>2. Free(Tail(queue), P) /\ Sole(Tail(queue), P)
      BY <1>1, <3>1, TailCarries
    <3> QED
      BY <3>2 DEF P
  <2>5. answers'[n] = 1
    BY <1>2, <2>3, ReportedFor DEF IsOpen
  <2>6. n <= Len(asks) /\ Len(asks) \in Nat
    BY <2>3 DEF IsOpen, TypeOK, AsksTyped
  <2>7. Free(api', Calls(n)) /\ Sole(api', Calls(n))
    <3>1. Mild(n)
      BY PostsNothing
    <3> QED
      BY <2>3, <3>1 DEF Mild, LosesIn
  <2> QED
    BY <2>3, <2>4, <2>5, <2>6, <2>7 DEF AskFollows, AllFree, AnsweredOnce
<1>3. CASE Head(queue).id # n
  <2>1. answers'[n] = answers[n]
    BY <1>3, ReportedFor
  <2> QED
    BY <2>1, SilentKeeps
<1> QED
  BY <1>2, <1>3

LEMMA IgnoredKeeps ==
  ASSUME TypeOK, NEW n \in 1..MaxAsks, AskFollows(n), queue # <<>>, queue' = Tail(queue),
         api' = api, pending' = pending, asks' = asks, answers' = answers
  PROVE  AskFollows(n)'
<1>1. <<>> \in Seq(Call) /\ api' = api \o <<>> /\ Free(<<>>, Calls(n))
  BY ConcatNothing, OneCarries DEF TypeOK, MailTyped
<1> QED
  BY <1>1, SilentKeeps

(* A request goes on to the engine.                                           *)
LEMMA PassedKeeps ==
  ASSUME TypeOK, NEW n \in 1..MaxAsks, AskFollows(n), queue # <<>>, queue' = Tail(queue),
         NEW c \in Call, api' = api \o <<c>>, c.call \in {"set", "delete"}, c.id = Head(queue).id,
         pending' = pending, asks' = asks, answers'[n] = answers[n], Head(queue).kind \in Once
  PROVE  AskFollows(n)'
<1>1. /\ Head(queue) \in Message /\ queue \in Seq(Message) /\ api \in Seq(Call)
      /\ Head(queue) = queue[1] /\ 1 \in DOMAIN queue
  BY HeadMail
<1>2. <<c>> \in Seq(Call)
  OBVIOUS
<1>3. CASE Head(queue).id = n
  <2>1. Head(queue) \in Mail(n)
    BY <1>1, <1>3 DEF Mail
  <2>2. ~Free(queue, Mail(n))
    BY <1>1, <2>1 DEF Free
  <2>3. /\ IsOpen(n) /\ Free(api, Calls(n)) /\ Free(pending, Mail(n))
        /\ Sole(queue, Mail(n)) /\ Sole(api, Calls(n)) /\ Sole(pending, Mail(n))
    BY <2>2 DEF AskFollows, AllFree
  <2>4. Free(Tail(queue), Mail(n)) /\ Sole(Tail(queue), Mail(n))
    <3> DEFINE P == Mail(n)
    <3>1. Sole(queue, P) /\ Head(queue) \in P
      BY <2>1, <2>3
    <3> HIDE DEF P
    <3>2. Free(Tail(queue), P) /\ Sole(Tail(queue), P)
      BY <1>1, <3>1, TailCarries
    <3> QED
      BY <3>2 DEF P
  <2>5. Sole(api \o <<c>>, Calls(n))
    <3> DEFINE P == Calls(n)
    <3>1. Sole(api, P) /\ Free(api, P)
      BY <2>3
    <3> HIDE DEF P
    <3>2. Sole(<<c>>, P)
      BY OneCarries
    <3>3. Sole(api, P) /\ Sole(<<c>>, P) /\ (Free(api, P) \/ Free(<<c>>, P)) => Sole(api \o <<c>>, P)
      BY <1>1, <1>2, ConcatCarries
    <3>4. Sole(api \o <<c>>, P)
      BY <3>1, <3>2, <3>3
    <3> QED
      BY <3>4 DEF P
  <2> QED
    BY <2>3, <2>4, <2>5 DEF AskFollows, AllFree, AnsweredOnce, IsOpen
<1>4. CASE Head(queue).id # n
  <2>1. c \notin Calls(n)
    BY <1>4 DEF Calls
  <2>2. Free(<<c>>, Calls(n))
    BY <2>1, OneCarries
  <2> QED
    BY <1>2, <2>2, SilentKeeps
<1> QED
  BY <1>3, <1>4

----------------------------------------------------------------------------
LEMMA SetKeeps ==
  ASSUME TypeOK, NEW n \in 1..MaxAsks, AskFollows(n), NEW s \in Kept, SetSetting(s)
  PROVE  AskFollows(n)'
<1> DEFINE m == Head(queue)
           c == [call |-> "set", setting |-> s, value |-> m.ask.value, id |-> m.id]
<1>1. queue # <<>> /\ m.kind = "set" /\ queue' = Tail(queue) /\ api' = api \o <<c>>
  BY DEF SetSetting, Handles, Taken, PostCalls
<1>2. m \in Message
  BY <1>1, HeadMail
<1>3. m.ask.value \in Values /\ m.id \in Nat
  BY <1>1, <1>2, MessageFields
<1>4. c \in Call /\ c.call = "set" /\ c.id = m.id
  BY <1>3 DEF Call
<1>5. asks' = asks /\ answers' = answers /\ pending' = pending
  BY DEF SetSetting, KeepSettings, adapterVars
<1>6. m.kind \in Once
  BY <1>1 DEF Once
<1> HIDE DEF c
<1> QED
  BY <1>1, <1>4, <1>5, <1>6, PassedKeeps

LEMMA DeleteKeeps ==
  ASSUME TypeOK, NEW n \in 1..MaxAsks, AskFollows(n), DeleteAidingData
  PROVE  AskFollows(n)'
<1> DEFINE m == Head(queue)
           c == [call |-> "delete", id |-> m.id]
           goes == m.ask.spe /\ ~Throttled
           L == IF goes THEN <<c>> ELSE <<>>
           S == IF ~m.ask.spe THEN {m.id} ELSE {}
<1>1. /\ queue # <<>> /\ m.kind = "delete" /\ queue' = Tail(queue) /\ api' = api \o L
      /\ ReportResponse(S) /\ asks' = asks /\ pending' = pending
  BY DEF DeleteAidingData, Handles, Taken, PostCalls, AnswersDeletionItself, KeepSettings, adapterVars
<1>2. m \in Message /\ api \in Seq(Call)
  BY <1>1, HeadMail
<1>3. m.id \in Nat
  BY <1>1, <1>2, MessageFields DEF AskKinds
<1>4. c \in Call /\ c.call = "delete" /\ c.id = m.id
  BY <1>3 DEF Call
<1>5. m.kind \in Once
  BY <1>1 DEF Once
<1>6. api \o <<>> = api
  BY <1>2, ConcatNothing
<1>7. CASE goes
  <2>1. L = <<c>> /\ S = {}
    BY <1>7
  <2>2. answers'[n] = answers[n]
    BY <1>1, <2>1, ReportedFor
  <2> HIDE DEF c, S, L
  <2> QED
    BY <1>1, <1>4, <1>5, <2>1, <2>2, PassedKeeps
<1>8. CASE ~goes /\ m.ask.spe
  <2>1. L = <<>> /\ S = {}
    BY <1>8
  <2>2. answers'[n] = answers[n]
    BY <1>1, <2>1, ReportedFor
  <2>3. <<>> \in Seq(Call) /\ Free(<<>>, Calls(n))
    BY <1>2, ConcatNothing, OneCarries
  <2> HIDE DEF c, S, L
  <2> QED
    BY <1>1, <2>1, <2>2, <2>3, SilentKeeps
<1>9. CASE ~m.ask.spe
  <2>1. L = <<>> /\ S = {m.id}
    BY <1>9
  <2>2. L \in Seq(Call) /\ Free(L, Calls(n))
    BY <1>2, <2>1, ConcatNothing, OneCarries
  <2> HIDE DEF c, S, L
  <2> QED
    BY <1>1, <1>5, <2>1, <2>2, AnsweredKeeps
<1> QED
  BY <1>7, <1>8, <1>9

LEMMA GetKeeps ==
  ASSUME TypeOK, NEW n \in 1..MaxAsks, AskFollows(n), GetConfig
  PROVE  AskFollows(n)'
<1> DEFINE m == Head(queue)
           L == IF m.ask.flag = "blacklist" /\ world.supported THEN <<[call |-> "getBlacklist"]>> ELSE <<>>
           S == IF m.ask.flag = "robust" THEN {} ELSE {m.id}
<1>1. /\ queue # <<>> /\ m.kind = "get" /\ queue' = Tail(queue) /\ api' = api \o L
      /\ ReportResponse(S) /\ asks' = asks /\ pending' = pending
  BY DEF GetConfig, Handles, Taken, PostCalls, KeepSettings, adapterVars
<1>2. m.kind \in Once
  BY <1>1 DEF Once
<1>3. L \in Seq(Call) /\ Free(L, Calls(n))
  <2> DEFINE c == [call |-> "getBlacklist"]
  <2>1. c \in Call /\ c \notin Calls(n)
    BY DEF Call, Calls
  <2> HIDE DEF c
  <2>2. <<c>> \in Seq(Call) /\ <<>> \in Seq(Call) /\ Free(<<c>>, Calls(n)) /\ Free(<<>>, Calls(n))
    BY <2>1, OneCarries
  <2> QED
    BY <2>2 DEF c
<1>4. CASE m.ask.flag = "robust"
  <2>1. S = {}
    BY <1>4
  <2>2. answers'[n] = answers[n]
    BY <1>1, <2>1, ReportedFor
  <2> HIDE DEF S, L
  <2> QED
    BY <1>1, <1>3, <2>2, SilentKeeps
<1>5. CASE m.ask.flag # "robust"
  <2>1. S = {m.id}
    BY <1>5
  <2> HIDE DEF S, L
  <2> QED
    BY <1>1, <1>2, <1>3, <2>1, AnsweredKeeps
<1> QED
  BY <1>4, <1>5

LEMMA InjectKeeps ==
  ASSUME TypeOK, NEW n \in 1..MaxAsks, AskFollows(n), InjectLocation \/ InjectTime
  PROVE  AskFollows(n)'
<1> DEFINE c == [call |-> "inject"]
<1>1. /\ queue # <<>> /\ queue' = Tail(queue) /\ asks' = asks /\ answers' = answers
      /\ pending' = pending /\ (api' = api \o <<c>> \/ api' = api \o <<>>)
  BY DEF InjectLocation, InjectTime, Handles, Taken, PostCalls, KeepSettings, askVars, adapterVars
<1>2. c \in Call /\ c \notin Calls(n)
  BY DEF Call, Calls
<1> HIDE DEF c
<1>3. <<c>> \in Seq(Call) /\ <<>> \in Seq(Call) /\ Free(<<c>>, Calls(n)) /\ Free(<<>>, Calls(n))
  BY <1>2, OneCarries
<1> QED
  BY <1>1, <1>3, SilentKeeps

LEMMA SettingHandlersKeep ==
  ASSUME TypeOK, NEW n \in 1..MaxAsks, AskFollows(n), SettingHandlers
  PROVE  AskFollows(n)'
<1>1. ASSUME NEW K, K \subseteq Once \cup {"response"}, AnswerFor(K)
      PROVE  AskFollows(n)'
  <2>1. /\ queue # <<>> /\ queue' = Tail(queue) /\ api' = api /\ asks' = asks /\ pending' = pending
        /\ Head(queue).kind \in Once \cup {"response"} /\ ReportResponse({Head(queue).id})
    BY <1>1 DEF AnswerFor, Handles, Taken, KeepSettings, adapterVars
  <2>2. <<>> \in Seq(Call) /\ api' = api \o <<>> /\ Free(<<>>, Calls(n))
    BY <2>1, ConcatNothing, OneCarries DEF TypeOK, MailTyped
  <2> QED
    BY <2>1, <2>2, AnsweredKeeps
<1>2. ASSUME NEW K, Ignored(K)
      PROVE  AskFollows(n)'
  <2>1. /\ queue # <<>> /\ queue' = Tail(queue) /\ api' = api /\ asks' = asks /\ answers' = answers
        /\ pending' = pending
    BY <1>2 DEF Ignored, Handles, Taken, KeepSettings, askVars, adapterVars
  <2> QED
    BY <2>1, IgnoredKeeps
<1>3. CASE InitMeasCorr \/ BlockCPI
  <2>1. /\ queue # <<>> /\ queue' = Tail(queue) /\ api' = api /\ asks' = asks /\ answers' = answers
        /\ pending' = pending
    BY <1>3 DEF InitMeasCorr, BlockCPI, Handles, Taken, KeepSettings, askVars, adapterVars
  <2> QED
    BY <2>1, IgnoredKeeps
<1>4. CASE SetConstrainedTunc \/ SetPositionAssistedClockEstimator
  BY <1>4, SetKeeps DEF SetConstrainedTunc, SetPositionAssistedClockEstimator, Kept
<1>5. CASE ConfigLeverArm \/ ConfigDeadReckoningEngineParams \/ ConfigEngineRunState \/ HandleLocApiResponse
  <2>1. /\ {"leverArm"} \subseteq Once \cup {"response"} /\ {"dreParams"} \subseteq Once \cup {"response"}
        /\ {"runState"} \subseteq Once \cup {"response"} /\ {"response"} \subseteq Once \cup {"response"}
    BY DEF Once
  <2> QED
    BY <1>1, <1>5, <2>1 DEF ConfigLeverArm, ConfigDeadReckoningEngineParams, ConfigEngineRunState,
       HandleLocApiResponse
<1>6. CASE \/ ConfigUnserved \/ UpdateSystemPowerState \/ SetMeasurementCorrections
           \/ ReportGnssAntennaInformation \/ ReportGnssSvIdConfig
  BY <1>2, <1>6 DEF ConfigUnserved, UpdateSystemPowerState, SetMeasurementCorrections,
     ReportGnssAntennaInformation, ReportGnssSvIdConfig
<1> QED
  BY <1>3, <1>4, <1>5, <1>6, DeleteKeeps, GetKeeps, InjectKeeps DEF SettingHandlers

----------------------------------------------------------------------------
(* The lock and the satellites: no request is carried.                        *)

LEMMA OnlySvCarries ==
  ASSUME NEW L, OnlySv(L), NEW n
  PROVE  Free(L, Calls(n))
  BY DEF OnlySv, SvCalls, Free, Calls

LEMMA PlainCarries ==
  ASSUME NEW c, c.call \notin {"set", "delete"}, NEW n
  PROVE  Free(<<c>>, Calls(n))
<1>1. c \notin Calls(n)
  BY DEF Calls
<1> QED
  BY <1>1, OneCarries

(* One call that carries nothing is posted.                                   *)
LEMMA SilentOne ==
  ASSUME TypeOK, NEW n \in 1..MaxAsks, AskFollows(n), queue # <<>>, queue' = Tail(queue),
         NEW c, c.call \notin {"set", "delete"}, api' = api \o <<c>>,
         pending' = pending, asks' = asks, answers'[n] = answers[n]
  PROVE  AskFollows(n)'
<1> DEFINE P == Calls(n)
           S == Call \cup {c}
<1>1. api \in Seq(S) /\ <<c>> \in Seq(S)
  BY DEF TypeOK, MailTyped
<1>2. Free(<<c>>, P)
  BY PlainCarries
<1> HIDE DEF P, S
<1>3. Sole(<<c>>, P)
  BY OneCarries
<1>4. LosesIn(api, api', P)
  <2>1. /\ Free(api \o <<c>>, P) <=> Free(api, P) /\ Free(<<c>>, P)
        /\ Sole(api, P) /\ Sole(<<c>>, P) /\ (Free(api, P) \/ Free(<<c>>, P)) => Sole(api \o <<c>>, P)
    BY <1>1, ConcatCarries
  <2> QED
    BY <1>2, <1>3, <2>1 DEF LosesIn
<1>5. LosesIn(queue, queue', Mail(n))
  <2> DEFINE Q == Mail(n)
  <2> HIDE DEF Q
  <2>1. (Free(queue, Q) => Free(Tail(queue), Q)) /\ (Sole(queue, Q) => Sole(Tail(queue), Q))
    BY HeadMail, TailCarries
  <2> QED
    BY <2>1 DEF LosesIn, Q
<1>6. Mild(n)
  BY <1>4, <1>5 DEF Mild, P
<1> QED
  BY <1>6, MildKeeps

(* A message waits for the engine.                                            *)
LEMMA WaitKeeps ==
  ASSUME TypeOK, NEW n \in 1..MaxAsks, AskFollows(n), Wait, asks' = asks, answers' = answers
  PROVE  AskFollows(n)'
<1> DEFINE m == Head(queue)
           P == Mail(n)
<1>1. queue # <<>> /\ queue' = Tail(queue) /\ pending' = Append(pending, m) /\ api' = api
  BY DEF Wait, Handles
<1>2. /\ m \in Message /\ queue \in Seq(Message) /\ pending \in Seq(Message)
      /\ m = queue[1] /\ 1 \in DOMAIN queue
  BY <1>1, HeadMail DEF TypeOK, MailTyped
<1> HIDE DEF m
<1>3. CASE m \in P
  <2>1. ~Free(queue, P)
    BY <1>2, <1>3 DEF Free
  <2>2. /\ IsOpen(n) /\ Free(api, Calls(n)) /\ Free(pending, P)
        /\ Sole(queue, P) /\ Sole(api, Calls(n))
    BY <2>1 DEF AskFollows, AllFree
  <2>3. Free(queue', P) /\ Sole(queue', P)
    <3> HIDE DEF P
    <3> QED
      BY <1>1, <1>2, <1>3, <2>2, TailCarries DEF m
  <2>4. Sole(pending', P)
    <3> HIDE DEF P
    <3> QED
      BY <1>1, <1>2, <2>2, AppendCarries
  <2> QED
    BY <1>1, <2>2, <2>3, <2>4 DEF AskFollows, AllFree, AnsweredOnce, IsOpen
<1>4. CASE m \notin P
  <2>1. LosesIn(queue, queue', P) /\ LosesIn(pending, pending', P)
    <3> HIDE DEF P
    <3> QED
      BY <1>1, <1>2, <1>4, TailCarries, AppendCarries DEF LosesIn
  <2> QED
    BY <1>1, <2>1 DEF LosesIn, AskFollows, AllFree, AnsweredOnce, IsOpen
<1> QED
  BY <1>3, <1>4

LEMMA ConfigHandlersKeep ==
  ASSUME TypeOK, NEW n \in 1..MaxAsks, AskFollows(n), AdapterStep, ~RestoreSvConfig, UNCHANGED settingVars
  PROVE  AskFollows(n)'
<1> DEFINE m == Head(queue)
<1>1. asks' = asks /\ answers' = answers
  BY DEF settingVars, askVars
<1>2. ASSUME queue # <<>>, queue' = Tail(queue), pending' = pending, api' = api
      PROVE  AskFollows(n)'
  BY <1>1, <1>2, IgnoredKeeps
<1>3. ASSUME queue # <<>>, queue' = Tail(queue), pending' = pending, NEW c, api' = api \o <<c>>, c.call \notin {"set", "delete"}
      PROVE  AskFollows(n)'
  BY <1>1, <1>3, SilentOne
<1>4. ASSUME queue # <<>>, queue' = Tail(queue), pending' = pending, NEW L \in Seq(Call), api' = api \o L, OnlySv(L)
      PROVE  AskFollows(n)'
  BY <1>1, <1>4, OnlySvCarries, SilentKeeps
<1>5. ASSUME queue # <<>>, queue' = Tail(queue), pending' = pending, NEW l, api' = api \o SetLock(l)
      PROVE  AskFollows(n)'
  <2> DEFINE c == [call |-> "setLock", lock |-> l]
  <2>1. api' = api \o <<c>> /\ c.call \notin {"set", "delete"}
    BY <1>5 DEF SetLock
  <2> HIDE DEF c
  <2> QED
    BY <1>3, <1>5, <2>1
<1>6. CASE Wait
  BY <1>6, WaitKeeps DEF settingVars, askVars
<1>7. CASE UpdateConfig
  <2> DEFINE l == IF m.lock = <<>> THEN <<>> ELSE LockToSend(m.lock[1])
             c == [call |-> "update", lock |-> l, svs |-> m.svs, after |-> <<>>]
  <2>1. pending' = pending /\ queue # <<>> /\ queue' = Tail(queue) /\ api' = api \o <<c>>
    BY <1>7 DEF UpdateConfig, Handles, PostCalls, UpdateEngine
  <2>2. c.call \notin {"set", "delete"}
    OBVIOUS
  <2> HIDE DEF c
  <2> QED
    BY <1>3, <2>1, <2>2
<1>8. CASE UpdateSvTypeConfig
  <2> DEFINE t == m.types
             L == SvTypeCalls(<<t>>, Removes(t))
  <2>1. pending' = pending /\ queue # <<>> /\ m.kind = "svTypes" /\ queue' = Tail(queue) /\ (api' = api \/ api' = api \o L)
    BY <1>8 DEF UpdateSvTypeConfig, Handles, PostCalls
  <2>2. t \in SvTypes
    BY <2>1, HeadMail, MessageFields
  <2>3. L \in Seq(Call) /\ OnlySv(L)
    BY <2>2, SvTypeCallsKept DEF SvTypesKept, TypeOK, AdapterTyped, Removes
  <2> HIDE DEF L
  <2> QED
    BY <1>2, <1>4, <2>1, <2>3
<1>9. CASE ResetSvTypeConfig
  <2> DEFINE B == SetBlacklist(ids)
             L == B \o ResetConstellations
  <2>1. pending' = pending /\ queue # <<>> /\ queue' = Tail(queue) /\ (api' = api \/ api' = api \o L)
    BY <1>9 DEF ResetSvTypeConfig, Handles, PostCalls
  <2>2. B \in Seq(Call) /\ OnlySv(B)
    BY BlacklistIs DEF TypeOK, AdapterTyped
  <2> HIDE DEF B
  <2>3. L \in Seq(Call) /\ OnlySv(L)
    BY <2>2, ResetIs, OnlySvConcat
  <2> HIDE DEF L
  <2> QED
    BY <1>2, <1>4, <2>1, <2>3
<1>10. CASE UpdateSvConfig
  <2> DEFINE R == IF Removes(m.types[1]) THEN ResetConstellations ELSE <<>>
             S == SetConstellations(IF types = <<>> THEN NoTypes ELSE types[1])
             A == IF m.types = <<>> THEN ResetConstellations ELSE R \o S
             B == SetBlacklist(m.svs)
             L == A \o B
  <2>1. pending' = pending /\ queue # <<>> /\ m.kind = "svConfig" /\ queue' = Tail(queue) /\ api' = api \o L
    BY <1>10 DEF UpdateSvConfig, Handles, PostCalls
  <2>2. m.svs \in SUBSET Satellites
    BY <2>1, HeadMail, MessageFields
  <2>3. S \in Seq(Call) /\ OnlySv(S)
    <3>1. NoTypes \in SvTypes
      BY DEF NoTypes, SvTypes
    <3>2. types # <<>> => types[1] \in SvTypes
      BY MaybeSome DEF TypeOK, AdapterTyped
    <3> QED
      BY <3>1, <3>2, ConstellationsAre
  <2>4. R \in Seq(Call) /\ OnlySv(R)
    BY ResetIs, NothingIs
  <2> HIDE DEF R, S
  <2>5. A \in Seq(Call) /\ OnlySv(A)
    BY <2>3, <2>4, ResetIs, OnlySvConcat
  <2>6. B \in Seq(Call) /\ OnlySv(B)
    BY <2>2, BlacklistIs
  <2> HIDE DEF A, B
  <2>7. L \in Seq(Call) /\ OnlySv(L)
    BY <2>5, <2>6, OnlySvConcat
  <2> HIDE DEF L
  <2> QED
    BY <1>4, <2>1, <2>7
<1>11. CASE EnableGnss
  <2>1. pending' = pending /\ queue # <<>> /\ queue' = Tail(queue) /\ (api' = api \/ \E l : api' = api \o SetLock(l))
    BY <1>11 DEF EnableGnss, Handles, PostCalls
  <2> QED
    BY <1>2, <1>5, <2>1
<1>12. CASE DisableGnss
  <2>1. pending' = pending /\ queue # <<>> /\ queue' = Tail(queue) /\ (api' = api \/ api' = api \o SetLock(gpsLock'))
    BY <1>12 DEF DisableGnss, Handles, PostCalls
  <2> QED
    BY <1>2, <1>5, <2>1
<1>13. CASE ControlNfw
  <2>1. pending' = pending /\ queue # <<>> /\ queue' = Tail(queue) /\ api' = api \o SetLock(gpsLock')
    BY <1>13 DEF ControlNfw, Handles, PostCalls
  <2> QED
    BY <1>5, <2>1
<1> QED
  BY <1>6, <1>7, <1>8, <1>9, <1>10, <1>11, <1>12, <1>13 DEF AdapterStep

----------------------------------------------------------------------------
(* The other steps, and the one request n.                                    *)

LEMMA RunningKeeps ==
  ASSUME TypeOK, TypeOK', NEW n \in 1..MaxAsks, AskFollows(n), Running
  PROVE  AskFollows(n)'
<1> DEFINE P == Calls(n)
           Q == Mail(n)
           c == Head(api)
<1>1. /\ UNCHANGED <<asks, answers, pending>> /\ QueueRan /\ api # <<>> /\ c = api[1] /\ 1 \in DOMAIN api
      /\ queue \in Seq(Message) /\ api \in Seq(Call) /\ Tail(api) \in Seq(Call) /\ c \in Call
  BY HeadCallTyped DEF Running, Ran, askVars, TypeOK, MailTyped
<1>2. PICK A, B : Ran(A, B)
  BY DEF Running
<1>3. A \in Seq(Call) /\ B \in Seq(Call) /\ api' = (A \o Tail(api)) \o B
  BY <1>2 DEF Ran
<1>4. Free(A, P) /\ Free(B, P)
  <2>1. /\ \A i \in DOMAIN A : A[i].call \in {"fill", "check", "default", "send"}
        /\ \A i \in DOMAIN B : B[i].id = 0
    BY <1>2 DEF Ran
  <2>2. n # 0
    OBVIOUS
  <2>3. Free(A, P)
    BY <2>1 DEF Free, Calls
  <2>4. Free(B, P)
    BY <2>1, <2>2 DEF Free, Calls
  <2> QED
    BY <2>3, <2>4
<1> HIDE DEF P
<1>5. /\ LosesIn(api, api', P)
      /\ Sole(api, P) /\ c \in P => Free(api', P)
  <2> DEFINE T == Tail(api)
             M == A \o T
  <2>1. /\ Free(api, P) => Free(T, P)
        /\ Sole(api, P) => Sole(T, P)
        /\ Sole(api, P) /\ c \in P => Free(T, P)
    BY <1>1, TailCarries
  <2>2. T \in Seq(Call) /\ Sole(A, P) /\ Sole(B, P)
    BY <1>1, <1>4 DEF Free, Sole
  <2> HIDE DEF T
  <2>3. M \in Seq(Call) /\ (Free(T, P) => Free(M, P)) /\ (Sole(T, P) => Sole(M, P))
    BY <1>3, <1>4, <2>2, ConcatCarries
  <2> HIDE DEF M
  <2>4. (Free(M, P) => Free(M \o B, P)) /\ (Sole(M, P) => Sole(M \o B, P))
    BY <1>3, <1>4, <2>2, <2>3, ConcatCarries
  <2>5. api' = M \o B
    BY <1>3 DEF M, T
  <2> QED
    BY <2>1, <2>3, <2>4, <2>5 DEF LosesIn
<1>6. CASE queue' = queue
  BY <1>1, <1>5, <1>6, MildKeeps DEF Mild, LosesIn, P
<1>7. ASSUME NEW m \in Message, queue' = Append(queue, m), m.kind \in {"response", "svIds"},
             m.kind = "response" => c.call \in {"set", "delete"} /\ m.id = c.id
      PROVE  AskFollows(n)'
  <2> HIDE DEF Q
  <2>1. /\ m \notin Q => (Free(queue, Q) => Free(queue', Q)) /\ (Sole(queue, Q) => Sole(queue', Q))
        /\ Free(queue, Q) => Sole(queue', Q)
    BY <1>1, <1>7, AppendCarries
  <2>2. CASE m \notin Q
    BY <1>1, <1>5, <2>1, <2>2, MildKeeps DEF Mild, LosesIn, P, Q
  <2>3. CASE m \in Q
    <3>1. c \in P
      BY <1>1, <1>7, <2>3 DEF P, Q, Mail, Calls, Once
    <3>2. ~Free(api, P)
      BY <1>1, <3>1 DEF Free
    <3>3. IsOpen(n) /\ Free(queue, Q) /\ Free(pending, Q) /\ Sole(pending, Q) /\ Sole(api, P)
      BY <3>2 DEF AskFollows, AllFree, P, Q
    <3>4. Free(api', P) /\ Sole(api', P) /\ Sole(queue', Q)
      BY <1>5, <2>1, <3>1, <3>3 DEF LosesIn
    <3> QED
      BY <1>1, <3>3, <3>4 DEF AskFollows, AllFree, AnsweredOnce, IsOpen, P, Q
  <2> QED
    BY <2>2, <2>3
<1> QED
  BY <1>1, <1>6, <1>7 DEF QueueRan

LEMMA AppendedKeeps ==
  ASSUME TypeOK, NEW n \in 1..MaxAsks, AskFollows(n), asks' = asks, answers' = answers, pending' = pending,
         queue' = queue \/ \E m \in Message : queue' = Append(queue, m) /\ m \notin Mail(n),
         LosesIn(api, api', Calls(n))
  PROVE  AskFollows(n)'
<1> DEFINE Q == Mail(n)
<1>1. queue \in Seq(Message)
  BY DEF TypeOK, MailTyped
<1>2. LosesIn(queue, queue', Q)
  <2>1. CASE queue' = queue
    BY <2>1 DEF LosesIn
  <2>2. ASSUME NEW m \in Message, queue' = Append(queue, m), m \notin Q
        PROVE  LosesIn(queue, queue', Q)
    <3> HIDE DEF Q
    <3> QED
      BY <1>1, <2>2, AppendCarries DEF LosesIn
  <2> QED
    BY <2>1, <2>2
<1> QED
  BY <1>2, MildKeeps DEF Mild

LEMMA AskKeeps ==
  ASSUME TypeOK, NEW n \in 1..MaxAsks, AskFollows(n), NEW r \in Request, Ask(r)
  PROVE  AskFollows(n)'
<1> DEFINE k == Len(asks) + 1
           m == [kind |-> r.kind, ask |-> r, id |-> k]
           Q == Mail(n)
<1>1. asks \in Seq(Request) /\ k \in Nat \ {0} /\ queue \in Seq(Message)
  BY DEF TypeOK, AsksTyped, MailTyped
<1>2. m \in Message
  <2>1. CASE r \in SetRequest
    BY <1>1, <2>1 DEF Message, SetRequest
  <2>2. CASE r \notin SetRequest
    <3>1. r.kind \in AskKinds
      BY <2>2 DEF Request, AskKinds
    <3> QED
      BY <1>1, <3>1 DEF Message
  <2> QED
    BY <2>1, <2>2
<1>3. /\ asks' = Append(asks, r) /\ queue' = Append(queue, m)
      /\ api' = api /\ answers' = answers /\ pending' = pending
  BY DEF Ask, Send, KeepAdapter, adapterVars
<1>4. Len(asks') = k /\ asks'[k] = r /\ \A i \in 1..Len(asks) : asks'[i] = asks[i]
  BY <1>1, <1>3
<1>5. m.id = k /\ m.kind = r.kind
  OBVIOUS
<1> HIDE DEF m
<1>6. LosesIn(api, api', Calls(n))
  BY <1>3 DEF LosesIn
<1>7. n \in Nat /\ n > 0 /\ Len(asks) \in Nat
  BY <1>1
<1>8. n <= Len(asks) => asks'[n] = asks[n]
  BY <1>4, <1>7
<1>9. CASE m \notin Q
  <2>1. LosesIn(queue, queue', Q)
    <3>1. m \notin Q
      BY <1>9
    <3> HIDE DEF Q
    <3> QED
      BY <1>1, <1>2, <1>3, <3>1, AppendCarries DEF LosesIn
  <2>2. IsOpen(n) => IsOpen(n)'
    BY <1>3, <1>4, <1>7, <1>8 DEF IsOpen
  <2>3. n > Len(asks)' => n > Len(asks)
    BY <1>4, <1>7
  <2>4. AnsweredOnce(n)'
    <3>1. CASE n <= Len(asks)
      BY <1>3, <1>8, <3>1 DEF AskFollows, AnsweredOnce
    <3>2. CASE n > Len(asks)
      BY <1>3, <3>2 DEF AskFollows, AnsweredOnce
    <3> QED
      BY <1>7, <3>1, <3>2
  <2> QED
    BY <1>3, <1>6, <2>1, <2>2, <2>3, <2>4 DEF AskFollows, AllFree, LosesIn
<1>10. CASE m \in Q
  <2>1. n = k
    BY <1>5, <1>10 DEF Mail
  <2>2. answers[n] = 0 /\ ~IsOpen(n)
    BY <1>7, <2>1 DEF AskFollows, IsOpen
  <2>3. /\ Free(queue, Q) /\ Free(api, Calls(n)) /\ Sole(api, Calls(n))
        /\ Free(pending, Q) /\ Sole(pending, Q)
    BY <2>2 DEF AskFollows, AllFree
  <2>4. Sole(queue', Q)
    <3>1. Free(queue, Q)
      BY <2>3
    <3> HIDE DEF Q
    <3> QED
      BY <1>1, <1>2, <1>3, <3>1, AppendCarries
  <2>5. IsOpen(n)' /\ AnsweredOnce(n)' /\ ~(n > Len(asks'))
    BY <1>3, <1>4, <1>7, <2>1, <2>2 DEF IsOpen, AnsweredOnce
  <2> QED
    BY <1>3, <2>3, <2>4, <2>5 DEF AskFollows, AllFree
<1> QED
  BY <1>9, <1>10

LEMMA OpenedKeeps ==
  ASSUME TypeOK, NEW n \in 1..MaxAsks, AskFollows(n), Opened
  PROVE  AskFollows(n)'
<1> DEFINE m == [kind |-> "engineUp"]
           P == Calls(n)
<1>1. /\ api # <<>> /\ api' = Tail(api) /\ queue' = Append(queue, m) /\ asks' = asks /\ answers' = answers
      /\ pending' = pending
  BY DEF Opened, OpenAnew, Open, Runs, askVars, adapterVars
<1>2. m \in Message /\ m \notin Mail(n)
  BY DEF Message, PlainKinds, Mail, Once
<1>3. api \in Seq(Call)
  BY DEF TypeOK, MailTyped
<1> HIDE DEF m, P
<1>4. LosesIn(api, api', P)
  BY <1>1, <1>3, TailCarries DEF LosesIn
<1> QED
  BY <1>1, <1>2, <1>4, AppendedKeeps DEF P

LEMMA DownedKeeps ==
  ASSUME TypeOK, NEW n \in 1..MaxAsks, AskFollows(n), Downed
  PROVE  AskFollows(n)'
<1> DEFINE c == [call |-> "open"]
           P == Calls(n)
<1>1. /\ queue' = queue /\ api' = Append(api, c) /\ asks' = asks /\ answers' = answers
      /\ pending' = pending
  BY DEF Downed, EngineDown, settingVars, askVars, adapterVars
<1>2. c \in Call /\ c \notin P
  BY DEF Call, Calls
<1>3. api \in Seq(Call)
  BY DEF TypeOK, MailTyped
<1> HIDE DEF c, P
<1>4. LosesIn(api, api', P)
  BY <1>1, <1>2, <1>3, AppendCarries DEF LosesIn
<1> QED
  BY <1>1, <1>4, AppendedKeeps DEF P

LEMMA ConfigKeeps ==
  ASSUME TypeOK, NEW n \in 1..MaxAsks, AskFollows(n), SetConfigStep
  PROVE  AskFollows(n)'
<1> DEFINE m == [kind |-> "measCorr", mask |-> MeasCorrCapabilities]
           P == Calls(n)
<1>1. /\ queue' = queue \o MeasCorrAtEngineUp /\ api' = api \o <<ConfigCall>>
      /\ asks' = asks /\ answers' = answers /\ pending' = pending
  BY ConfigIs DEF settingVars, askVars
<1>2. m \in Message /\ m \notin Mail(n)
  BY DEF Message, MeasCorrCapabilities, Mail, Once
<1>3. queue \in Seq(Message) /\ api \in Seq(Call)
  BY DEF TypeOK, MailTyped
<1>4. queue' = queue \/ queue' = Append(queue, m)
  <2>1. MeasCorrAtEngineUp = <<m>> \/ MeasCorrAtEngineUp = <<>>
    BY DEF MeasCorrAtEngineUp
  <2> HIDE DEF m
  <2>2. queue \o <<>> = queue /\ queue \o <<m>> = Append(queue, m)
    BY <1>2, <1>3, ConcatNothing, ConcatOne
  <2> QED
    BY <1>1, <2>1, <2>2
<1>5. ConfigCall \in Call /\ <<ConfigCall>> \in Seq(Call) /\ Free(<<ConfigCall>>, P)
  <2>1. ConfigCall \in Call /\ ConfigCall.call = "update"
    BY ConfigCallIs
  <2> QED
    BY <2>1, PlainCarries
<1> HIDE DEF m, P
<1>6. LosesIn(api, api', P)
  <2>1. Sole(<<ConfigCall>>, P)
    BY OneCarries
  <2> QED
    BY <1>1, <1>3, <1>5, <2>1, ConcatCarries DEF LosesIn
<1> QED
  BY <1>1, <1>2, <1>4, <1>6, AppendedKeeps DEF P

LEMMA RestoredKeeps ==
  ASSUME TypeOK, MailSuits, NEW n \in 1..MaxAsks, AskFollows(n), Restored
  PROVE  AskFollows(n)'
<1> DEFINE P == Calls(n)
           Q == Mail(n)
           T == Tail(queue)
<1>1. /\ queue # <<>> /\ queue' = T \o pending /\ api' = api \o RestoreCalls
      /\ pending' = [i \in DOMAIN pending |-> Freed]
      /\ asks' = asks /\ answers' = answers
  BY RestoredIs DEF settingVars, askVars, MailSuits
<1>2. queue \in Seq(Message) /\ pending \in Seq(Message) /\ api \in Seq(Call)
  BY DEF TypeOK, MailTyped
<1>3. Free(pending', Q) /\ Sole(pending', Q)
  <2>1. Freed \notin Q
    BY DEF Freed, Mail, Once
  <2>2. \A i \in DOMAIN pending' : pending'[i] = Freed
    BY <1>1
  <2> HIDE DEF Q
  <2> QED
    BY <2>1, <2>2 DEF Free, Sole
<1>4. RestoreCalls \in Seq(Call) /\ Free(RestoreCalls, P)
  BY RestoreCallsAre, OnlySvCarries
<1>5. LosesIn(api, api', P)
  <2> HIDE DEF P
  <2>1. Sole(RestoreCalls, P)
    BY <1>4 DEF Free, Sole
  <2> QED
    BY <1>1, <1>2, <1>4, <2>1, ConcatCarries DEF LosesIn
<1>6. LosesIn(queue, T, Q) /\ T \in Seq(Message)
  <2> HIDE DEF Q
  <2> QED
    BY <1>1, <1>2, TailCarries DEF LosesIn
<1>7. /\ Free(queue', Q) <=> Free(T, Q) /\ Free(pending, Q)
      /\ Sole(T, Q) /\ Sole(pending, Q) /\ (Free(T, Q) \/ Free(pending, Q)) => Sole(queue', Q)
  <2> HIDE DEF Q, T
  <2> QED
    BY <1>1, <1>2, <1>6, ConcatCarries
<1> QED
  BY <1>1, <1>3, <1>5, <1>6, <1>7 DEF LosesIn, AskFollows, AllFree, AnsweredOnce, IsOpen

----------------------------------------------------------------------------
(* A caller makes a request, or posts what is none.                           *)

Speaks == \E r \in Request : Ask(r)
Plainly(m) == m.kind \notin Once \cup {"response"}
Posts ==
  /\ UNCHANGED <<asks, answers, api, pending>>
  /\ queue' = queue \/ \E m \in Message : queue' = Append(queue, m) /\ Plainly(m)

LEMMA AppendedIs ==
  ASSUME TypeOK, TypeOK', NEW m, queue' = Append(queue, m)
  PROVE  m \in Message
<1>1. queue \in Seq(Message) /\ queue' \in Seq(Message)
  BY DEF TypeOK, MailTyped
<1>2. Len(queue) + 1 \in DOMAIN queue' /\ queue'[Len(queue) + 1] = m
  BY <1>1
<1> QED
  BY <1>1, <1>2, ElementTyped

LEMMA SentPosts ==
  ASSUME TypeOK, TypeOK', NEW m, Send(m), Plainly(m), UNCHANGED <<asks, answers, api, pending>>
  PROVE  Posts
<1>1. queue' = Append(queue, m)
  BY DEF Send
<1>2. m \in Message
  BY <1>1, AppendedIs
<1> QED
  BY <1>1, <1>2 DEF Posts

LEMMA ClientPosts ==
  ASSUME TypeOK, TypeOK', ClientStep, UNCHANGED settingVars
  PROVE  Posts
<1>1. UNCHANGED <<asks, answers>>
  BY DEF settingVars, askVars
<1>2. UNCHANGED <<api, pending>> /\ \E m : Send(m) /\ Plainly(m)
  <2>1. ASSUME NEW l, NEW svs, GnssUpdateConfigCommand(l, svs)
        PROVE  UNCHANGED <<api, pending>> /\ \E m : Send(m) /\ Plainly(m)
    <3> DEFINE m == [kind |-> "update", lock |-> l, svs |-> svs]
    <3>1. Plainly(m)
      BY DEF Plainly, Once
    <3> QED
      BY <2>1, <3>1 DEF GnssUpdateConfigCommand, adapterVars
  <2>2. ASSUME NEW t, SvTypeCommand(t)
        PROVE  UNCHANGED <<api, pending>> /\ \E m : Send(m) /\ Plainly(m)
    <3> DEFINE m == [kind |-> "svTypes", types |-> t]
    <3>1. Plainly(m)
      BY DEF Plainly, Once
    <3> QED
      BY <2>2, <3>1 DEF SvTypeCommand, adapterVars
  <2>3. ASSUME NEW t, NEW svs, SvConfigCommand(t, svs)
        PROVE  UNCHANGED <<api, pending>> /\ \E m : Send(m) /\ Plainly(m)
    <3> DEFINE m == [kind |-> "svConfig", types |-> t, svs |-> svs]
    <3>1. Plainly(m)
      BY DEF Plainly, Once
    <3> QED
      BY <2>3, <3>1 DEF SvConfigCommand, adapterVars
  <2>4. ASSUME NEW allow, NfwControlCommand(allow)
        PROVE  UNCHANGED <<api, pending>> /\ \E m : Send(m) /\ Plainly(m)
    <3> DEFINE m == [kind |-> "nfw", allow |-> allow]
    <3>1. Plainly(m)
      BY DEF Plainly, Once
    <3> QED
      BY <2>4, <3>1 DEF NfwControlCommand, adapterVars
  <2>5. CASE ResetSvTypeCommand
    <3> DEFINE m == [kind |-> "resetSvTypes"]
    <3>1. Plainly(m)
      BY DEF Plainly, Once
    <3> QED
      BY <2>5, <3>1 DEF ResetSvTypeCommand, adapterVars
  <2>6. CASE EnableCommand
    <3> DEFINE m == [kind |-> "enable", id |-> enables']
    <3>1. Plainly(m)
      BY DEF Plainly, Once
    <3> QED
      BY <2>6, <3>1 DEF EnableCommand, adapterVars
  <2>7. CASE DisableCommand
    <3>1. PICK id \in 1..enables : Send([kind |-> "disable", id |-> id])
      BY <2>7 DEF DisableCommand
    <3> DEFINE m == [kind |-> "disable", id |-> id]
    <3>2. Plainly(m)
      BY DEF Plainly, Once
    <3> QED
      BY <2>7, <3>1, <3>2 DEF DisableCommand, adapterVars
  <2> QED
    BY <2>1, <2>2, <2>3, <2>4, <2>5, <2>6, <2>7 DEF ClientStep
<1> QED
  BY <1>1, <1>2, SentPosts

LEMMA PostPosts ==
  ASSUME TypeOK, TypeOK', NEW m, Post(m), Plainly(m)
  PROVE  Posts
  BY SentPosts DEF Post, KeepAdapter, adapterVars, askVars

LEMMA SettingCommandsPost ==
  ASSUME TypeOK, TypeOK', SettingCommands
  PROVE  Speaks \/ Posts
<1>1. CASE \E v \in Values : SetConstrainedTuncCommand(v) \/ SetPositionAssistedClockEstimatorCommand(v)
  <2>1. PICK v \in Values : SetConstrainedTuncCommand(v) \/ SetPositionAssistedClockEstimatorCommand(v)
    BY <1>1
  <2>2. \A s \in Kept : [kind |-> "set", setting |-> s, value |-> v] \in Request
    BY DEF Request, SetRequest
  <2> QED
    BY <2>1, <2>2 DEF SetConstrainedTuncCommand, SetPositionAssistedClockEstimatorCommand, Kept, Speaks
<1>2. CASE \/ ConfigLeverArmCommand \/ ConfigDeadReckoningEngineParamsCommand
           \/ \E dre \in BOOLEAN : ConfigEngineRunStateCommand(dre)
           \/ \E spe \in BOOLEAN : GnssDeleteAidingDataCommand(spe)
           \/ \E flag \in GetFlags : GnssGetConfigCommand(flag)
           \/ ConfigRobustLocationCommand \/ GnssUpdateSecondaryBandConfigCommand
           \/ GnssGetSecondaryBandConfigCommand
  <2>1. /\ [kind |-> "leverArm"] \in Request /\ [kind |-> "dreParams"] \in Request
        /\ \A dre \in BOOLEAN : [kind |-> "runState", dre |-> dre] \in Request
        /\ \A spe \in BOOLEAN : [kind |-> "delete", spe |-> spe] \in Request
        /\ \A flag \in GetFlags : [kind |-> "get", flag |-> flag] \in Request
        /\ [kind |-> "unserved", what |-> "robust"] \in Request
        /\ [kind |-> "unserved", what |-> "band"] \in Request
        /\ [kind |-> "unserved", what |-> "getBand"] \in Request
    BY DEF Request
  <2> QED
    BY <1>2, <2>1 DEF ConfigLeverArmCommand, ConfigDeadReckoningEngineParamsCommand,
       ConfigEngineRunStateCommand, GnssDeleteAidingDataCommand, GnssGetConfigCommand,
       ConfigRobustLocationCommand, GnssUpdateSecondaryBandConfigCommand, GnssGetSecondaryBandConfigCommand,
       Speaks
<1>3. CASE Tick \/ OpenMeasCorrCommand \/ CloseMeasCorrCommand \/ AntennaInfoCloseCommand
  BY <1>3 DEF Tick, OpenMeasCorrCommand, CloseMeasCorrCommand, AntennaInfoCloseCommand, Posts,
     KeepAdapter, adapterVars, askVars
<1>4. CASE MeasCorrSetCorrectionsCommand
  <2>1. Plainly([kind |-> "corrections"])
    BY DEF Plainly, Once
  <2> QED
    BY <1>4, <2>1, SentPosts DEF MeasCorrSetCorrectionsCommand, KeepAdapter, adapterVars, askVars
<1>5. CASE AntennaInfoInitCommand
  <2>1. Plainly([kind |-> "antenna"])
    BY DEF Plainly, Once
  <2> QED
    BY <1>5, <2>1, SentPosts DEF AntennaInfoInitCommand, KeepAdapter, adapterVars, askVars
<1>6. CASE \/ \E near \in BOOLEAN : InjectLocationCommand(near)
           \/ \E seconds \in 0..1 : BlockCPICommand(seconds)
           \/ InjectLocationExtCommand \/ InjectTimeCommand \/ UpdateSystemPowerStateCommand
  <2>1. \A near : Plainly([kind |-> "location", near |-> near])
    BY DEF Plainly, Once
  <2>2. \A till : Plainly([kind |-> "block", till |-> till])
    BY DEF Plainly, Once
  <2>3. Plainly([kind |-> "time"]) /\ Plainly([kind |-> "power"])
    BY DEF Plainly, Once
  <2> QED
    BY <1>6, <2>1, <2>2, <2>3, PostPosts DEF InjectLocationCommand, BlockCPICommand,
       InjectLocationExtCommand, InjectTimeCommand, UpdateSystemPowerStateCommand
<1> QED
  BY <1>1, <1>2, <1>3, <1>4, <1>5, <1>6 DEF SettingCommands

LEMMA LookPosts ==
  ASSUME TypeOK, TypeOK', OpenMeasCorrLooks
  PROVE  Posts
<1> DEFINE m == [kind |-> "measCorr", mask |-> "all"]
<1>1. UNCHANGED <<asks, answers, api, pending>> /\ (queue' = queue \/ queue' = Append(queue, m))
  BY DEF OpenMeasCorrLooks, KeepAdapter, adapterVars, askVars
<1>2. m \in Message /\ Plainly(m)
  BY DEF Message, Plainly, Once
<1> HIDE DEF m
<1> QED
  BY <1>1, <1>2 DEF Posts

LEMMA ClientsSpeak ==
  ASSUME TypeOK, TypeOK', ClientSteps
  PROVE  Speaks \/ Posts
  BY ClientPosts, SettingCommandsPost, LookPosts DEF ClientSteps

LEMMA PostsKeeps ==
  ASSUME TypeOK, NEW n \in 1..MaxAsks, AskFollows(n), Posts
  PROVE  AskFollows(n)'
<1>1. asks' = asks /\ answers' = answers /\ pending' = pending /\ LosesIn(api, api', Calls(n))
  BY DEF Posts, LosesIn
<1>2. queue' = queue \/ \E m \in Message : queue' = Append(queue, m) /\ m \notin Mail(n)
  BY DEF Posts, Plainly, Mail
<1> QED
  BY <1>1, <1>2, AppendedKeeps

LEMMA AskStep ==
  ASSUME IInv, IInv', NEW n \in 1..MaxAsks, AskFollows(n), [Next]_allVars
  PROVE  AskFollows(n)'
<1>1. TypeOK /\ TypeOK' /\ MailSuits /\ CallsSuit /\ ValuesCome
  BY DEF IInv
<1>2. CASE AdapterSteps
  <2>1. CASE AdapterStep /\ UNCHANGED settingVars
    BY <1>1, <2>1, ConfigHandlersKeep, RestoredKeeps DEF Restored
  <2> QED
    BY <1>1, <1>2, <2>1, ConfigKeeps, SettingHandlersKeep DEF AdapterSteps
<1>3. CASE ApiSteps
  BY <1>1, <1>3, CallsRun, RunningKeeps, OpenedKeeps DEF ApiSteps, Opened
<1>4. CASE ClientSteps
  BY <1>1, <1>4, ClientsSpeak, AskKeeps, PostsKeeps DEF Speaks
<1>5. CASE EngineDown /\ UNCHANGED settingVars
  BY <1>1, <1>5, DownedKeeps DEF Downed
<1>6. CASE UNCHANGED allVars
  BY <1>6 DEF AskFollows, AllFree, IsOpen, AnsweredOnce, allVars, vars, adapterVars, settingVars, askVars
<1> QED
  BY <1>2, <1>3, <1>4, <1>5, <1>6 DEF Next

----------------------------------------------------------------------------
(* Who asks.                                                                  *)

LEMMA AsksMove ==
  ASSUME TypeOK, TypeOK', [Next]_allVars
  PROVE  asks' = asks \/ Speaks
<1>1. CASE AdapterSteps
  <2>1. CASE SettingHandlers
    BY <2>1 DEF SettingHandlers, SetConstrainedTunc, SetPositionAssistedClockEstimator, SetSetting,
       ConfigLeverArm, ConfigDeadReckoningEngineParams, ConfigEngineRunState, HandleLocApiResponse, AnswerFor,
       ConfigUnserved, UpdateSystemPowerState, SetMeasurementCorrections, ReportGnssAntennaInformation,
       ReportGnssSvIdConfig, Ignored, DeleteAidingData, GetConfig, InitMeasCorr, InjectLocation, InjectTime,
       BlockCPI, KeepSettings
  <2> QED
    BY <1>1, <2>1 DEF AdapterSteps, SetConfigStep, settingVars, askVars
<1>2. CASE ApiSteps
  <2>1. CASE SettingCalls
    BY <2>1 DEF SettingCalls, CheckSetting, LoadDefault, SendSetting, SetMode, DeleteInEngine,
       GetBlacklistSv, InjectPosition, KeepForApi, askVars
  <2> QED
    BY <1>2, <2>1 DEF ApiSteps, settingVars, askVars
<1>3. CASE ClientSteps
  BY <1>3, ClientsSpeak DEF Posts
<1>4. CASE EngineDown /\ UNCHANGED settingVars
  BY <1>4 DEF settingVars, askVars
<1>5. CASE UNCHANGED allVars
  BY <1>5 DEF allVars, settingVars, askVars
<1> QED
  BY <1>1, <1>2, <1>3, <1>4, <1>5 DEF Next

LEMMA LengthStep ==
  ASSUME IInv, TypeOK', Len(asks) <= MaxAsks, [Next]_allVars
  PROVE  Len(asks') <= MaxAsks
<1>1. TypeOK
  BY DEF IInv
<1>2. asks \in Seq(Request) /\ MaxAsks \in Nat
  BY <1>1, SettingsAssumption DEF TypeOK, AsksTyped
<1>3. CASE Speaks
  <2>1. PICK r \in Request : Len(asks) < MaxAsks /\ asks' = Append(asks, r)
    BY <1>3 DEF Speaks, Ask
  <2> QED
    BY <1>2, <2>1
<1> QED
  BY <1>1, <1>3, AsksMove

(* No request is answered twice, by the adapter and by the engine             *)
(* (reportResponse, and the LocApiResponse that comes back as a message), or  *)
(* again at each restart of the engine, if it waited for it.  This is the     *)
(* safety part of AsksAnsweredOnce.                                           *)
THEOREM NoAskAnsweredTwice ==
  Spec => [](\A id \in 1..Len(asks) : answers[id] <= 1)
<1>1. IInv /\ SettingsInit => AskInv
  <2> SUFFICES ASSUME IInv, SettingsInit
               PROVE  AskInv
    OBVIOUS
  <2>1. asks = <<>> /\ queue = <<>> /\ pending = <<>> /\ api = <<[call |-> "open"]>>
    BY DEF SettingsInit, Init
  <2>2. \A n \in 1..MaxAsks : answers[n] = 0 /\ n > Len(asks)
    BY DEF SettingsInit
  <2>3. \A P : Free(<<>>, P) /\ Sole(<<>>, P)
    BY OneCarries
  <2>4. \A n : Free(api, Calls(n)) /\ Sole(api, Calls(n))
    BY <2>1, PlainCarries, OneCarries
  <2>5. Len(asks) <= MaxAsks
    BY <2>1, SettingsAssumption
  <2> QED
    BY <2>1, <2>2, <2>3, <2>4, <2>5 DEF AskInv, AskFollows, AllFree, AnsweredOnce
<1>2. AskInv /\ IInv' /\ [Next]_allVars => AskInv'
  <2> SUFFICES ASSUME AskInv, IInv', [Next]_allVars
               PROVE  AskInv'
    OBVIOUS
  <2>1. IInv /\ Len(asks) <= MaxAsks /\ TypeOK'
    BY DEF AskInv, IInv
  <2>2. \A n \in 1..MaxAsks : AskFollows(n)'
    BY <2>1, AskStep DEF AskInv
  <2> QED
    BY <2>1, <2>2, LengthStep DEF AskInv
<1>3. AskInv => \A id \in 1..Len(asks) : answers[id] <= 1
  <2> SUFFICES ASSUME AskInv, NEW id \in 1..Len(asks)
               PROVE  answers[id] <= 1
    OBVIOUS
  <2>1. Len(asks) \in Nat /\ Len(asks) <= MaxAsks /\ MaxAsks \in Nat
    BY SettingsAssumption DEF AskInv, IInv, TypeOK, AsksTyped
  <2>2. id \in 1..MaxAsks /\ id <= Len(asks)
    BY <2>1
  <2> QED
    BY <2>2 DEF AskInv, AskFollows, AnsweredOnce
<1> QED
  BY <1>1, <1>2, <1>3, Invariant, PTL DEF Spec

=============================================================================
