--------------------------- MODULE MsgTaskProofs ---------------------------
(***************************************************************************)
(* Proofs about MsgTask for any set of messages: each accepted message is  *)
(* in one place, the queue is freed last, and the task implements the      *)
(* first-in-first-out queue of MsgFifo.                                    *)
(***************************************************************************)
EXTENDS MsgTask, Integers, TLAPS

(* How the parts of the state go together.                                 *)
Places ==
  /\ unblocked <=> stop \in {"interrupted", "done"}
  /\ reader \in {"leaving", "ended"} => unblocked
  /\ reader = "waiting" => ~unblocked
  /\ "thread" \in owners <=> reader # "ended"
  /\ "stopper" \in owners <=> stop \in {"interrupting", "interrupted"}
  /\ IF reader = "handling" THEN \E m \in Messages : current = <<m>> ELSE current = <<>>

IInv == TypeOK /\ EachOnce /\ Places

Distinct(l) == \A i, j \in DOMAIN l : l[i] = l[j] => i = j
In(m, l)    == \E i \in DOMAIN l : l[i] = m

-----------------------------------------------------------------------------
(* Lists: what Append and Tail do to what is in them.                      *)

LEMMA AppendIn ==
  ASSUME NEW l \in Seq(Messages), NEW m \in Messages
  PROVE  /\ Append(l, m) \in Seq(Messages)
         /\ \A x : In(x, Append(l, m)) <=> In(x, l) \/ x = m
         /\ Distinct(l) /\ ~In(m, l) => Distinct(Append(l, m))
<1> DEFINE n == Len(l)
<1>1. /\ n \in Nat /\ DOMAIN l = 1..n /\ DOMAIN Append(l, m) = 1..(n + 1)
      /\ \A i \in 1..n : Append(l, m)[i] = l[i]
      /\ Append(l, m)[n + 1] = m
      /\ Append(l, m) \in Seq(Messages)
  OBVIOUS
<1> HIDE DEF n
<1>2. \A i \in 1..(n + 1) : i \in 1..n \/ i = n + 1
  BY <1>1
<1>3. 1..n \subseteq 1..(n + 1) /\ n + 1 \in 1..(n + 1)
  BY <1>1
<1>4. \A x : In(x, Append(l, m)) <=> In(x, l) \/ x = m
  BY <1>1, <1>2, <1>3, Zenon DEF In
<1>5. Distinct(l) /\ ~In(m, l) => Distinct(Append(l, m))
  BY <1>1, <1>2, <1>3 DEF In, Distinct
<1> QED
  BY <1>1, <1>4, <1>5

LEMMA TailIn ==
  ASSUME NEW l \in Seq(Messages), l # <<>>, Distinct(l)
  PROVE  /\ Head(l) \in Messages
         /\ Tail(l) \in Seq(Messages)
         /\ \A x : In(x, Tail(l)) <=> In(x, l) /\ x # Head(l)
         /\ Distinct(Tail(l))
<1>1. /\ Head(l) = l[1] /\ Len(l) \in Nat /\ Len(l) > 0
      /\ DOMAIN l = 1..Len(l) /\ DOMAIN Tail(l) = 1..(Len(l) - 1)
      /\ \A i \in 1..(Len(l) - 1) : Tail(l)[i] = l[i + 1]
  OBVIOUS
<1>2. Head(l) \in Messages /\ Tail(l) \in Seq(Messages)
  OBVIOUS
<1>3. Distinct(Tail(l))
  <2> SUFFICES ASSUME NEW i \in 1..(Len(l) - 1), NEW j \in 1..(Len(l) - 1), l[i + 1] = l[j + 1]
               PROVE  i = j
    BY <1>1 DEF Distinct
  <2>1. i + 1 \in DOMAIN l /\ j + 1 \in DOMAIN l
    BY <1>1
  <2>2. i + 1 = j + 1
    BY <2>1 DEF Distinct
  <2> QED
    BY <2>2
<1>4. ASSUME NEW x, In(x, Tail(l))
      PROVE  In(x, l) /\ x # Head(l)
  <2>1. PICK i \in 1..(Len(l) - 1) : l[i + 1] = x
    BY <1>1, <1>4 DEF In
  <2>2. i + 1 \in DOMAIN l /\ 1 \in DOMAIN l /\ i + 1 # 1
    BY <1>1
  <2> QED
    BY <1>1, <2>1, <2>2 DEF In, Distinct
<1>5. ASSUME NEW x, In(x, l), x # Head(l)
      PROVE  In(x, Tail(l))
  <2>1. PICK i \in 1..Len(l) : l[i] = x
    BY <1>1, <1>5 DEF In
  <2>2. i - 1 \in 1..(Len(l) - 1) /\ (i - 1) + 1 = i
    BY <1>1, <1>5, <2>1
  <2> QED
    BY <1>1, <2>1, <2>2 DEF In
<1> QED
  BY <1>2, <1>3, <1>4, <1>5

LEMMA EachOnceEquiv ==
  EachOnce <=> /\ Distinct(list)
               /\ \A m \in Messages : fate[m] = "queued" <=> In(m, list)
               /\ \A m \in Messages : fate[m] = "taken" <=> current = <<m>>
  BY DEF EachOnce, Distinct, In

LEMMA EachOncePrimed ==
  EachOnce' <=> /\ Distinct(list')
                /\ \A m \in Messages : fate'[m] = "queued" <=> In(m, list')
                /\ \A m \in Messages : fate'[m] = "taken" <=> current' = <<m>>
  BY DEF EachOnce, Distinct, In

-----------------------------------------------------------------------------
(* The invariant holds at first and is kept, action by action.             *)

LEMMA IInvInit == Init => IInv
<1> SUFFICES ASSUME Init PROVE IInv
  OBVIOUS
<1>1. TypeOK
  <2>1. list \in Seq(Messages) /\ current \in Seq(Messages)
    BY DEF Init
  <2>2. reader \in ReaderState /\ stop \in StopState /\ owners \subseteq Owner
    BY DEF Init, ReaderState, StopState, Owner
  <2>3. unblocked \in BOOLEAN /\ fate \in [Messages -> Fate]
    BY DEF Init, Fate
  <2> QED
    BY <2>1, <2>2, <2>3 DEF TypeOK
<1>2. EachOnce
  BY DEF Init, EachOnce
<1>3. Places
  BY DEF Init, Places
<1> QED
  BY <1>1, <1>2, <1>3 DEF IInv

LEMMA SendMsgStep ==
  ASSUME IInv, NEW m \in Messages, SendMsg(m)
  PROVE  IInv'
<1>1. fate[m] = "new" /\ UNCHANGED <<unblocked, current, stop, owners>>
  BY DEF SendMsg
<1>2. CASE Accept(m)
  <2>1. ~In(m, list)
    BY <1>1, EachOnceEquiv DEF IInv
  <2>2. TypeOK'
    BY <1>1, <1>2, AppendIn DEF IInv, TypeOK, Accept, WakeReader, ReaderState, Fate
  <2>3. EachOnce'
    <3>1. /\ list' = Append(list, m) /\ list \in Seq(Messages) /\ Distinct(list)
          /\ fate' = [fate EXCEPT ![m] = "queued"] /\ fate \in [Messages -> Fate]
      BY <1>2, EachOnceEquiv DEF Accept, IInv, TypeOK
    <3>2. Distinct(list') /\ \A x : In(x, list') <=> In(x, list) \/ x = m
      BY <2>1, <3>1, AppendIn
    <3>3. \A x \in Messages : fate'[x] = IF x = m THEN "queued" ELSE fate[x]
      BY <3>1
    <3> QED
      BY <1>1, <3>2, <3>3, EachOnceEquiv, EachOncePrimed DEF IInv
  <2>4. Places'
    BY <1>1, <1>2 DEF IInv, Places, Accept, WakeReader
  <2> QED
    BY <2>2, <2>3, <2>4 DEF IInv
<1>3. CASE Refuse(m)
  <2>1. TypeOK'
    BY <1>1, <1>3 DEF IInv, TypeOK, Refuse, Fate
  <2>2. EachOnce'
    BY <1>1, <1>3 DEF IInv, TypeOK, EachOnce, Refuse
  <2>3. Places'
    BY <1>1, <1>3 DEF IInv, Places, Refuse
  <2> QED
    BY <2>1, <2>2, <2>3 DEF IInv
<1> QED
  BY <1>2, <1>3 DEF SendMsg

LEMMA TakeStep ==
  ASSUME IInv, Take, reader \in {"looping", "woken"}, UNCHANGED <<unblocked, stop, owners>>
  PROVE  IInv'
<1>1. /\ list # <<>> /\ current' = <<Head(list)>> /\ list' = Tail(list)
      /\ fate' = [fate EXCEPT ![Head(list)] = "taken"] /\ reader' = "handling"
  BY DEF Take, Oldest
<1>2. list \in Seq(Messages) /\ fate \in [Messages -> Fate] /\ current = <<>>
  BY DEF IInv, TypeOK, Places
<1>3. Distinct(list)
  BY EachOnceEquiv DEF IInv
<1>4. /\ Head(list) \in Messages /\ list' \in Seq(Messages) /\ Distinct(list')
      /\ \A x : In(x, list') <=> In(x, list) /\ x # Head(list)
  BY <1>1, <1>2, <1>3, TailIn
<1>5. TypeOK'
  BY <1>1, <1>2, <1>4 DEF IInv, TypeOK, ReaderState, Fate
<1>6. EachOnce'
  <2>1. \A x \in Messages : fate'[x] = IF x = Head(list) THEN "taken" ELSE fate[x]
    BY <1>1, <1>2
  <2>2. \A x \in Messages : current' = <<x>> <=> x = Head(list)
    BY <1>1
  <2>3. \A x \in Messages : fate[x] # "taken"
    BY <1>2, EachOnceEquiv DEF IInv
  <2> QED
    BY <1>4, <2>1, <2>2, <2>3, EachOnceEquiv, EachOncePrimed DEF IInv
<1>7. Places'
  BY <1>1, <1>4 DEF IInv, Places
<1> QED
  BY <1>5, <1>6, <1>7 DEF IInv

(* A step of the thread that leaves the messages where they are.           *)
LEMMA GoToStep ==
  ASSUME IInv, NEW s \in {"leaving", "waiting", "woken"}, GoTo(s),
         reader \in {"looping", "waiting", "woken"},
         s = "leaving" => unblocked, s = "waiting" => ~unblocked,
         UNCHANGED <<unblocked, stop, owners>>
  PROVE  IInv'
<1>1. TypeOK'
  BY DEF IInv, TypeOK, GoTo, ReaderState
<1>2. EachOnce'
  BY DEF IInv, EachOnce, GoTo
<1>3. Places'
  BY DEF IInv, Places, GoTo
<1> QED
  BY <1>1, <1>2, <1>3 DEF IInv

LEMMA FinishStep ==
  ASSUME IInv, Finish
  PROVE  IInv'
<1>1. PICK m \in Messages : current = <<m>>
  BY DEF IInv, Places, Finish
<1>2. /\ fate' = [fate EXCEPT ![m] = "handled"] /\ current' = <<>> /\ reader' = "looping"
      /\ UNCHANGED <<list, unblocked, stop, owners>>
  BY <1>1 DEF Finish
<1>3. TypeOK'
  BY <1>2 DEF IInv, TypeOK, ReaderState, Fate
<1>4. EachOnce'
  <2>1. fate[m] = "taken" /\ fate \in [Messages -> Fate]
    BY <1>1 DEF IInv, EachOnce, TypeOK
  <2>2. \A x \in Messages : fate'[x] = IF x = m THEN "handled" ELSE fate[x]
    BY <1>2, <2>1
  <2>3. \A x \in Messages : current = <<x>> <=> x = m
    BY <1>1
  <2>4. \A x \in Messages : current' # <<x>>
    BY <1>2
  <2> QED
    BY <1>2, <2>1, <2>2, <2>3, <2>4 DEF IInv, EachOnce
<1>5. Places'
  BY <1>2 DEF IInv, Places, Finish
<1> QED
  BY <1>3, <1>4, <1>5 DEF IInv

(* Whoever lets go: the messages still queued are dropped, or nothing is.  *)
LEMMA LetGoKeeps ==
  ASSUME IInv, NEW o \in Owner, LetGo(o), UNCHANGED current
  PROVE  /\ list' \in Seq(Messages) /\ fate' \in [Messages -> Fate] /\ EachOnce'
         /\ owners' = owners \ {o} /\ owners' \subseteq Owner
<1>1. list \in Seq(Messages) /\ fate \in [Messages -> Fate] /\ owners \subseteq Owner /\ EachOnce
  BY DEF IInv, TypeOK
<1>2. CASE owners' = {}
  <2>1. /\ list' = <<>>
        /\ fate' = [m \in Messages |-> IF fate[m] = "queued" THEN "dropped" ELSE fate[m]]
    BY <1>2 DEF LetGo
  <2>2. fate' \in [Messages -> Fate]
    BY <1>1, <2>1 DEF Fate
  <2>3. EachOnce'
    BY <1>1, <2>1 DEF EachOnce
  <2> QED
    BY <1>1, <2>1, <2>2, <2>3 DEF LetGo
<1>3. CASE owners' # {}
  BY <1>1, <1>3 DEF LetGo, EachOnce
<1> QED
  BY <1>2, <1>3

LEMMA EndStep ==
  ASSUME IInv, End
  PROVE  IInv'
<1>1. reader = "leaving" /\ reader' = "ended" /\ UNCHANGED <<unblocked, current, stop>>
  BY DEF End
<1>2. /\ list' \in Seq(Messages) /\ fate' \in [Messages -> Fate] /\ EachOnce'
      /\ owners' = owners \ {"thread"} /\ owners' \subseteq Owner
  BY LetGoKeeps DEF End, Owner
<1>3. TypeOK'
  BY <1>1, <1>2 DEF IInv, TypeOK, ReaderState
<1>4. Places'
  BY <1>1, <1>2 DEF IInv, Places
<1> QED
  BY <1>2, <1>3, <1>4 DEF IInv

LEMMA StopStep ==
  ASSUME IInv, Stop
  PROVE  IInv'
<1>1. TypeOK'
  BY DEF IInv, TypeOK, Stop, StopState, Owner
<1>2. EachOnce'
  BY DEF IInv, EachOnce, Stop
<1>3. Places'
  BY DEF IInv, Places, Stop
<1> QED
  BY <1>1, <1>2, <1>3 DEF IInv

LEMMA UnblockStep ==
  ASSUME IInv, Unblock
  PROVE  IInv'
<1>1. TypeOK'
  BY DEF IInv, TypeOK, Unblock, WakeReader, StopState, ReaderState
<1>2. EachOnce'
  BY DEF IInv, EachOnce, Unblock
<1>3. Places'
  BY DEF IInv, Places, Unblock, WakeReader
<1> QED
  BY <1>1, <1>2, <1>3 DEF IInv

LEMMA StoppedStep ==
  ASSUME IInv, Stopped
  PROVE  IInv'
<1>1. stop = "interrupted" /\ stop' = "done" /\ UNCHANGED <<unblocked, reader, current>>
  BY DEF Stopped
<1>2. /\ list' \in Seq(Messages) /\ fate' \in [Messages -> Fate] /\ EachOnce'
      /\ owners' = owners \ {"stopper"} /\ owners' \subseteq Owner
  BY LetGoKeeps DEF Stopped, Owner
<1>3. TypeOK'
  BY <1>1, <1>2 DEF IInv, TypeOK, StopState
<1>4. Places'
  BY <1>1, <1>2 DEF IInv, Places
<1> QED
  BY <1>2, <1>3, <1>4 DEF IInv

LEMMA IInvStep == IInv /\ [Next]_vars => IInv'
<1> SUFFICES ASSUME IInv, [Next]_vars PROVE IInv'
  OBVIOUS
<1>1. CASE \E m \in Messages : SendMsg(m)
  BY <1>1, SendMsgStep
<1>2. CASE Receive
  <2>1. reader = "looping" /\ UNCHANGED <<unblocked, stop, owners>>
    BY <1>2 DEF Receive
  <2>2. CASE unblocked /\ GoTo("leaving")
    BY <2>1, <2>2, GoToStep
  <2>3. CASE ~unblocked /\ GoTo("waiting")
    BY <2>1, <2>3, GoToStep
  <2>4. CASE Take
    BY <2>1, <2>4, TakeStep
  <2> QED
    BY <1>2, <2>2, <2>3, <2>4 DEF Receive
<1>3. CASE Resume
  <2>1. reader = "woken" /\ UNCHANGED <<unblocked, stop, owners>>
    BY <1>3 DEF Resume
  <2>2. CASE unblocked /\ GoTo("leaving")
    BY <2>1, <2>2, GoToStep
  <2>3. CASE ~unblocked /\ GoTo("waiting")
    BY <2>1, <2>3, GoToStep
  <2>4. CASE Take
    BY <2>1, <2>4, TakeStep
  <2> QED
    BY <1>3, <2>2, <2>3, <2>4 DEF Resume
<1>4. CASE Finish
  BY <1>4, FinishStep
<1>5. CASE End
  BY <1>5, EndStep
<1>6. CASE SpuriousWakeup
  BY <1>6, GoToStep DEF SpuriousWakeup
<1>7. CASE Stop
  BY <1>7, StopStep
<1>8. CASE Unblock
  BY <1>8, UnblockStep
<1>9. CASE Stopped
  BY <1>9, StoppedStep
<1>10. CASE UNCHANGED vars
  <2>1. TypeOK'
    BY <1>10 DEF IInv, TypeOK, vars
  <2>2. EachOnce'
    BY <1>10 DEF IInv, EachOnce, vars
  <2>3. Places'
    BY <1>10 DEF IInv, Places, vars
  <2> QED
    BY <2>1, <2>2, <2>3 DEF IInv
<1> QED
  BY <1>1, <1>2, <1>3, <1>4, <1>5, <1>6, <1>7, <1>8, <1>9, <1>10 DEF Next, ReaderStep

LEMMA IInvAlways == Spec => []IInv
  BY IInvInit, IInvStep, PTL DEF Spec

(* Every reachable state is well typed.                                    *)
THEOREM TypeCorrect == Spec => []TypeOK
<1>1. IInv => TypeOK
  BY DEF IInv
<1> QED
  BY <1>1, IInvAlways, PTL

(* A message that was accepted is in exactly one place, whatever senders,  *)
(* the thread and the end of the task do.                                  *)
THEOREM EachMessageOnce == Spec => []EachOnce
<1>1. IInv => EachOnce
  BY DEF IInv
<1> QED
  BY <1>1, IInvAlways, PTL

(* Nobody uses the queue after it was freed.                               *)
THEOREM QueueFreedLast == Spec => []QueueOutlivesUse
<1>1. IInv => QueueOutlivesUse
  BY DEF IInv, Places, QueueOutlivesUse, TypeOK, ReaderState, StopState
<1> QED
  BY <1>1, IInvAlways, PTL

-----------------------------------------------------------------------------
(* The task implements MsgFifo: every step of it is one of the queue's, or *)
(* none.                                                                   *)

Accepted == {m \in Messages : fate[m] \notin {"new", "refused"}}

LEMMA SendMsgImplements ==
  ASSUME IInv, NEW m \in Messages, SendMsg(m)
  PROVE  Fifo!Accept(m) \/ UNCHANGED Fifo!vars
<1>1. /\ fate[m] = "new" /\ fate \in [Messages -> Fate]
      /\ UNCHANGED <<unblocked, current, stop, owners>>
  BY DEF SendMsg, IInv, TypeOK
<1>2. CASE Accept(m)
  <2>1. Accepted' = Accepted \union {m} /\ m \notin Accepted
    BY <1>1, <1>2 DEF Accept, Accepted
  <2>2. Phase = "open" /\ Phase' = "open"
    BY <1>1, <1>2 DEF Accept, Phase
  <2> QED
    BY <1>1, <1>2, <2>1, <2>2 DEF Accept, Accepted, Fifo!Accept
<1>3. CASE Refuse(m)
  <2>1. Accepted' = Accepted
    BY <1>1, <1>3 DEF Refuse, Accepted
  <2>2. Phase' = Phase
    BY <1>1, <1>3 DEF Refuse, Phase
  <2> QED
    BY <1>1, <1>3, <2>1, <2>2 DEF Refuse, Accepted, Fifo!vars
<1> QED
  BY <1>2, <1>3 DEF SendMsg

LEMMA TakeImplements ==
  ASSUME IInv, Take, reader = "looping" => ~unblocked, reader \in {"looping", "woken"},
         UNCHANGED unblocked
  PROVE  Fifo!Begin
<1>1. /\ list # <<>> /\ current' = <<Head(list)>> /\ list' = Tail(list)
      /\ fate' = [fate EXCEPT ![Head(list)] = "taken"] /\ reader' = "handling"
  BY DEF Take, Oldest
<1>2. list \in Seq(Messages) /\ fate \in [Messages -> Fate] /\ current = <<>>
  BY DEF IInv, TypeOK, Places
<1>3. In(Head(list), list) /\ Head(list) \in Messages
  BY <1>1, <1>2 DEF In
<1>4. fate[Head(list)] = "queued"
  BY <1>3, EachOnceEquiv DEF IInv
<1>5. Accepted' = Accepted
  BY <1>1, <1>2, <1>3, <1>4 DEF Accepted
<1>6. Phase # "closed" /\ Phase' = IF Phase = "closing" THEN "closed" ELSE Phase
  BY <1>1 DEF Phase
<1> QED
  BY <1>1, <1>2, <1>5, <1>6 DEF Accepted, Fifo!Begin

(* The thread waits, wakes up or leaves: the queue takes no notice, or     *)
(* there was no last message to begin.                                     *)
LEMMA GoToImplements ==
  ASSUME IInv, NEW s \in {"leaving", "waiting", "woken"}, GoTo(s), UNCHANGED unblocked,
         unblocked => s = "leaving", reader \in {"looping", "waiting", "woken"}
  PROVE  Fifo!GiveUp \/ UNCHANGED Fifo!vars
<1>1. UNCHANGED <<list, current, Accepted>>
  BY DEF GoTo, Accepted
<1>2. Phase' = Phase \/ (Phase = "closing" /\ Phase' = "closed")
  BY DEF GoTo, Phase
<1> QED
  BY <1>1, <1>2 DEF Accepted, Fifo!GiveUp, Fifo!vars

LEMMA FinishImplements ==
  ASSUME IInv, Finish
  PROVE  Fifo!Finish
<1>1. PICK m \in Messages : current = <<m>>
  BY DEF IInv, Places, Finish
<1>2. fate[m] = "taken" /\ fate \in [Messages -> Fate]
  BY <1>1 DEF IInv, EachOnce, TypeOK
<1>3. fate' = [fate EXCEPT ![m] = "handled"] /\ current' = <<>> /\ current # <<>>
  BY <1>1 DEF Finish
<1>4. Accepted' = Accepted
  BY <1>2, <1>3 DEF Accepted
<1>5. Phase' = Phase
  BY DEF Finish, Phase
<1> QED
  BY <1>3, <1>4, <1>5 DEF Finish, Accepted, Fifo!Finish

LEMMA LetGoImplements ==
  ASSUME IInv, NEW o \in Owner, LetGo(o), Phase' = Phase, UNCHANGED current,
         owners' = {} => Phase = "closed" /\ current = <<>>
  PROVE  Fifo!Drop \/ UNCHANGED Fifo!vars
<1>1. fate \in [Messages -> Fate]
  BY DEF IInv, TypeOK
<1>2. Accepted' = Accepted
  BY <1>1 DEF LetGo, Accepted
<1> QED
  BY <1>2 DEF LetGo, Accepted, Fifo!Drop, Fifo!vars

LEMMA UnblockImplements ==
  ASSUME IInv, Unblock
  PROVE  Fifo!Close
<1>1. UNCHANGED <<list, current, Accepted>>
  BY DEF Unblock, Accepted
<1>2. Phase = "open" /\ ~unblocked /\ unblocked'
  BY DEF IInv, Places, Unblock, Phase
<1>3. Phase' = IF reader' = "woken" THEN "closing" ELSE "closed"
  BY <1>2 DEF Phase
<1>4. reader' = "woken" => current = <<>>
  BY DEF IInv, Places, Unblock, WakeReader
<1> QED
  BY <1>1, <1>2, <1>3, <1>4 DEF Accepted, Fifo!Close

LEMMA StepImplements ==
  ASSUME IInv, [Next]_vars
  PROVE  [Fifo!Next]_Fifo!vars
<1>1. ASSUME NEW m \in Messages, SendMsg(m) PROVE [Fifo!Next]_Fifo!vars
  BY <1>1, SendMsgImplements DEF Fifo!Next
<1>2. CASE Receive
  <2>1. reader = "looping" /\ UNCHANGED unblocked
    BY <1>2 DEF Receive
  <2>2. CASE unblocked /\ GoTo("leaving")
    BY <2>1, <2>2, GoToImplements DEF Fifo!Next
  <2>3. CASE ~unblocked /\ GoTo("waiting")
    BY <2>1, <2>3, GoToImplements DEF Fifo!Next
  <2>4. CASE ~unblocked /\ Take
    BY <2>1, <2>4, TakeImplements DEF Fifo!Next
  <2> QED
    BY <1>2, <2>2, <2>3, <2>4 DEF Receive
<1>3. CASE Resume
  <2>1. reader = "woken" /\ UNCHANGED unblocked
    BY <1>3 DEF Resume
  <2>2. CASE unblocked /\ GoTo("leaving")
    BY <2>1, <2>2, GoToImplements DEF Fifo!Next
  <2>3. CASE ~unblocked /\ GoTo("waiting")
    BY <2>1, <2>3, GoToImplements DEF Fifo!Next
  <2>4. CASE Take
    BY <2>1, <2>4, TakeImplements DEF Fifo!Next
  <2> QED
    BY <1>3, <2>2, <2>3, <2>4 DEF Resume
<1>4. CASE Finish
  BY <1>4, FinishImplements DEF Fifo!Next
<1>5. CASE End
  <2>1. /\ LetGo("thread") /\ UNCHANGED <<unblocked, current>>
        /\ reader = "leaving" /\ reader' = "ended"
    BY <1>5 DEF End
  <2>2. Phase' = Phase /\ Phase = "closed" /\ current = <<>>
    BY <2>1 DEF IInv, Places, Phase
  <2> QED
    BY <2>1, <2>2, LetGoImplements DEF Owner, Fifo!Next
<1>6. CASE SpuriousWakeup
  <2>1. reader = "waiting" /\ ~unblocked /\ GoTo("woken") /\ UNCHANGED unblocked
    BY <1>6 DEF SpuriousWakeup, IInv, Places
  <2> QED
    BY <2>1, GoToImplements DEF Fifo!Next
<1>7. CASE Stop
  <2>1. UNCHANGED <<list, current, fate, unblocked, reader>>
    BY <1>7 DEF Stop
  <2> QED
    BY <2>1 DEF Phase, Fifo!vars
<1>8. CASE Unblock
  BY <1>8, UnblockImplements DEF Fifo!Next
<1>9. CASE Stopped
  <2>1. LetGo("stopper") /\ UNCHANGED <<unblocked, reader, current>> /\ stop = "interrupted"
    BY <1>9 DEF Stopped
  <2>2. Phase' = Phase
    BY <2>1 DEF Phase
  <2>3. ASSUME owners' = {} PROVE Phase = "closed" /\ current = <<>>
    <3>1. reader = "ended"
      BY <2>1, <2>3 DEF LetGo, IInv, Places
    <3> QED
      BY <3>1 DEF IInv, Places, Phase
  <2> QED
    BY <2>1, <2>2, <2>3, LetGoImplements DEF Owner, Fifo!Next
<1>10. CASE UNCHANGED vars
  BY <1>10 DEF vars, Phase, Fifo!vars
<1> QED
  BY <1>1, <1>2, <1>3, <1>4, <1>5, <1>6, <1>7, <1>8, <1>9, <1>10 DEF Next, ReaderStep

LEMMA InitImplements == Init => Fifo!Init
<1> SUFFICES ASSUME Init PROVE Fifo!Init
  OBVIOUS
<1>1. Accepted = {}
  BY DEF Init, Accepted
<1> QED
  BY <1>1 DEF Init, Accepted, Phase, Fifo!Init

(* The task is the first-in-first-out queue that every adapter relies on:  *)
(* each accepted message is begun at most once, in the order of            *)
(* acceptance, one at a time, and at most one after the task was ended.    *)
THEOREM TaskImplementsFifo == Spec => ImplementsFifo
<1>1. Init => Fifo!Init
  BY InitImplements
<1>2. IInv /\ [Next]_vars => [Fifo!Next]_Fifo!vars
  BY StepImplements
<1> QED
  BY <1>1, <1>2, IInvAlways, PTL DEF Spec, ImplementsFifo, Fifo!Spec

=============================================================================
