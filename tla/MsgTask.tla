------------------------------ MODULE MsgTask ------------------------------
(***************************************************************************)
(* A MsgTask (gps/utils/MsgTask.cpp): a message queue with a mutex and a   *)
(* condition (msg_q.c over linked_list.c), the detached thread that reads  *)
(* it, and the end of both (LocThread.cpp).  A critical section of the     *)
(* mutex is one step; pthread_cond_wait ends one and, woken, begins        *)
(* another.                                                                *)
(*                                                                         *)
(* The MTRunnable, and with it the queue, is shared by the thread and by   *)
(* whoever ends the task, who holds it while it interrupts the thread; the *)
(* last one to let go of it flushes the queue and frees it.  A task may be *)
(* ended from outside, or by one of its own messages, as LocApiBase's      *)
(* LocKillMsg does.                                                        *)
(***************************************************************************)
EXTENDS Sequences, FiniteSets

CONSTANTS
  Messages,   (* every message is one object, sent once                    *)
  Kills       (* the messages whose handling ends the task                 *)

ASSUME KillsAssumption == Kills \subseteq Messages

VARIABLES
  list,       (* msg_list, oldest message first                            *)
  unblocked,  (* the queue's flag                                          *)
  reader,     (* where the thread is                                       *)
  current,    (* the message being handled, in a sequence of at most one   *)
  stop,       (* how far ~LocThreadDelegate is                             *)
  owners,     (* who holds the MTRunnable                                  *)
  fate        (* [Messages -> Fate]                                        *)

vars == <<list, unblocked, reader, current, stop, owners, fate>>

(* looping: outside the queue.  waiting: in pthread_cond_wait.  woken: up  *)
(* again, but without the mutex yet.  leaving: run() has returned false.   *)
ReaderState == {"looping", "waiting", "woken", "handling", "leaving", "ended"}
StopState   == {"none", "interrupting", "interrupted", "done"}
Owner       == {"thread", "stopper"}
Fate        == {"new", "queued", "taken", "handled", "refused", "dropped"}

Init ==
  /\ list = <<>>
  /\ unblocked = FALSE
  /\ reader = "looping"
  /\ current = <<>>
  /\ stop = "none"
  /\ owners = {"thread"}
  /\ fate = [m \in Messages |-> "new"]

-----------------------------------------------------------------------------
(* Senders: any thread, the task's own too.  They may still be inside      *)
(* sendMsg while the task is ended, but not after that: that is their      *)
(* owners' duty.                                                           *)

WakeReader == reader' = IF reader = "waiting" THEN "woken" ELSE reader

(* A bug to catch: the reader is not woken.                                *)
AcceptUnsignalled(m) ==
  /\ ~unblocked
  /\ list' = Append(list, m)
  /\ fate' = [fate EXCEPT ![m] = "queued"]
  /\ UNCHANGED reader

Accept(m) ==
  /\ ~unblocked
  /\ list' = Append(list, m)
  /\ fate' = [fate EXCEPT ![m] = "queued"]
  /\ WakeReader

(* msg_q_snd's error goes unnoticed: the message is neither handled nor    *)
(* deleted.                                                                *)
Refuse(m) ==
  /\ unblocked
  /\ fate' = [fate EXCEPT ![m] = "refused"]
  /\ UNCHANGED <<list, reader>>

KillsSent == {m \in Kills : fate[m] # "new"}

SendMsg(m) ==
  /\ stop # "done"
  /\ fate[m] = "new"
  /\ m \in Kills => stop = "none" /\ KillsSent = {}
  /\ Accept(m) \/ Refuse(m)
  /\ UNCHANGED <<unblocked, current, stop, owners>>

-----------------------------------------------------------------------------
(* The thread.                                                             *)

(* Two bugs to catch: the wrong end of the list, and the list's element    *)
(* instead of its data.                                                    *)
Newest(l)  == l[Len(l)]

(* linked_list_remove takes the tail; messages are added at the head.      *)
Oldest(l) == Head(l)

(* A bug to catch: the message stays in the list.                          *)
TakeACopy ==
  /\ list # <<>>
  /\ current' = <<Oldest(list)>>
  /\ fate' = [fate EXCEPT ![Oldest(list)] = "taken"]
  /\ reader' = "handling"
  /\ UNCHANGED list

Take ==
  /\ list # <<>>
  /\ current' = <<Oldest(list)>>
  /\ list' = Tail(list)
  /\ fate' = [fate EXCEPT ![Oldest(list)] = "taken"]
  /\ reader' = "handling"

GoTo(s) == reader' = s /\ UNCHANGED <<list, current, fate>>

(* msg_q_rcv, up to pthread_cond_wait.                                     *)
Receive ==
  /\ reader = "looping"
  /\ \/ unblocked /\ GoTo("leaving")
     \/ ~unblocked /\ list = <<>> /\ GoTo("waiting")
     \/ ~unblocked /\ Take
  /\ UNCHANGED <<unblocked, stop, owners>>

(* The rest of it: here a message is taken from an unblocked queue too.    *)
Resume ==
  /\ reader = "woken"
  /\ \/ list = <<>> /\ unblocked /\ GoTo("leaving")
     \/ list = <<>> /\ ~unblocked /\ GoTo("waiting")
     \/ Take
  /\ UNCHANGED <<unblocked, stop, owners>>

(* proc() returns, and the message is deleted.  One that ends the task     *)
(* returns when that is done.                                              *)
Finish ==
  /\ reader = "handling"
  /\ current[1] \in Kills => stop = "done"
  /\ fate' = [fate EXCEPT ![current[1]] = "handled"]
  /\ current' = <<>>
  /\ reader' = "looping"
  /\ UNCHANGED <<list, unblocked, stop, owners>>

(* shared_ptr: the last owner destroys the MTRunnable, which flushes and   *)
(* frees the queue.                                                        *)
LetGo(o) ==
  /\ owners' = owners \ {o}
  /\ IF owners' = {}
     THEN /\ list' = <<>>
          /\ fate' = [m \in Messages |-> IF fate[m] = "queued" THEN "dropped" ELSE fate[m]]
     ELSE UNCHANGED <<list, fate>>

End ==
  /\ reader = "leaving"
  /\ reader' = "ended"
  /\ LetGo("thread")
  /\ UNCHANGED <<unblocked, current, stop>>

ReaderStep == Receive \/ Resume \/ Finish \/ End

SpuriousWakeup ==
  /\ reader = "waiting"
  /\ GoTo("woken")
  /\ UNCHANGED <<unblocked, stop, owners>>

-----------------------------------------------------------------------------
(* The end of the task: ~MsgTask, LocThread::stop, ~LocThreadDelegate.     *)

KillUnderWay == reader = "handling" /\ current[1] \in Kills

(* A bug to catch: the thread is interrupted through a plain pointer.      *)
StopUnshared ==
  /\ stop = "none"
  /\ KillsSent = {} \/ KillUnderWay
  /\ stop' = "interrupting"
  /\ UNCHANGED <<list, unblocked, reader, current, owners, fate>>

(* mRunnable.lock(), which fails where nobody holds the MTRunnable.  The   *)
(* task is ended once: from outside, or by the message sent for that.      *)
Stop ==
  /\ stop = "none"
  /\ owners # {}
  /\ KillsSent = {} \/ KillUnderWay
  /\ stop' = "interrupting"
  /\ owners' = owners \union {"stopper"}
  /\ UNCHANGED <<list, unblocked, reader, current, fate>>

(* msg_q_unblock                                                           *)
Unblock ==
  /\ stop = "interrupting"
  /\ stop' = "interrupted"
  /\ unblocked' = TRUE
  /\ WakeReader
  /\ UNCHANGED <<list, current, owners, fate>>

Stopped ==
  /\ stop = "interrupted"
  /\ stop' = "done"
  /\ LetGo("stopper")
  /\ UNCHANGED <<unblocked, reader, current>>

Next ==
  \/ \E m \in Messages : SendMsg(m)
  \/ ReaderStep
  \/ SpuriousWakeup
  \/ Stop \/ Unblock \/ Stopped

Spec == Init /\ [][Next]_vars

(* The thread and whoever ends the task go on; proc() returns.  Nobody has *)
(* to send, nor to end the task from outside.                              *)
FairSpec ==
  /\ Spec
  /\ WF_vars(ReaderStep)
  /\ WF_vars(KillUnderWay /\ Stop)
  /\ WF_vars(Unblock \/ Stopped)

-----------------------------------------------------------------------------
TypeOK ==
  /\ list \in Seq(Messages)
  /\ unblocked \in BOOLEAN
  /\ reader \in ReaderState
  /\ current \in Seq(Messages)
  /\ stop \in StopState
  /\ owners \subseteq Owner
  /\ fate \in [Messages -> Fate]

(* A message that was accepted is in exactly one place: once in the list,  *)
(* or being handled, or deleted; so it is handled at most once and deleted *)
(* once.                                                                   *)
EachOnce ==
  /\ \A i, j \in DOMAIN list : list[i] = list[j] => i = j
  /\ \A m \in Messages :
       /\ fate[m] = "queued" <=> \E i \in DOMAIN list : list[i] = m
       /\ fate[m] = "taken" <=> current = <<m>>

(* The queue is freed only when the thread has left it and the one who     *)
(* ends the task is done with it, whichever of them is the last.           *)
QueueOutlivesUse == owners = {} => reader = "ended" /\ stop = "done"

(* Every message accepted is handled, or dropped where the task is ended.  *)
MessagesEnd ==
  \A m \in Messages : fate[m] = "queued" ~> fate[m] \in {"handled", "dropped"}

(* "All waiters will wake up" (msg_q.h): once its end has begun, the       *)
(* thread ends and the queue is freed, if a message of its own ends it too.*)
StopCompletes == stop # "none" ~> owners = {}

(* Neither a message nor the end of the task waits for ever.               *)
NoWakeUpIsLost == MessagesEnd /\ StopCompletes

(* The task is a MsgFifo, with the message of a woken thread to come.      *)
Phase == IF ~unblocked THEN "open" ELSE IF reader = "woken" THEN "closing" ELSE "closed"

Fifo == INSTANCE MsgFifo WITH
  waiting  <- list,
  accepted <- {m \in Messages : fate[m] \notin {"new", "refused"}},
  phase    <- Phase

(* Messages are handled one by one in the order they were accepted, and at *)
(* most one is begun after msg_q_unblock (MTRunnable::run, msg_q_rcv).     *)
ImplementsFifo == Fifo!Spec

=============================================================================
