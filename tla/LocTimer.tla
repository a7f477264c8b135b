------------------------------ MODULE LocTimer ------------------------------
(***************************************************************************)
(* Timers (gps/utils/LocTimer.cpp).  Three kinds of thread meet here.      *)
(* Clients start and stop their LocTimer under its lock; a start makes a   *)
(* LocTimerDelegate, which pushes itself into the heap of the container by *)
(* a message.  The poll thread waits for the timerfd, disarms it, takes it *)
(* out of epoll and sends the container a message.  The task LocTimerMsg-  *)
(* Task handles these messages one at a time (module MsgTask): it keeps    *)
(* the heap, arms the timerfd for its top and calls expired clients back.  *)
(*                                                                         *)
(* Kept timers, such as the one of XtraSystemStatusObserver, live as long  *)
(* as the process.  The others are the LocTimerWrappers of loc_timer_start *)
(* and loc_timer_stop, which are deleted when they have fired or when they *)
(* are stopped.  All the timers of the program go into one container: none *)
(* wakes the processor.                                                    *)
(***************************************************************************)
EXTENDS LocHeap

CONSTANTS
  Kept,           (* LocTimers that are never deleted                      *)
  Wrappers,       (* LocTimers of the C interface                          *)
  Delays,         (* what timers are started with                          *)
  MaxStarts,      (* bounds the delegates ever made                        *)
  MaxTime         (* bounds the clock                                      *)

ASSUME TimerAssumption ==
  /\ Kept \cap Wrappers = {}
  /\ Delays \subseteq Nat \ {0}
  /\ MaxStarts \in Nat
  /\ MaxTime \in Nat

Timers    == Kept \cup Wrappers
Delegates == 1 .. MaxStarts
None      == "none"   (* no LocTimer *)
NoTimer   == 0        (* no delegate *)
Off       == MaxTime + 1

VARIABLES
  now,        (* CLOCK_BOOTTIME                                            *)
  live,       (* the LocTimers that exist                                  *)
  mTimer,     (* [Timers -> Delegates or NoTimer]                             *)
  born,       (* delegates 1 .. born have been made                        *)
  mClient,    (* [Delegates -> Timers or None]                             *)
  future,     (* [Delegates -> Nat], mFutureTime                           *)
  freed,      (* the delegates that have been deleted                      *)
  tree,       (* the container's heap                                      *)
  msgs,       (* LocTimerMsgTask's queue                                   *)
  task,       (* where LocTimerMsgTask is in the handling of a message     *)
  armed,      (* when the timerfd fires, or Off                            *)
  polled,     (* the timerfd is in the epoll set                           *)
  poller,     (* where the poll thread is                                  *)
  outcome     (* how each start ended                                      *)

vars == <<now, live, mTimer, born, mClient, future, freed, tree, msgs, task,
          armed, polled, poller, outcome>>

Message == [type : {"push", "remove"}, delegate : Delegates]
           \cup {[type |-> "expire"]}
Outcome == {"unborn", "running", "stopped", "fired"}

(* popped: expire() of a delegate begins.  stopping: it has read mClient.  *)
(* calling: the client's stop() returned true, having stopped `ended`.     *)
(* polling, arming: in updateSoonestTime.                                  *)
Task ==
  {[at |-> "idle"]}
    \cup [at : {"popped"}, delegate : Delegates, since : 0 .. MaxTime]
    \cup [at : {"stopping"}, client : Timers, since : 0 .. MaxTime]
    \cup [at : {"calling"}, client : Timers, ended : Delegates,
          since : 0 .. MaxTime]
    \cup [at : {"next"}, since : 0 .. MaxTime]
    \cup [at : {"arming"}, time : 0 .. MaxTime]
Idle == [at |-> "idle"]

Init ==
  /\ now = 0
  /\ live = Kept
  /\ mTimer = [o \in Timers |-> NoTimer]
  /\ born = 0
  /\ mClient = [d \in Delegates |-> None]
  /\ future = [d \in Delegates |-> 0]
  /\ freed = {}
  /\ tree = <<>>
  /\ msgs = <<>>
  /\ task = Idle
  /\ armed = Off
  /\ polled = FALSE
  /\ poller = "waiting"
  /\ outcome = [d \in Delegates |-> "unborn"]

-----------------------------------------------------------------------------
(* Clients.                                                                *)

(* LocTimerDelegate's constructor, under the lock: mTimer was NULL.        *)
Begin(o, delay) ==
  /\ born < MaxStarts
  /\ now + delay <= MaxTime
  /\ born' = born + 1
  /\ mTimer' = [mTimer EXCEPT ![o] = born']
  /\ mClient' = [mClient EXCEPT ![born'] = o]
  /\ future' = [future EXCEPT ![born'] = now + delay]
  /\ outcome' = [outcome EXCEPT ![born'] = "running"]
  /\ msgs' = Append(msgs, [type |-> "push", delegate |-> born'])

(* start: false, and nothing done, while the timer runs.                   *)
Start(o) ==
  /\ o \in live \cap Kept
  /\ mTimer[o] = NoTimer
  /\ \E delay \in Delays : Begin(o, delay)
  /\ UNCHANGED <<now, live, freed, tree, task, armed, polled, poller>>

(* loc_timer_start.                                                        *)
WrapperStart(o) ==
  /\ o \in Wrappers \ live
  /\ \E delay \in Delays : Begin(o, delay)
  /\ live' = live \cup {o}
  /\ UNCHANGED <<now, freed, tree, task, armed, polled, poller>>

(* destroyLocked: the delegate forgets its client and is to be removed.    *)
DestroyLocked(d) ==
  /\ mClient' = [mClient EXCEPT ![d] = None]
  /\ msgs' = Append(msgs, [type |-> "remove", delegate |-> d])

(* LocTimer::stop, where it returns true, on behalf of its owner or of     *)
(* expire().                                                               *)
StopRunning(o, result) ==
  /\ mTimer[o] # NoTimer
  /\ mTimer' = [mTimer EXCEPT ![o] = NoTimer]
  /\ DestroyLocked(mTimer[o])
  /\ outcome' = [outcome EXCEPT ![mTimer[o]] = result]

(* The owner stops its timer, from any thread.                             *)
Stop(o) ==
  /\ o \in live \cap Kept
  /\ StopRunning(o, "stopped")
  /\ UNCHANGED <<now, live, born, future, freed, tree, task, armed, polled,
                 poller>>

Handles(o) == task.at \in {"stopping", "calling"} /\ task.client = o

(* loc_timer_stop: destroy(), whose destructors stop the timer.  Nobody    *)
(* may stop a wrapper whose expiry is being handled: expire() would go on  *)
(* to use it after its deletion.                                           *)
WrapperStop(o) ==
  /\ o \in live \cap Wrappers
  /\ ~Handles(o)
  /\ live' = live \ {o}
  /\ \/ StopRunning(o, "stopped")
     \/ mTimer[o] = NoTimer /\ UNCHANGED <<mTimer, mClient, msgs, outcome>>
  /\ UNCHANGED <<now, born, future, freed, tree, task, armed, polled, poller>>

-----------------------------------------------------------------------------
(* The kernel and the poll thread.                                         *)

Tick ==
  /\ now < MaxTime
  /\ now' = now + 1
  /\ UNCHANGED <<live, mTimer, born, mClient, future, freed, tree, msgs, task,
                 armed, polled, poller, outcome>>

(* epoll_wait returns: the timerfd is in the set and has expired.          *)
Wake ==
  /\ poller = "waiting"
  /\ polled /\ armed <= now
  /\ poller' = "woken"
  /\ UNCHANGED <<now, live, mTimer, born, mClient, future, freed, tree, msgs,
                 task, armed, polled, outcome>>

(* LocTimerContainer::expire, on the poll thread, in three steps.          *)
Disarm ==
  /\ poller = "woken"
  /\ armed' = Off
  /\ poller' = "disarmed"
  /\ UNCHANGED <<now, live, mTimer, born, mClient, future, freed, tree, msgs,
                 task, polled, outcome>>

RemovePoll ==
  /\ poller = "disarmed"
  /\ polled' = FALSE
  /\ poller' = "unpolled"
  /\ UNCHANGED <<now, live, mTimer, born, mClient, future, freed, tree, msgs,
                 task, armed, outcome>>

SendExpire ==
  /\ poller = "unpolled"
  /\ msgs' = Append(msgs, [type |-> "expire"])
  /\ poller' = "waiting"
  /\ UNCHANGED <<now, live, mTimer, born, mClient, future, freed, tree, task,
                 armed, polled, outcome>>

-----------------------------------------------------------------------------
(* LocTimerMsgTask.                                                        *)

(* A bug to catch: a change of top is armed for only while the heap was    *)
(* empty.                                                                  *)
UpdateSoonestIfEmpty(prior, heap) ==
  IF heap # <<>> /\ prior = <<>>
  THEN polled' = TRUE /\ task' = [at |-> "arming", time |-> future[heap[1].data]]
  ELSE task' = Idle /\ UNCHANGED polled

(* updateSoonestTime: addPoll, which fails harmlessly on a polled fd; the  *)
(* timerfd is set in a step of its own.  Its branch for an empty heap is   *)
(* never reached: a push leaves a top, and every other caller passes NULL. *)
UpdateSoonestTime(prior, heap) ==
  IF heap # <<>> /\ \/ prior = <<>>
                    \/ /\ Peek(heap) # prior
                       /\ OutRanks(future, heap[1].data, prior[1])
  THEN polled' = TRUE /\ task' = [at |-> "arming", time |-> future[heap[1].data]]
  ELSE task' = Idle /\ UNCHANGED polled

(* timerfd_settime; a time in the past fires at once.                      *)
Arm ==
  /\ task.at = "arming"
  /\ armed' = task.time
  /\ task' = Idle
  /\ UNCHANGED <<now, live, mTimer, born, mClient, future, freed, tree, msgs,
                 polled, poller, outcome>>

Receives(type) ==
  /\ task = Idle
  /\ msgs # <<>>
  /\ msgs[1].type = type
  /\ msgs' = Tail(msgs)

MsgTimerPush ==
  /\ Receives("push")
  /\ tree' = Push(future, tree, msgs[1].delegate)
  /\ UpdateSoonestTime(Peek(tree), tree')
  /\ UNCHANGED <<now, live, mTimer, born, mClient, future, freed, armed,
                 poller, outcome>>

(* All timers are deleted here, popped before or not.                      *)
MsgTimerRemove ==
  /\ Receives("remove")
  /\ LET d == msgs[1].delegate IN
     /\ tree' = Remove(future, tree, d)
     /\ IF Peek(tree) = <<d>>
        THEN UpdateSoonestTime(<<>>, tree')
        ELSE task' = Idle /\ UNCHANGED polled
     /\ freed' = freed \cup {d}
  /\ UNCHANGED <<now, live, mTimer, born, mClient, future, armed, poller,
                 outcome>>

(* MsgTimerExpire reads the clock and pops the top, due or not.            *)
MsgTimerExpire ==
  /\ Receives("expire")
  /\ IF tree = <<>>
     THEN task' = Idle /\ UNCHANGED tree
     ELSE /\ task' = [at |-> "popped", delegate |-> tree[1].data, since |-> now]
          /\ tree' = Pop(future, tree)
  /\ UNCHANGED <<now, live, mTimer, born, mClient, future, freed, armed,
                 polled, poller, outcome>>

(* LocTimerDelegate::expire copies mClient, without the lock.              *)
ReadClient ==
  /\ task.at = "popped"
  /\ LET o == mClient[task.delegate] IN
     task' = IF o = None THEN [at |-> "next", since |-> task.since]
             ELSE [at |-> "stopping", client |-> o, since |-> task.since]
  /\ UNCHANGED <<now, live, mTimer, born, mClient, future, freed, tree, msgs,
                 armed, polled, poller, outcome>>

(* client->stop(), which ends whatever the timer runs now.                 *)
ExpireStops ==
  /\ task.at = "stopping"
  /\ \/ /\ StopRunning(task.client, "fired")
        /\ task' = [at |-> "calling", client |-> task.client,
                    ended |-> mTimer[task.client], since |-> task.since]
     \/ /\ mTimer[task.client] = NoTimer
        /\ task' = [at |-> "next", since |-> task.since]
        /\ UNCHANGED <<mTimer, mClient, msgs, outcome>>
  /\ UNCHANGED <<now, live, born, future, freed, tree, armed, polled, poller>>

(* timeOutCallback; a wrapper's ends with destroy(), and its destructor    *)
(* stops the timer if the callback or another thread has started it again. *)
TimeOutCallback ==
  /\ task.at = "calling"
  /\ task' = [at |-> "next", since |-> task.since]
  /\ live' = live \ ({task.client} \cap Wrappers)
  /\ UNCHANGED <<now, mTimer, born, mClient, future, freed, tree, msgs, armed,
                 polled, poller, outcome>>

(* popIfOutRanks: what was due when the handler read the clock; after the  *)
(* last of them the timerfd is armed anew.                                 *)
PopNext ==
  /\ task.at = "next"
  /\ IF tree # <<>> /\ future[tree[1].data] <= task.since
     THEN /\ task' = [at |-> "popped", delegate |-> tree[1].data,
                      since |-> task.since]
          /\ tree' = Pop(future, tree)
          /\ UNCHANGED polled
     ELSE UpdateSoonestTime(<<>>, tree) /\ UNCHANGED tree
  /\ UNCHANGED <<now, live, mTimer, born, mClient, future, freed, msgs, armed,
                 poller, outcome>>

-----------------------------------------------------------------------------
Clients ==
  \E o \in Timers : Start(o) \/ WrapperStart(o) \/ Stop(o) \/ WrapperStop(o)
PollThread == Wake \/ Disarm \/ RemovePoll \/ SendExpire
LocTimerMsgTask ==
  \/ Arm \/ MsgTimerPush \/ MsgTimerRemove \/ MsgTimerExpire
  \/ ReadClient \/ ExpireStops \/ TimeOutCallback \/ PopNext

(* Everything has been started that may be, and nothing is left to do.     *)
Done ==
  /\ now = MaxTime
  /\ task = Idle /\ msgs = <<>> /\ poller = "waiting"
  /\ UNCHANGED vars

Next == Clients \/ Tick \/ PollThread \/ LocTimerMsgTask \/ Done

(* The threads run, and time passes; no client has to do anything.         *)
Spec == /\ Init /\ [][Next]_vars
        /\ WF_vars(Tick) /\ WF_vars(PollThread) /\ WF_vars(LocTimerMsgTask)

-----------------------------------------------------------------------------
Pending(type, d) ==
  \E i \in DOMAIN msgs : msgs[i].type = type /\ msgs[i].delegate = d
InHand == IF task.at = "popped" THEN {task.delegate} ELSE {}

TypeOK ==
  /\ now \in 0 .. MaxTime
  /\ live \subseteq Timers
  /\ mTimer \in [Timers -> Delegates \cup {NoTimer}]
  /\ born \in 0 .. MaxStarts
  /\ mClient \in [Delegates -> Timers \cup {None}]
  /\ future \in [Delegates -> 0 .. MaxTime]
  /\ freed \subseteq Delegates
  /\ msgs \in Seq(Message)
  /\ task \in Task
  /\ armed \in 0 .. Off
  /\ polled \in BOOLEAN
  /\ poller \in {"waiting", "woken", "disarmed", "unpolled"}
  /\ outcome \in [Delegates -> Outcome]

(* The heap keeps its order and its sizes, and the task never reaches a    *)
(* deleted delegate, through the heap, a message or its own hands: whoever *)
(* deletes a delegate has taken it out, and each is removed by exactly one *)
(* message although its client's stop and its expiry race for it.          *)
DelegatesOutliveUse ==
  /\ TypeOK
  /\ CheckNodes(future, tree)
  /\ Members(tree) \cap freed = {}
  /\ InHand \cap freed = {}
  /\ \A d \in Delegates :
       /\ Pending("push", d) => d \notin freed \cup Members(tree)
       /\ Cardinality({i \in DOMAIN msgs : msgs[i].type = "remove"
                                            /\ msgs[i].delegate = d})
            = IF outcome[d] \in {"stopped", "fired"} /\ d \notin freed
              THEN 1 ELSE 0

(* A timer that runs is never forgotten: it is on its way into the heap or *)
(* in it or being expired, and while the heap holds any timer, either the  *)
(* timerfd is polled and fires no later than the soonest of them, or       *)
(* somebody is about to see to it: although the poll thread disarms and    *)
(* unpolls the descriptor without a lock while the task arms it.           *)
RunningIsAwaited ==
  /\ \A d \in Delegates : outcome[d] = "running" =>
       \/ Pending("push", d)
       \/ d \in Members(tree) \cup InHand
       \/ task.at = "stopping" /\ task.client = mClient[d]
  /\ tree # <<>> =>
       \/ polled /\ armed <= future[tree[1].data]
       \/ task.at # "idle"
       \/ poller # "waiting"
       \/ \E i \in DOMAIN msgs : msgs[i].type = "expire"

(* Whoever has stopped a timer is not called back for that start, however  *)
(* late the stop comes.                                                    *)
StoppedIsSilent ==
  task.at = "calling" => outcome[task.ended] = "fired"

(* A timer that was started fires unless it is stopped, on the way there   *)
(* somebody always sees to it, and a stopped one never fires.              *)
FiresUnlessStopped ==
  /\ [](StoppedIsSilent /\ RunningIsAwaited)
  /\ \A d \in Delegates : outcome[d] = "running" ~> outcome[d] # "running"

(* Out of the heap comes the soonest timer first, for every order of       *)
(* timers with equal and different times, and after every removal.         *)
HeapSorts ==
  born = 0 /\ now = 0 =>
    \A n \in 1 .. 5 : \A time \in [1 .. n -> 1 .. 3] : IsPriorityQueue(time)
=============================================================================
