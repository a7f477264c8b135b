------------------------------ MODULE MsgFifo ------------------------------
(***************************************************************************)
(* What every component of the location stack takes for granted of the     *)
(* thread it runs on (gps/utils/MsgTask.h): messages are handled one at a  *)
(* time, each at most once, in the order they were accepted.  When the     *)
(* task is ended, at most one more is begun; the others are dropped.       *)
(***************************************************************************)
EXTENDS Sequences

CONSTANT Messages

VARIABLES
  waiting,    (* accepted messages, oldest first                           *)
  current,    (* the message being handled, in a sequence of at most one   *)
  accepted,   (* all messages ever accepted                                *)
  phase       (* closing: the task has ended but may begin one message     *)

vars == <<waiting, current, accepted, phase>>

Init ==
  /\ waiting = <<>>
  /\ current = <<>>
  /\ accepted = {}
  /\ phase = "open"

Accept(m) ==
  /\ phase = "open"
  /\ m \notin accepted
  /\ accepted' = accepted \union {m}
  /\ waiting' = Append(waiting, m)
  /\ UNCHANGED <<current, phase>>

Begin ==
  /\ phase # "closed"
  /\ current = <<>>
  /\ waiting # <<>>
  /\ current' = <<Head(waiting)>>
  /\ waiting' = Tail(waiting)
  /\ phase' = IF phase = "closing" THEN "closed" ELSE phase
  /\ UNCHANGED accepted

Finish ==
  /\ current # <<>>
  /\ current' = <<>>
  /\ UNCHANGED <<waiting, accepted, phase>>

Close ==
  /\ phase = "open"
  /\ phase' \in IF current = <<>> THEN {"closing", "closed"} ELSE {"closed"}
  /\ UNCHANGED <<waiting, current, accepted>>

(* Nothing was left to begin.                                              *)
GiveUp ==
  /\ phase = "closing"
  /\ phase' = "closed"
  /\ UNCHANGED <<waiting, current, accepted>>

Drop ==
  /\ phase = "closed"
  /\ current = <<>>
  /\ waiting' = <<>>
  /\ UNCHANGED <<current, accepted, phase>>

Next == (\E m \in Messages : Accept(m)) \/ Begin \/ Finish \/ Close \/ GiveUp \/ Drop

Spec == Init /\ [][Next]_vars

=============================================================================
