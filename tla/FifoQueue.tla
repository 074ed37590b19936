----------------------------- MODULE FifoQueue -----------------------------
(***************************************************************************)
(* What class WorkQueue (src/src/msg_rate.cpp) promises its two callers,   *)
(* without its mutex, condition variable and clock: every request pushed   *)
(* is handed out once, oldest first, and the "nothing to do" answer        *)
(* (Sentinel) is given only when no request is queued.                     *)
(***************************************************************************)
EXTENDS Sequences

CONSTANTS Request,  \* what can be pushed
          Sentinel  \* the answer of a pop that gave up

VARIABLES queue,    \* the requests pushed and not yet handed out
          answer    \* what the last pop returned

Init ==
  /\ queue = <<>>
  /\ answer = Sentinel

Push(r) ==
  /\ queue' = Append(queue, r)
  /\ UNCHANGED answer

Pop ==
  /\ queue # <<>>
  /\ answer' = Head(queue)
  /\ queue' = Tail(queue)

GiveUp ==
  /\ queue = <<>>
  /\ answer' = Sentinel
  /\ UNCHANGED queue

Next == (\E r \in Request : Push(r)) \/ Pop \/ GiveUp

Spec == Init /\ [][Next]_<<queue, answer>>
=============================================================================
