----------------------------- MODULE WorkQueue -----------------------------
(***************************************************************************)
(* Class WorkQueue of src/src/msg_rate.cpp: the queue of I/O requests that *)
(* the producer thread fills (push_work) and the handler thread empties    *)
(* (wait_and_pop), guarded by work_mutex, with the condition variable      *)
(* work_available.  runMessageRateBenchmark starts one thread of each      *)
(* kind, so the model has one of each.                                     *)
(*                                                                         *)
(* Each action is the code between two points where another thread can     *)
(* interfere or is kept out only by the mutex.  getTime() is a clock of    *)
(* SECOND ticks per second; a timer stops counting where the code's        *)
(* comparison no longer tells its values apart.                            *)
(***************************************************************************)
EXTENDS Integers, Sequences

CONSTANTS Request,   \* the requests push_work is called with
          Sentinel,  \* the request with offset -1 that wait_and_pop makes up
          SECOND,    \* clock ticks per second
          MaxWork    \* bound of the model: the most requests queued at once

ASSUME SentinelAssumption == Sentinel \notin Request
ASSUME SecondAssumption == SECOND \in Nat \ {0}
ASSUME MaxWorkAssumption == MaxWork \in Nat \ {0}

VARIABLES work,        \* the queue
          work_mutex,  \* the thread that holds the mutex, or "none"
          io_request,  \* push_work's parameter
          was_empty,   \* push_work's local variable
          push,        \* where the producer is in push_work
          pop,         \* where the handler is in wait_and_pop
          notified,    \* a notify_one has reached the waiting handler
          popped,      \* what the last wait_and_pop returned
          waited,      \* getTime() - start in wait_and_pop
          blocked      \* time since wait_for was entered

pushVars == <<io_request, was_empty, push>>
popVars == <<pop, popped>>
timers == <<waited, blocked>>
vars == <<work, work_mutex, pushVars, popVars, notified, timers>>

Init ==
  /\ work = <<>>
  /\ work_mutex = "none"
  /\ io_request = Sentinel
  /\ was_empty = FALSE
  /\ push = "idle"
  /\ pop = "idle"
  /\ notified = FALSE
  /\ popped = Sentinel
  /\ waited = 0
  /\ blocked = 0

-----------------------------------------------------------------------------
(* push_work *)

(* Mutant: the request is not copied into the parameter. *)
PushLockNoCopy(r) ==
  /\ push = "idle"
  /\ Len(work) < MaxWork
  /\ work_mutex = "none"
  /\ work_mutex' = "producer"
  /\ push' = "locked"
  /\ UNCHANGED <<work, io_request, was_empty, popVars, notified, timers>>

PushLock(r) ==
  /\ push = "idle"
  /\ Len(work) < MaxWork
  /\ work_mutex = "none"
  /\ work_mutex' = "producer"
  /\ io_request' = r
  /\ push' = "locked"
  /\ UNCHANGED <<work, was_empty, popVars, notified, timers>>

(* Mutant: the edge that is notified is the wrong one. *)
PushTestInverted ==
  /\ push = "locked"
  /\ was_empty' = (work # <<>>)
  /\ push' = "tested"
  /\ UNCHANGED <<work, work_mutex, io_request, popVars, notified, timers>>

PushTest ==
  /\ push = "locked"
  /\ was_empty' = (work = <<>>)
  /\ push' = "tested"
  /\ UNCHANGED <<work, work_mutex, io_request, popVars, notified, timers>>

(* Mutant: the test comes after the push. *)
PushAppendThenTest ==
  /\ push = "tested"
  /\ work' = Append(work, io_request)
  /\ was_empty' = (work' = <<>>)
  /\ work_mutex' = "none"
  /\ push' = "unlocked"
  /\ UNCHANGED <<io_request, popVars, notified, timers>>

(* work.push and lock.unlock *)
PushAppend ==
  /\ push = "tested"
  /\ work' = Append(work, io_request)
  /\ work_mutex' = "none"
  /\ push' = "unlocked"
  /\ UNCHANGED <<io_request, was_empty, popVars, notified, timers>>

(* The mutex is free by now: a notification that finds no waiter is lost. *)
PushNotify ==
  /\ push = "unlocked"
  /\ notified' = (notified \/ (was_empty /\ pop = "waiting"))
  /\ push' = "idle"
  /\ UNCHANGED <<work, work_mutex, io_request, was_empty, popVars, timers>>

-----------------------------------------------------------------------------
(* wait_and_pop *)

PopLock ==
  /\ pop = "idle"
  /\ work_mutex = "none"
  /\ work_mutex' = "handler"
  /\ waited' = 0
  /\ pop' = "check"
  /\ UNCHANGED <<work, pushVars, popped, notified, blocked>>

(* work.empty() is false: front, pop and return, which unlocks. *)
PopTake ==
  /\ pop = "check"
  /\ work # <<>>
  /\ popped' = Head(work)
  /\ work' = Tail(work)
  /\ work_mutex' = "none"
  /\ pop' = "idle"
  /\ UNCHANGED <<pushVars, notified, timers>>

PopFindEmpty ==
  /\ pop = "check"
  /\ work = <<>>
  /\ pop' = "empty"
  /\ UNCHANGED <<work, work_mutex, pushVars, popped, notified, timers>>

(* Mutant: the time is looked at before the queue is. *)
PopGiveUpUntested ==
  /\ pop \in {"check", "empty"}
  /\ waited > SECOND
  /\ popped' = Sentinel
  /\ work_mutex' = "none"
  /\ pop' = "idle"
  /\ UNCHANGED <<work, pushVars, notified, timers>>

(* Inside the loop, the mutex still held: the one second is over. *)
PopGiveUp ==
  /\ pop = "empty"
  /\ waited > SECOND
  /\ popped' = Sentinel
  /\ work_mutex' = "none"
  /\ pop' = "idle"
  /\ UNCHANGED <<work, pushVars, notified, timers>>

(* wait_for releases the mutex and starts to wait in one step. *)
PopWait ==
  /\ pop = "empty"
  /\ waited <= SECOND
  /\ notified' = FALSE
  /\ blocked' = 0
  /\ work_mutex' = "none"
  /\ pop' = "waiting"
  /\ UNCHANGED <<work, pushVars, popped, waited>>

Wake ==
  /\ pop = "waiting"
  /\ pop' = "woken"
  /\ UNCHANGED <<work, work_mutex, pushVars, popped, notified, timers>>

PopNotified == notified /\ Wake

PopWaitExpires == blocked >= SECOND /\ Wake

PopWakesSpuriously == Wake

(* Mutant: it returns without the mutex. *)
PopRelockNot ==
  /\ pop = "woken"
  /\ pop' = "check"
  /\ UNCHANGED <<work, work_mutex, pushVars, popped, notified, timers>>

(* wait_for returns with the mutex held again. *)
PopRelock ==
  /\ pop = "woken"
  /\ work_mutex = "none"
  /\ work_mutex' = "handler"
  /\ pop' = "check"
  /\ UNCHANGED <<work, pushVars, popped, notified, timers>>

-----------------------------------------------------------------------------
Upto(t, limit) == IF t < limit THEN t + 1 ELSE t

(* A clock tick, for the two timers of wait_and_pop. *)
TickTimers ==
  /\ waited' = IF pop = "idle" THEN waited ELSE Upto(waited, SECOND + 1)
  /\ blocked' = IF pop = "waiting" THEN Upto(blocked, SECOND) ELSE blocked

Tick ==
  /\ TickTimers
  /\ timers' # timers
  /\ UNCHANGED <<work, work_mutex, pushVars, popVars, notified>>

(* What each thread does once it is inside its call. *)
PushStep == PushTest \/ PushAppend \/ PushNotify

PopReturns == PopTake \/ PopGiveUp

PopInside == PopFindEmpty \/ PopWait \/ PopNotified \/ PopWaitExpires \/ PopRelock

Next ==
  \/ \E r \in Request : PushLock(r)
  \/ PushStep
  \/ PopLock
  \/ PopReturns
  \/ PopInside
  \/ PopWakesSpuriously
  \/ Tick

(* The scheduler runs a thread that can run.  There is no fairness on the  *)
(* clock nor on an expired wait: what holds, holds by notification alone.  *)
Fairness == WF_vars(PushStep) /\ WF_vars(PopNotified)

Spec == Init /\ [][Next]_vars

FairSpec == Spec /\ Fairness

-----------------------------------------------------------------------------
TypeOK ==
  /\ work \in Seq(Request)
  /\ work_mutex \in {"none", "producer", "handler"}
  /\ io_request \in Request \cup {Sentinel}
  /\ was_empty \in BOOLEAN
  /\ push \in {"idle", "locked", "tested", "unlocked"}
  /\ pop \in {"idle", "check", "empty", "waiting", "woken"}
  /\ notified \in BOOLEAN
  /\ popped \in Request \cup {Sentinel}
  /\ waited \in 0..(SECOND + 1)
  /\ blocked \in 0..SECOND
  /\ push # "idle" => io_request \in Request

(* The mutex keeps the two threads apart: each of them is between its lock *)
(* and its unlock (or the release inside wait_for) only while it is owner. *)
OwnerInside ==
  /\ work_mutex = "producer" <=> push \in {"locked", "tested"}
  /\ work_mutex = "handler" <=> pop \in {"check", "empty"}

(* What a thread read under the mutex is still so when it acts on it: the  *)
(* producer's was_empty at its push, the handler's work.empty() when it    *)
(* goes to sleep or gives up.                                              *)
TestsStillHold ==
  /\ push = "tested" => was_empty = (work = <<>>)
  /\ pop = "empty" => work = <<>>

(* push_work notifies only on the empty-to-non-empty edge, and after the   *)
(* unlock.  Even so the handler is never left asleep beside a request:     *)
(* either its wake-up has arrived or the producer is about to send it.     *)
NoLostWakeup ==
  pop = "waiting" /\ work # <<>> => notified \/ (push = "unlocked" /\ was_empty)

(* A handler asleep beside a request is woken by work_available and does   *)
(* not depend on the one-second limit of wait_for.                         *)
WokenByNotification == (pop = "waiting" /\ work # <<>>) ~> pop # "waiting"

(* wait_and_pop and push_work, with all their locking, waiting and timing  *)
(* out, behave as the FIFO of module FifoQueue: nothing is lost, repeated  *)
(* or overtaken, and a request that arrives while the handler's second     *)
(* runs out is handed over instead of the sentinel.                        *)
Fifo == INSTANCE FifoQueue WITH queue <- work, answer <- popped
ImplementsFifo == Fifo!Spec
=============================================================================
