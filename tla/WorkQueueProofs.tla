-------------------------- MODULE WorkQueueProofs --------------------------
(***************************************************************************)
(* Theorems about class WorkQueue, for every set of requests, every clock  *)
(* resolution and every bound on the queue.  The inductive invariant is    *)
(* Inv: OwnerInside says who is inside a critical section, TestsStillHold  *)
(* what that protects, and NoLostWakeup needs the latter because going to  *)
(* sleep acts on an emptiness test made earlier.                           *)
(***************************************************************************)
EXTENDS WorkQueue, SequenceTheorems, TLAPS

Inv == TypeOK /\ OwnerInside /\ TestsStillHold /\ NoLostWakeup

-----------------------------------------------------------------------------
(* A timer that is advanced up to a limit stays within it. *)
LEMMA UptoType ==
  ASSUME NEW limit \in Nat, NEW t \in 0..limit
  PROVE  Upto(t, limit) \in 0..limit
BY DEF Upto

(* Every variable keeps its type: the queue holds requests only, and the   *)
(* timers stay in the range in which the code can tell their values apart. *)
THEOREM TypeCorrect == Spec => []TypeOK
<1>. DEFINE InRange(w, b) == w \in 0..(SECOND + 1) /\ b \in 0..SECOND
<1>0. /\ InRange(0, 0)
      /\ \A w, b : InRange(w, b) => InRange(w, 0)
  BY SecondAssumption
<1>1. Init => TypeOK
  BY <1>0, EmptySeq DEF Init, TypeOK
<1>2. TypeOK /\ [Next]_vars => TypeOK'
  <2> SUFFICES ASSUME TypeOK, [Next]_vars
               PROVE  TypeOK'
    OBVIOUS
  <2> USE SecondAssumption DEF TypeOK, pushVars, popVars, timers
  <2>1. ASSUME NEW r \in Request, PushLock(r)
        PROVE  TypeOK'
    BY <2>1 DEF PushLock
  <2>2. CASE PushTest
    BY <2>2 DEF PushTest
  <2>3. CASE PushAppend
    <3>1. work' \in Seq(Request)
      BY <2>3, AppendProperties DEF PushAppend
    <3> QED
      BY <2>3, <3>1 DEF PushAppend
  <2>4. CASE PushNotify
    BY <2>4 DEF PushNotify
  <2>5. CASE PopLock
    BY <2>5 DEF PopLock
  <2>6. CASE PopTake
    <3>1. Head(work) \in Request /\ Tail(work) \in Seq(Request)
      BY <2>6, HeadTailProperties DEF PopTake
    <3> QED
      BY <2>6, <3>1 DEF PopTake
  <2>7. CASE PopGiveUp
    BY <2>7 DEF PopGiveUp
  <2>8. CASE PopFindEmpty
    BY <2>8 DEF PopFindEmpty
  <2>9. CASE PopWait
    BY <2>9, <1>0 DEF PopWait
  <2>10. CASE Wake
    BY <2>10 DEF Wake
  <2>11. CASE PopRelock
    BY <2>11 DEF PopRelock
  <2>12. CASE Tick
    <3>1. SECOND \in Nat /\ SECOND + 1 \in Nat
      OBVIOUS
    <3>2. waited' \in 0..(SECOND + 1)
      BY <2>12, <3>1, UptoType DEF Tick, TickTimers
    <3>3. blocked' \in 0..SECOND
      BY <2>12, <3>1, UptoType DEF Tick, TickTimers
    <3> QED
      BY <2>12, <3>2, <3>3 DEF Tick
  <2>13. CASE UNCHANGED vars
    BY <2>13 DEF vars
  <2> QED
    BY <2>1, <2>2, <2>3, <2>4, <2>5, <2>6, <2>7, <2>8, <2>9, <2>10, <2>11,
       <2>12, <2>13
       DEF Next, PushStep, PopReturns, PopInside, PopNotified, PopWaitExpires,
           PopWakesSpuriously
<1> QED
  BY <1>1, <1>2, PTL DEF Spec

-----------------------------------------------------------------------------
(* The mutex is held by the thread that is in its critical section and by  *)
(* no other, whatever the interleaving.                                    *)
THEOREM MutualExclusion == Spec => []OwnerInside
<1>1. Init => OwnerInside
  BY DEF Init, OwnerInside
<1>2. TypeOK /\ OwnerInside /\ [Next]_vars => OwnerInside'
  <2> SUFFICES ASSUME TypeOK, OwnerInside, [Next]_vars
               PROVE  OwnerInside'
    OBVIOUS
  <2> USE DEF TypeOK, OwnerInside, pushVars, popVars, timers
  <2>1. ASSUME NEW r \in Request, PushLock(r)
        PROVE  OwnerInside'
    BY <2>1 DEF PushLock
  <2>2. CASE PushStep
    BY <2>2 DEF PushStep, PushTest, PushAppend, PushNotify
  <2>3. CASE PopLock \/ PopReturns
    BY <2>3 DEF PopLock, PopReturns, PopTake, PopGiveUp
  <2>4. CASE PopFindEmpty \/ PopWait \/ Wake \/ PopRelock
    BY <2>4 DEF PopFindEmpty, PopWait, Wake, PopRelock
  <2>5. CASE Tick
    BY <2>5 DEF Tick
  <2>6. CASE UNCHANGED vars
    BY <2>6 DEF vars
  <2> QED
    BY <2>1, <2>2, <2>3, <2>4, <2>5, <2>6
       DEF Next, PopInside, PopNotified, PopWaitExpires, PopWakesSpuriously
<1> QED
  BY <1>1, <1>2, TypeCorrect, PTL DEF Spec

(* What was tested under the mutex is still so when it is acted upon.      *)
THEOREM TestsStable == Spec => []TestsStillHold
<1>1. Init => TestsStillHold
  BY DEF Init, TestsStillHold
<1>2. TypeOK /\ OwnerInside /\ TestsStillHold /\ [Next]_vars => TestsStillHold'
  <2> SUFFICES ASSUME TypeOK, OwnerInside, TestsStillHold, [Next]_vars
               PROVE  TestsStillHold'
    OBVIOUS
  <2> USE DEF OwnerInside, TestsStillHold, pushVars, popVars, timers
  <2>1. ASSUME NEW r \in Request, PushLock(r)
        PROVE  TestsStillHold'
    BY <2>1 DEF PushLock
  <2>2. CASE PushTest \/ PushNotify
    BY <2>2 DEF PushTest, PushNotify
  <2>3. CASE PushAppend
    (* The producer owns the mutex, so the handler is not past its test.   *)
    <3>1. pop # "empty"
      BY <2>3 DEF PushAppend
    <3> QED
      BY <2>3, <3>1 DEF PushAppend
  <2>4. CASE PopTake
    (* The handler owns the mutex, so the producer is not past its test.   *)
    <3>1. push # "tested"
      BY <2>4 DEF PopTake
    <3> QED
      BY <2>4, <3>1 DEF PopTake
  <2>5. CASE PopLock \/ PopGiveUp
    BY <2>5 DEF PopLock, PopGiveUp
  <2>6. CASE PopFindEmpty \/ PopWait \/ Wake \/ PopRelock
    BY <2>6 DEF PopFindEmpty, PopWait, Wake, PopRelock
  <2>7. CASE Tick
    BY <2>7 DEF Tick
  <2>8. CASE UNCHANGED vars
    BY <2>8 DEF vars
  <2> QED
    BY <2>1, <2>2, <2>3, <2>4, <2>5, <2>6, <2>7, <2>8
       DEF Next, PushStep, PopReturns, PopInside, PopNotified, PopWaitExpires,
           PopWakesSpuriously
<1> QED
  BY <1>1, <1>2, TypeCorrect, MutualExclusion, PTL DEF Spec

-----------------------------------------------------------------------------
(* A handler asleep beside a request has its wake-up delivered or pending. *)
THEOREM WakeupNeverLost == Spec => []NoLostWakeup
<1>1. Init => NoLostWakeup
  BY DEF Init, NoLostWakeup
<1>2. TypeOK /\ TestsStillHold /\ NoLostWakeup /\ [Next]_vars => NoLostWakeup'
  <2> SUFFICES ASSUME TypeOK, TestsStillHold, NoLostWakeup, [Next]_vars
               PROVE  NoLostWakeup'
    OBVIOUS
  <2> USE DEF TypeOK, TestsStillHold, NoLostWakeup, pushVars, popVars, timers
  <2>1. ASSUME NEW r \in Request, PushLock(r)
        PROVE  NoLostWakeup'
    BY <2>1 DEF PushLock
  <2>2. CASE PushTest
    BY <2>2 DEF PushTest
  <2>3. CASE PushAppend
    (* Either the queue was empty, and the notification is due now, or     *)
    (* it was not, and the wake-up had arrived before.                     *)
    <3>1. CASE work = <<>>
      BY <2>3, <3>1 DEF PushAppend
    <3>2. CASE work # <<>>
      BY <2>3, <3>2 DEF PushAppend
    <3> QED
      BY <3>1, <3>2
  <2>4. CASE PushNotify
    BY <2>4 DEF PushNotify
  <2>5. CASE PopLock \/ PopReturns
    BY <2>5 DEF PopLock, PopReturns, PopTake, PopGiveUp
  <2>6. CASE PopWait
    BY <2>6 DEF PopWait
  <2>7. CASE PopFindEmpty \/ Wake \/ PopRelock
    BY <2>7 DEF PopFindEmpty, Wake, PopRelock
  <2>8. CASE Tick
    BY <2>8 DEF Tick
  <2>9. CASE UNCHANGED vars
    BY <2>9 DEF vars
  <2> QED
    BY <2>1, <2>2, <2>3, <2>4, <2>5, <2>6, <2>7, <2>8, <2>9
       DEF Next, PushStep, PopReturns, PopInside, PopNotified, PopWaitExpires,
           PopWakesSpuriously
<1> QED
  BY <1>1, <1>2, TypeCorrect, TestsStable, PTL DEF Spec

(* The whole inductive invariant, as the other modules cite it.            *)
THEOREM Invariance == Spec => []Inv
BY TypeCorrect, MutualExclusion, TestsStable, WakeupNeverLost, PTL DEF Inv

-----------------------------------------------------------------------------
(* Every step of the locked, waiting, timing-out queue is a push, a pop, a *)
(* refusal on an empty queue, or invisible: WorkQueue is a FIFO.           *)
THEOREM RefinesFifo == Spec => ImplementsFifo
<1>1. Init => Fifo!Init
  BY DEF Init, Fifo!Init
<1>2. TypeOK /\ TestsStillHold /\ [Next]_vars => [Fifo!Next]_<<work, popped>>
  <2> SUFFICES ASSUME TypeOK, TestsStillHold, [Next]_vars
               PROVE  [Fifo!Next]_<<work, popped>>
    OBVIOUS
  <2> USE DEF pushVars, popVars, timers
  <2>1. ASSUME NEW r \in Request, PushLock(r)
        PROVE  UNCHANGED <<work, popped>>
    BY <2>1 DEF PushLock
  <2>2. CASE PushTest \/ PushNotify
    BY <2>2 DEF PushTest, PushNotify
  <2>3. CASE PushAppend
    <3>1. io_request \in Request /\ Fifo!Push(io_request)
      BY <2>3 DEF PushAppend, TypeOK, Fifo!Push
    <3> QED
      BY <3>1 DEF Fifo!Next
  <2>4. CASE PopTake
    BY <2>4 DEF PopTake, Fifo!Pop, Fifo!Next
  <2>5. CASE PopGiveUp
    BY <2>5 DEF PopGiveUp, TestsStillHold, Fifo!GiveUp, Fifo!Next
  <2>6. CASE PopLock \/ PopFindEmpty \/ PopWait \/ Wake \/ PopRelock
    BY <2>6 DEF PopLock, PopFindEmpty, PopWait, Wake, PopRelock
  <2>7. CASE Tick
    BY <2>7 DEF Tick
  <2>8. CASE UNCHANGED vars
    BY <2>8 DEF vars
  <2> QED
    BY <2>1, <2>2, <2>3, <2>4, <2>5, <2>6, <2>7, <2>8
       DEF Next, PushStep, PopReturns, PopInside, PopNotified, PopWaitExpires,
           PopWakesSpuriously
<1> QED
  BY <1>1, <1>2, TypeCorrect, TestsStable, PTL DEF Spec, ImplementsFifo, Fifo!Spec
=============================================================================
