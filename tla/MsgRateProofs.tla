--------------------------- MODULE MsgRateProofs ---------------------------
(***************************************************************************)
(* Theorems about the message-rate benchmark, for every set of arguments,  *)
(* every ring depth and every number of requests.  The two threads use     *)
(* their queue as module WorkQueue specifies (RefinesWorkQueue), so what   *)
(* WorkQueueProofs proves of it holds here; the rest of the inductive      *)
(* invariant is Inv, one named part for each thing the handler's code      *)
(* relies on and does not test.                                            *)
(***************************************************************************)
EXTENDS MsgRate, IoUringLemmas

QP == INSTANCE WorkQueueProofs WITH Request <- 0..(MaxIter - 1), Sentinel <- -1,
                                    MaxWork <- MaxIter

(* A thread is inside push_work or wait_and_pop when its own code says so. *)
InCalls ==
  /\ producer = "pushing" <=> push # "idle"
  /\ handler = "popping" <=> pop # "idle"

(* outstanding_requests never passes oio: it is reset at the end of the    *)
(* iteration in which it reaches it.                                       *)
BatchBound ==
  /\ handler \in {"created", "loop", "popping"} => outstanding_requests < userArgs.oio
  /\ handler = "request" => outstanding_requests > 0
  /\ handler \in {"submit", "wait"} => outstanding_requests = userArgs.oio
  /\ outstanding_requests <= userArgs.oio

(* The request a thread has in hand is the next one of its side. *)
InHand ==
  /\ push \in {"locked", "tested"} => io_request = iter - 1
  /\ handler = "request" => popped = total_requests_handled
  /\ Taken <= Pushed

(* The handler is where a batch is collected and nothing is submitted. *)
Filling == handler \in {"created", "loop", "popping", "request", "report", "done"}

(* Every operation of the batch is in exactly one place of the ring. *)
RingInv ==
  /\ IsFiniteSet(inflight)
  /\ userArgs.lib # "IOURING" =>
       /\ sq = <<>> /\ inflight = {} /\ cq = <<>>
       /\ handler \notin {"submit", "wait", "crashed"}
  /\ userArgs.lib = "IOURING" =>
       /\ handler \in {"created", "loop", "popping"} => Len(sq) = outstanding_requests
       /\ handler = "request" => Len(sq) = outstanding_requests - 1
       /\ handler = "submit" => Len(sq) = userArgs.oio
       /\ Filling => Len(sq) < userArgs.oio
       /\ Filling \/ handler = "submit" =>
            inflight = {} /\ cq = <<>> /\ \A i \in 1..Len(sq) : sq[i].buf = i - 1
       /\ handler = "wait" =>
            Len(sq) + Cardinality(inflight) + Len(cq) = userArgs.oio

(* Each operation not completed yet has a registered buffer of its own. *)
BuffersApart ==
  /\ \A i \in 1..Len(sq) : sq[i].buf < userArgs.oio
  /\ \A e \in inflight : e.buf < userArgs.oio
  /\ \A i, j \in 1..Len(sq) : sq[i].buf = sq[j].buf => i = j
  /\ \A i \in 1..Len(sq) : \A e \in inflight : e.buf # sq[i].buf
  /\ \A e, f \in inflight : e.buf = f.buf => e = f

(* What the two counters say of the operations that were performed. *)
Counts ==
  /\ userArgs.lib = "SYNCIO" => total_requests_handled = completed
  /\ userArgs.lib = "IOURING" =>
       /\ Filling => total_requests_handled = completed + Len(sq)
       /\ handler \in {"submit", "wait"} =>
            total_requests_handled + 1 = completed + userArgs.oio
  /\ report # <<>> => handler = "done" /\ report[1].op_cnt = total_requests_handled

Inv ==
  /\ TypeOK
  /\ InCalls
  /\ BatchBound
  /\ InHand
  /\ HandledInOrderOnce
  /\ RingInv
  /\ BuffersApart
  /\ Counts
  /\ CrashOnlyAboveDepth

-----------------------------------------------------------------------------
LEMMA ArgsTypes ==
  ASSUME userArgs \in Args
  PROVE  /\ userArgs.lib \in Libs
         /\ userArgs.oio \in Nat /\ userArgs.oio > 0
         /\ userArgs.message_interval \in Nat
         /\ RunTicks \in Nat
<1>1. userArgs.runtime \in Nat /\ SECOND \in Nat
  BY ArgsAssumption, BoundAssumption
<1>2. \A a, b \in Nat : a * b \in Nat
  OBVIOUS
<1> QED
  BY <1>1, <1>2, ArgsAssumption DEF RunTicks

LEMMA UptoType ==
  ASSUME NEW limit \in Nat, NEW t \in 0..limit
  PROVE  Q!Upto(t, limit) \in 0..limit
BY DEF Q!Upto

(* Everything the handler does outside wait_and_pop. *)
HandlerActs ==
  \/ HandlerStart \/ HandlerCallsPop \/ HandlerStop \/ HandlerPopped
  \/ \E ok \in BOOLEAN : HandleSync(ok)
  \/ HandleLibaio \/ HandleSetupFails
  \/ HandlePrepare \/ HandlePrepareNull \/ HandleSubmit \/ HandleReap
  \/ HandleWaitFails \/ HandlerReport

(* The other steps leave the handler's own state and its ring alone. *)
LEMMA OtherSteps ==
  ASSUME [Next]_vars, ~HandlerActs, ~KernelCompletes
  PROVE  UNCHANGED <<userArgs, handlerVars, ringVars>>
<1> USE DEF handlerVars, ringVars
<1>1. CASE ProducerStep
  BY <1>1 DEF ProducerStep, ProducerStart, ProducerPush, ProducerInsidePush,
              ProducerPushed, ProducerWakes, ProducerStop
<1>2. CASE HandlerInsidePop \/ HandlerWakesSpuriously
  BY <1>2 DEF HandlerInsidePop, HandlerWakesSpuriously
<1>3. CASE Tick
  BY <1>3 DEF Tick
<1>4. CASE Join \/ UNCHANGED vars
  BY <1>4 DEF Join, vars
<1> QED
  BY <1>1, <1>2, <1>3, <1>4 DEF Next, HandlerStep, HandlerActs

-----------------------------------------------------------------------------
IterInRange == iter \in 0..MaxIter

LEMMA IterStaysInRange == Spec => []IterInRange
<1>1. Init => IterInRange
  BY BoundAssumption DEF Init, IterInRange
<1>2. IterInRange /\ [Next]_vars => IterInRange'
  <2> SUFFICES ASSUME IterInRange, [Next]_vars
               PROVE  IterInRange'
    OBVIOUS
  <2> USE BoundAssumption DEF IterInRange, producerVars
  <2>1. CASE ProducerStep
    BY <2>1 DEF ProducerStep, ProducerStart, ProducerPush, ProducerInsidePush,
                ProducerPushed, ProducerWakes, ProducerStop
  <2>2. CASE HandlerActs
    BY <2>2 DEF HandlerActs, HandlerStart, HandlerCallsPop, HandlerStop, HandlerPopped,
                HandleSync, HandleLibaio, HandleSetupFails, HandlePrepare,
                HandlePrepareNull, HandleSubmit, HandleReap, HandleWaitFails,
                HandlerReport
  <2>3. CASE HandlerInsidePop \/ HandlerWakesSpuriously \/ KernelCompletes
    BY <2>3 DEF HandlerInsidePop, HandlerWakesSpuriously, KernelCompletes
  <2>4. CASE Tick
    BY <2>4 DEF Tick
  <2>5. CASE Join \/ UNCHANGED vars
    BY <2>5 DEF Join, vars
  <2> QED
    BY <2>1, <2>2, <2>3, <2>4, <2>5 DEF Next, HandlerStep, HandlerActs
<1> QED
  BY <1>1, <1>2, PTL DEF Spec

(* The two threads drive their queue as module WorkQueue says it may be    *)
(* driven: every step of the benchmark is a step of the queue or leaves it *)
(* alone, so one producer and one handler are all it ever serves.          *)
THEOREM RefinesWorkQueue == Spec => QP!Spec
<1>1. Init => QP!Init
  BY DEF Init, Q!Init, QP!Init
<1>2. IterInRange /\ [Next]_vars => [QP!Next]_(QP!vars)
  <2> SUFFICES ASSUME IterInRange, [Next]_vars
               PROVE  QP!Next \/ UNCHANGED QP!vars
    OBVIOUS
  <2> USE DEF queueVars, QP!vars, QP!pushVars, QP!popVars, QP!timers,
              Q!pushVars, Q!popVars, Q!timers
  <2>1. CASE ProducerPush
    <3>1. iter \in 0..(MaxIter - 1) /\ QP!PushLock(iter)
      BY <2>1, BoundAssumption DEF IterInRange, ProducerPush, Q!PushLock, QP!PushLock
    <3> QED
      BY <3>1 DEF QP!Next
  <2>2. CASE ProducerInsidePush \/ ProducerPushed
    <3>1. QP!PushStep
      BY <2>2 DEF ProducerInsidePush, ProducerPushed, Q!PushTest, Q!PushAppend,
                  Q!PushNotify, QP!PushStep, QP!PushTest, QP!PushAppend, QP!PushNotify
    <3> QED
      BY <3>1 DEF QP!Next
  <2>3. CASE ProducerStart \/ ProducerWakes \/ ProducerStop
    BY <2>3 DEF ProducerStart, ProducerWakes, ProducerStop, clocks
  <2>4. CASE HandlerCallsPop
    <3>1. QP!PopLock
      BY <2>4 DEF HandlerCallsPop, Q!PopLock, QP!PopLock
    <3> QED
      BY <3>1 DEF QP!Next
  <2>5. CASE HandlerInsidePop
    <3>1. QP!PopInside
      BY <2>5 DEF HandlerInsidePop, Q!PopInside, Q!PopFindEmpty, Q!PopWait,
                  Q!PopNotified, Q!PopWaitExpires, Q!PopRelock, Q!Wake,
                  QP!PopInside, QP!PopFindEmpty, QP!PopWait,
                  QP!PopNotified, QP!PopWaitExpires, QP!PopRelock, QP!Wake
    <3> QED
      BY <3>1 DEF QP!Next
  <2>6. CASE HandlerWakesSpuriously
    <3>1. QP!PopWakesSpuriously
      BY <2>6 DEF HandlerWakesSpuriously, Q!PopWakesSpuriously, Q!Wake,
                  QP!PopWakesSpuriously, QP!Wake
    <3> QED
      BY <3>1 DEF QP!Next
  <2>7. CASE HandlerPopped
    <3>1. QP!PopReturns
      BY <2>7 DEF HandlerPopped, Q!PopTake, Q!PopGiveUp, QP!PopReturns, QP!PopTake,
                  QP!PopGiveUp
    <3> QED
      BY <3>1 DEF QP!Next
  <2>8. CASE HandlerActs /\ ~HandlerCallsPop /\ ~HandlerPopped
    BY <2>8 DEF HandlerActs, HandlerStart, HandlerStop,
                HandleSync, HandleLibaio, HandleSetupFails, HandlePrepare,
                HandlePrepareNull, HandleSubmit, HandleReap, HandleWaitFails,
                HandlerReport
  <2>9. CASE KernelCompletes
    BY <2>9 DEF KernelCompletes
  <2>10. CASE Tick
    <3>1. CASE UNCHANGED <<waited, blocked>>
      BY <2>10, <3>1 DEF Tick
    <3>2. CASE <<waited, blocked>>' # <<waited, blocked>>
      <4>1. QP!Tick
        BY <2>10, <3>2 DEF Tick, Q!TickTimers, Q!Upto, QP!Tick, QP!TickTimers, QP!Upto
      <4> QED
        BY <4>1 DEF QP!Next
    <3> QED
      BY <3>1, <3>2
  <2>11. CASE Join \/ UNCHANGED vars
    BY <2>11 DEF Join, vars
  <2> QED
    BY <2>1, <2>2, <2>3, <2>4, <2>5, <2>6, <2>7, <2>8, <2>9, <2>10, <2>11
       DEF Next, ProducerStep, HandlerStep, HandlerActs
<1> QED
  BY <1>1, <1>2, IterStaysInRange, PTL DEF Spec, QP!Spec

(* So the queue's own invariants hold in the benchmark. *)
LEMMA QueueTypes == Spec => []Q!TypeOK
<1>1. QP!SentinelAssumption /\ QP!SecondAssumption /\ QP!MaxWorkAssumption
  BY BoundAssumption
     DEF QP!SentinelAssumption, QP!SecondAssumption, QP!MaxWorkAssumption
<1>2. QP!TypeOK => Q!TypeOK
  BY DEF QP!TypeOK, Q!TypeOK
<1> QED
  BY <1>1, <1>2, QP!TypeCorrect, RefinesWorkQueue, PTL

(* And it is a FIFO to them: no request is lost, repeated or overtaken     *)
(* between the producer and the handler, however they interleave, and the  *)
(* handler is told to stop only when there is none.                        *)
THEOREM RefinesFifo == Spec => QP!ImplementsFifo
<1>1. QP!SentinelAssumption /\ QP!SecondAssumption /\ QP!MaxWorkAssumption
  BY BoundAssumption
     DEF QP!SentinelAssumption, QP!SecondAssumption, QP!MaxWorkAssumption
<1> QED
  BY <1>1, QP!RefinesFifo, RefinesWorkQueue, PTL

-----------------------------------------------------------------------------
(* The parts of TypeOK, by who changes them. *)
ProducerTypes ==
  /\ producer \in {"created", "loop", "pushing", "sleeping", "done"}
  /\ iter \in 0..MaxIter
  /\ slept \in 0..userArgs.message_interval
  /\ ran \in 0..RunTicks
  /\ served \in 0..RunTicks

HandlerTypes ==
  /\ handler \in {"created", "loop", "popping", "request", "submit", "wait",
                  "report", "done", "failed", "crashed"}
  /\ outstanding_requests \in 0..userArgs.oio
  /\ total_requests_handled \in Nat
  /\ args_set \in BOOLEAN
  /\ completed \in Nat
  /\ report \in Seq([lib : Libs, op_cnt : Nat]) /\ Len(report) <= 1

RingTypes ==
  /\ sq \in Seq(Sqe)
  /\ inflight \subseteq Sqe
  /\ cq \in Seq([sqe : Sqe, ok : BOOLEAN])

LEMMA TypeParts ==
  TypeOK <=> userArgs \in Args /\ Q!TypeOK /\ ProducerTypes /\ HandlerTypes /\ RingTypes
BY DEF TypeOK, ProducerTypes, HandlerTypes, RingTypes

LEMMA InitInv == ASSUME Init PROVE Inv
<1> USE DEF Init, Q!Init, R!RingInit
<1>1. TypeOK
  <2>1. Q!TypeOK
    <3>1. 0 \in 0..(SECOND + 1) /\ 0 \in 0..SECOND
      BY BoundAssumption
    <3>2. work \in Seq(0..(MaxIter - 1))
      BY EmptySeq
    <3> QED
      BY <3>1, <3>2 DEF Q!TypeOK
  <2>2. ProducerTypes
    BY ArgsTypes, BoundAssumption DEF ProducerTypes
  <2>3. HandlerTypes
    <3>1. report \in Seq([lib : Libs, op_cnt : Nat]) /\ Len(report) = 0
      BY EmptySeq
    <3>2. 0 \in 0..userArgs.oio
      BY ArgsTypes
    <3>3. /\ handler = "created" /\ args_set \in BOOLEAN
          /\ total_requests_handled \in Nat /\ completed \in Nat
          /\ outstanding_requests = 0
      OBVIOUS
    <3> HIDE DEF Init
    <3> QED
      BY <3>1, <3>2, <3>3 DEF HandlerTypes
  <2>4. RingTypes
    BY EmptySeq DEF RingTypes
  <2> QED
    BY <2>1, <2>2, <2>3, <2>4, TypeParts
<1>2. InCalls /\ InHand /\ CrashOnlyAboveDepth
  BY BoundAssumption DEF InCalls, InHand, Taken, Pushed, CrashOnlyAboveDepth
<1>3. BatchBound
  BY ArgsTypes DEF BatchBound
<1>4. HandledInOrderOnce
  BY DEF HandledInOrderOnce, Taken, Pushed
<1>5. RingInv
  BY ArgsTypes, FS_EmptySet DEF RingInv, Filling
<1>6. BuffersApart
  BY DEF BuffersApart
<1>7. Counts
  BY DEF Counts, Filling
<1> QED
  BY <1>1, <1>2, <1>3, <1>4, <1>5, <1>6, <1>7 DEF Inv

LEMMA ArgsUnchanged == ASSUME [Next]_vars PROVE userArgs' = userArgs
BY OtherSteps
   DEF HandlerActs, HandlerStart, HandlerCallsPop, HandlerStop, HandlerPopped,
       HandleSync, HandleLibaio, HandleSetupFails, HandlePrepare, HandlePrepareNull,
       HandleSubmit, HandleReap, HandleWaitFails, HandlerReport, KernelCompletes

LEMMA ProducerTypesStep ==
  ASSUME TypeOK, [Next]_vars
  PROVE  ProducerTypes'
<1>1. ProducerTypes /\ userArgs' = userArgs /\ RunTicks' = RunTicks
  BY ArgsUnchanged, TypeParts DEF RunTicks
<1>2. userArgs.message_interval \in Nat /\ RunTicks \in Nat
  BY ArgsTypes DEF TypeOK
<1> USE <1>1, <1>2, BoundAssumption DEF ProducerTypes, producerVars, clocks
<1>3. CASE ProducerStart \/ ProducerWakes \/ ProducerStop \/ ProducerInsidePush
  BY <1>3 DEF ProducerStart, ProducerWakes, ProducerStop, ProducerInsidePush
<1>4. CASE ProducerPush
  BY <1>4 DEF ProducerPush
<1>5. CASE ProducerPushed
  BY <1>5 DEF ProducerPushed
<1>6. CASE HandlerActs
  BY <1>6 DEF HandlerActs, HandlerStart, HandlerCallsPop, HandlerStop, HandlerPopped,
              HandleSync, HandleLibaio, HandleSetupFails, HandlePrepare,
              HandlePrepareNull, HandleSubmit, HandleReap, HandleWaitFails,
              HandlerReport
<1>7. CASE HandlerInsidePop \/ HandlerWakesSpuriously \/ KernelCompletes
  BY <1>7 DEF HandlerInsidePop, HandlerWakesSpuriously, KernelCompletes
<1>8. CASE Tick
  <2>1. ran' \in 0..RunTicks /\ served' \in 0..RunTicks
    BY <1>8, UptoType DEF Tick
  <2>2. slept' \in 0..userArgs.message_interval
    BY <1>8, UptoType DEF Tick
  <2> QED
    BY <1>8, <2>1, <2>2 DEF Tick
<1>9. CASE Join \/ UNCHANGED vars
  BY <1>9 DEF Join, vars
<1> QED
  BY <1>3, <1>4, <1>5, <1>6, <1>7, <1>8, <1>9
     DEF Next, ProducerStep, HandlerStep, HandlerActs

LEMMA HandlerTypesStep ==
  ASSUME TypeOK, BatchBound, [Next]_vars
  PROVE  HandlerTypes'
<1>1. HandlerTypes /\ userArgs' = userArgs
  BY ArgsUnchanged, TypeParts
<1>2. userArgs.oio \in Nat
  BY ArgsTypes DEF TypeOK
<1> USE <1>1, <1>2 DEF HandlerTypes
<1>3. CASE HandlerStart \/ HandlerCallsPop \/ HandlerStop \/ HandleSubmit
           \/ HandlePrepareNull
  BY <1>3 DEF HandlerStart, HandlerCallsPop, HandlerStop, HandleSubmit,
              HandlePrepareNull
<1>4. CASE HandlerPopped
  <2>1. outstanding_requests + 1 \in 0..userArgs.oio
    BY <1>4 DEF HandlerPopped, BatchBound
  <2> QED
    BY <1>4, <2>1 DEF HandlerPopped
<1>5. CASE CountRequest /\ UNCHANGED <<args_set, report>> /\ completed' \in Nat
  BY <1>5 DEF CountRequest
<1>6. CASE Return /\ UNCHANGED <<args_set, report, completed>>
  BY <1>6 DEF Return
<1>7. ASSUME NEW ok \in BOOLEAN, HandleSync(ok)
      PROVE  HandlerTypes'
  BY <1>5, <1>6, <1>7 DEF HandleSync
<1>8. CASE HandleLibaio \/ HandleSetupFails \/ HandleWaitFails
  BY <1>5, <1>6, <1>8 DEF HandleLibaio, HandleSetupFails, HandleWaitFails
<1>9. CASE HandlePrepare
  BY <1>5, <1>9 DEF HandlePrepare
<1>10. CASE HandleReap
  BY <1>5, <1>6, <1>10 DEF HandleReap
<1>11. CASE HandlerReport
  <2>1. PICK lib \in Libs : report' = <<[lib |-> lib, op_cnt |-> OpCnt]>>
    BY <1>11 DEF HandlerReport
  <2>2. [lib |-> lib, op_cnt |-> OpCnt] \in [lib : Libs, op_cnt : Nat]
    BY DEF OpCnt
  <2>3. report' \in Seq([lib : Libs, op_cnt : Nat]) /\ Len(report') = 1
    BY <2>1, <2>2
  <2> QED
    BY <1>11, <2>3 DEF HandlerReport
<1>12. CASE UNCHANGED <<userArgs, handlerVars, ringVars>>
  BY <1>12 DEF handlerVars
<1>13. CASE KernelCompletes
  BY <1>13 DEF KernelCompletes, handlerVars
<1> QED
  BY <1>3, <1>4, <1>7, <1>8, <1>9, <1>10, <1>11, <1>12, <1>13, OtherSteps
     DEF HandlerActs

LEMMA RingTypesStep ==
  ASSUME TypeOK, BatchBound, InHand, [Next]_vars
  PROVE  RingTypes'
<1>1. RingTypes
  BY TypeParts
<1> USE <1>1 DEF RingTypes
<1>2. CASE UNCHANGED ringVars
  BY <1>2 DEF ringVars
<1>3. CASE HandlerActs /\ ~HandlePrepare /\ ~HandleSubmit /\ ~HandleReap
  BY <1>2, <1>3
     DEF HandlerActs, HandlerStart, HandlerCallsPop, HandlerStop, HandlerPopped,
         HandleSync, HandleLibaio, HandleSetupFails, HandlePrepareNull,
         HandleWaitFails, HandlerReport
<1>4. CASE HandlePrepare
  <2>1. [buf |-> submit_index, req |-> popped] \in Sqe
    <3>1. submit_index \in Nat
      BY <1>4, ArgsTypes DEF HandlePrepare, BatchBound, TypeOK, submit_index
    <3>2. popped \in 0..(MaxIter - 1)
      BY <1>4 DEF HandlePrepare, InHand, TypeOK, Q!TypeOK
    <3> QED
      BY <3>1, <3>2 DEF Sqe
  <2>2. sq' \in Seq(Sqe)
    BY <1>4, <2>1, AppendProperties DEF HandlePrepare, R!Prepare
  <2> QED
    BY <1>4, <2>2 DEF HandlePrepare, R!Prepare
<1>5. CASE HandleSubmit
  <2> PICK n \in 0..Len(sq) : R!Submit(n)
    BY <1>5 DEF HandleSubmit
  <2>1. sq' \in Seq(Sqe)
    BY RestOf DEF R!Submit
  <2>2. inflight' \subseteq Sqe
    BY DEF R!Submit
  <2> QED
    BY <2>1, <2>2 DEF R!Submit
<1>6. CASE HandleReap
  <2>1. CASE R!FailedCqes = {}
    <3>1. outstanding_requests \in 0..Len(cq)
      BY <1>6, ArgsTypes DEF HandleReap, WaitNr, TypeOK
    <3>2. cq' = SubSeq(cq, outstanding_requests + 1, Len(cq))
      BY <1>6, <2>1 DEF HandleReap, R!Advance, AdvanceNr
    <3>3. cq' \in Seq([sqe : Sqe, ok : BOOLEAN])
      BY <3>1, <3>2, RestOf
    <3> QED
      BY <1>6, <2>1, <3>3 DEF HandleReap, R!Advance
  <2>2. CASE R!FailedCqes # {}
    BY <1>2, <1>6, <2>2 DEF HandleReap
  <2> QED
    BY <2>1, <2>2
<1>7. CASE KernelCompletes
  <2> PICK e \in inflight, ok \in BOOLEAN : R!Complete(e, ok)
    BY <1>7 DEF KernelCompletes
  <2>1. [sqe |-> e, ok |-> ok] \in [sqe : Sqe, ok : BOOLEAN]
    OBVIOUS
  <2>2. cq' \in Seq([sqe : Sqe, ok : BOOLEAN])
    BY <2>1, AppendProperties DEF R!Complete
  <2> QED
    BY <2>2 DEF R!Complete
<1> QED
  BY <1>2, <1>3, <1>4, <1>5, <1>6, <1>7, OtherSteps

LEMMA TypeStep ==
  ASSUME Inv, [Next]_vars, Q!TypeOK'
  PROVE  TypeOK'
<1>1. userArgs' \in Args
  BY ArgsUnchanged DEF Inv, TypeOK
<1>2. ProducerTypes' /\ HandlerTypes' /\ RingTypes'
  BY ProducerTypesStep, HandlerTypesStep, RingTypesStep DEF Inv
<1> QED
  BY <1>1, <1>2 DEF TypeOK, ProducerTypes, HandlerTypes, RingTypes

-----------------------------------------------------------------------------
LEMMA InCallsStep ==
  ASSUME TypeOK, InCalls, [Next]_vars
  PROVE  InCalls'
<1> USE DEF InCalls, producerVars, handlerVars, queueVars, Q!pushVars, Q!popVars,
            Q!timers
<1>1. CASE ProducerStart \/ ProducerWakes \/ ProducerStop
  BY <1>1 DEF ProducerStart, ProducerWakes, ProducerStop
<1>2. CASE ProducerPush \/ ProducerInsidePush \/ ProducerPushed
  BY <1>2 DEF ProducerPush, ProducerInsidePush, ProducerPushed, Q!PushLock, Q!PushTest,
              Q!PushAppend, Q!PushNotify
<1>3. CASE HandlerCallsPop \/ HandlerPopped
  BY <1>3 DEF HandlerCallsPop, HandlerPopped, Q!PopLock, Q!PopTake, Q!PopGiveUp
<1>4. CASE HandlerInsidePop \/ HandlerWakesSpuriously
  BY <1>4 DEF HandlerInsidePop, HandlerWakesSpuriously, Q!PopInside, Q!PopFindEmpty,
              Q!PopWait, Q!PopNotified, Q!PopWaitExpires, Q!PopWakesSpuriously,
              Q!PopRelock, Q!Wake
<1>5. CASE HandlerActs /\ ~HandlerCallsPop /\ ~HandlerPopped
  BY <1>5 DEF HandlerActs, HandlerStart, HandlerStop,
              HandleSync, HandleLibaio, HandleSetupFails, HandlePrepare,
              HandlePrepareNull, HandleSubmit, HandleReap, HandleWaitFails,
              HandlerReport, CountRequest, Return
<1>6. CASE KernelCompletes \/ Tick
  BY <1>6 DEF KernelCompletes, Tick
<1>7. CASE Join \/ UNCHANGED vars
  BY <1>7 DEF Join, vars
<1> QED
  BY <1>1, <1>2, <1>3, <1>4, <1>5, <1>6, <1>7
     DEF Next, ProducerStep, HandlerStep, HandlerActs

LEMMA BatchBoundStep ==
  ASSUME TypeOK, BatchBound, [Next]_vars
  PROVE  BatchBound'
<1>1. /\ userArgs' = userArgs
      /\ userArgs.oio \in Nat /\ userArgs.oio > 0
      /\ outstanding_requests \in Nat
  BY ArgsUnchanged, ArgsTypes DEF TypeOK
<1> USE <1>1 DEF BatchBound
<1>2. CASE UNCHANGED handlerVars
  BY <1>2 DEF handlerVars
<1>3. CASE HandlerStart \/ HandlerCallsPop \/ HandlerStop \/ HandlerReport
           \/ HandlePrepareNull \/ HandleSubmit
  BY <1>3 DEF HandlerStart, HandlerCallsPop, HandlerStop, HandlerReport,
              HandlePrepareNull, HandleSubmit
<1>4. CASE HandlerPopped
  BY <1>4 DEF HandlerPopped
<1>5. CASE CountRequest
  BY <1>5 DEF CountRequest, BatchFull
<1>6. CASE Return
  BY <1>6 DEF Return
<1>7. CASE HandlePrepare
  BY <1>5, <1>7 DEF HandlePrepare, BatchFull
<1>8. CASE HandleReap \/ HandleLibaio \/ HandleSetupFails \/ HandleWaitFails
           \/ \E ok \in BOOLEAN : HandleSync(ok)
  BY <1>5, <1>6, <1>8
     DEF HandleReap, HandleLibaio, HandleSetupFails, HandleWaitFails, HandleSync
<1>9. CASE KernelCompletes
  BY <1>2, <1>9 DEF KernelCompletes
<1> QED
  BY <1>2, <1>3, <1>4, <1>7, <1>8, <1>9, OtherSteps DEF HandlerActs

-----------------------------------------------------------------------------
(* The stretch of requests the queue holds, and what a push at its end and *)
(* a pop at its front make of it.                                          *)
Stretch(first, n) == [i \in 1..n |-> first + i - 1]

LEMMA StretchAppend ==
  ASSUME NEW first \in Nat, NEW n \in Nat
  PROVE  Append(Stretch(first, n), first + n) = Stretch(first, n + 1)
<1>1. Stretch(first, n) \in Seq(Int) /\ Len(Stretch(first, n)) = n
  BY DEF Stretch
<1>2. /\ Append(Stretch(first, n), first + n) \in Seq(Int)
      /\ Len(Append(Stretch(first, n), first + n)) = n + 1
      /\ Append(Stretch(first, n), first + n)[n + 1] = first + n
      /\ \A i \in 1..n : Append(Stretch(first, n), first + n)[i] = Stretch(first, n)[i]
  BY <1>1, AppendProperties
<1>3. Stretch(first, n + 1) \in Seq(Int) /\ Len(Stretch(first, n + 1)) = n + 1
  BY DEF Stretch
<1>4. \A i \in 1..(n + 1) :
        Append(Stretch(first, n), first + n)[i] = Stretch(first, n + 1)[i]
  BY <1>2 DEF Stretch
<1> HIDE DEF Stretch
<1> QED
  BY <1>2, <1>3, <1>4, SeqEqual

LEMMA StretchTail ==
  ASSUME NEW first \in Nat, NEW n \in Nat, n # 0
  PROVE  /\ Head(Stretch(first, n)) = first
         /\ Tail(Stretch(first, n)) = Stretch(first + 1, n - 1)
<1>1. Stretch(first, n) \in Seq(Int) /\ Len(Stretch(first, n)) = n
  BY DEF Stretch
<1>2. Stretch(first, n) # <<>>
  BY <1>1
<1>3. /\ Head(Stretch(first, n)) = Stretch(first, n)[1]
      /\ Tail(Stretch(first, n)) \in Seq(Int)
      /\ Len(Tail(Stretch(first, n))) = n - 1
      /\ \A i \in 1..(n - 1) : Tail(Stretch(first, n))[i] = Stretch(first, n)[i + 1]
  BY <1>1, <1>2, HeadTailProperties
<1>4. Stretch(first + 1, n - 1) \in Seq(Int) /\ Len(Stretch(first + 1, n - 1)) = n - 1
  BY DEF Stretch
<1>5. \A i \in 1..(n - 1) : Tail(Stretch(first, n))[i] = Stretch(first + 1, n - 1)[i]
  BY <1>3 DEF Stretch
<1>6. Stretch(first, n)[1] = first
  BY DEF Stretch
<1> HIDE DEF Stretch
<1> QED
  BY <1>3, <1>4, <1>5, <1>6, SeqEqual

(* A step that leaves the queue's contents alone leaves the two ends where *)
(* they were: a request is counted as taken from when it is in hand.       *)
LEMMA EndsUnchanged ==
  ASSUME TypeOK, InCalls, [Next]_vars, work' = work,
         ~(HandlerPopped /\ Q!PopTake), ~(ProducerInsidePush /\ Q!PushAppend)
  PROVE  Taken' = Taken /\ Pushed' = Pushed
<1>1. iter \in Int /\ total_requests_handled \in Int
  BY DEF TypeOK
<1> USE <1>1 DEF Taken, Pushed, InCalls, producerVars, handlerVars, queueVars,
                 Q!pushVars, Q!popVars, Q!timers
<1>2. CASE ProducerStart \/ ProducerWakes \/ ProducerStop
  BY <1>2 DEF ProducerStart, ProducerWakes, ProducerStop
<1>3. CASE ProducerPush
  BY <1>3 DEF ProducerPush, Q!PushLock
<1>4. CASE ProducerInsidePush \/ ProducerPushed
  BY <1>4 DEF ProducerInsidePush, ProducerPushed, Q!PushTest, Q!PushNotify
<1>5. CASE HandlerStart \/ HandlerCallsPop \/ HandlerStop \/ HandlerPopped
  BY <1>5 DEF HandlerStart, HandlerCallsPop, HandlerStop, HandlerPopped, Q!PopLock,
              Q!PopGiveUp
<1>6. CASE HandlerInsidePop \/ HandlerWakesSpuriously
  BY <1>6 DEF HandlerInsidePop, HandlerWakesSpuriously, Q!PopInside, Q!PopFindEmpty,
              Q!PopWait, Q!PopNotified, Q!PopWaitExpires, Q!PopWakesSpuriously,
              Q!PopRelock, Q!Wake
<1>7. CASE CountRequest /\ handler \in {"request", "wait"} /\ UNCHANGED <<iter, push>>
  BY <1>7 DEF CountRequest
<1>8. CASE Return /\ handler \in {"request", "wait"} /\ UNCHANGED <<iter, push>>
  BY <1>8 DEF Return
<1>9. CASE HandleLibaio \/ HandleSetupFails \/ HandleWaitFails \/ HandleReap
           \/ \E ok \in BOOLEAN : HandleSync(ok)
  BY <1>7, <1>8, <1>9 DEF HandleLibaio, HandleSetupFails, HandleWaitFails, HandleReap,
                          HandleSync
<1>10. CASE HandlePrepare \/ HandlePrepareNull \/ HandleSubmit \/ HandlerReport
  BY <1>7, <1>10 DEF HandlePrepare, HandlePrepareNull, HandleSubmit, HandlerReport
<1>11. CASE KernelCompletes \/ Tick
  BY <1>11 DEF KernelCompletes, Tick
<1>12. CASE Join \/ UNCHANGED vars
  BY <1>12 DEF Join, vars
<1> QED
  BY <1>2, <1>3, <1>4, <1>5, <1>6, <1>9, <1>10, <1>11, <1>12
     DEF Next, ProducerStep, HandlerStep

LEMMA WorkUnchanged ==
  ASSUME [Next]_vars,
         ~(HandlerPopped /\ Q!PopTake), ~(ProducerInsidePush /\ Q!PushAppend)
  PROVE  work' = work
<1> USE DEF queueVars, Q!pushVars, Q!popVars, Q!timers
<1>1. CASE ProducerStep
  BY <1>1 DEF ProducerStep, ProducerStart, ProducerPush, ProducerInsidePush,
              ProducerPushed, ProducerWakes, ProducerStop, Q!PushLock, Q!PushTest,
              Q!PushNotify
<1>2. CASE HandlerActs
  BY <1>2 DEF HandlerActs, HandlerStart, HandlerCallsPop, HandlerStop, HandlerPopped,
              HandleSync, HandleLibaio, HandleSetupFails, HandlePrepare,
              HandlePrepareNull, HandleSubmit, HandleReap, HandleWaitFails,
              HandlerReport, Q!PopLock, Q!PopGiveUp
<1>3. CASE HandlerInsidePop \/ HandlerWakesSpuriously
  BY <1>3 DEF HandlerInsidePop, HandlerWakesSpuriously, Q!PopInside, Q!PopFindEmpty,
              Q!PopWait, Q!PopNotified, Q!PopWaitExpires, Q!PopWakesSpuriously,
              Q!PopRelock, Q!Wake
<1>4. CASE KernelCompletes \/ Tick
  BY <1>4 DEF KernelCompletes, Tick
<1>5. CASE Join \/ UNCHANGED vars
  BY <1>5 DEF Join, vars
<1> QED
  BY <1>1, <1>2, <1>3, <1>4, <1>5 DEF Next, HandlerStep, HandlerActs

LEMMA InOrderStep ==
  ASSUME TypeOK, InCalls, InHand, HandledInOrderOnce, [Next]_vars
  PROVE  HandledInOrderOnce' /\ (Taken <= Pushed)'
<1> DEFINE n == Pushed - Taken
<1>1. /\ iter \in Nat /\ total_requests_handled \in Nat
      /\ Taken \in Nat /\ Pushed \in Int /\ Taken <= Pushed /\ n \in Nat
  BY DEF TypeOK, InHand, Taken, Pushed
<1>2. work = Stretch(Taken, n)
  BY DEF HandledInOrderOnce, Stretch
<1>3. CASE HandlerPopped /\ Q!PopTake
  <2>1. work # <<>> /\ work' = Tail(work)
    BY <1>3 DEF Q!PopTake
  <2>2. n # 0
    BY <1>2, <2>1 DEF Stretch
  <2>3. work' = Stretch(Taken + 1, n - 1)
    BY <1>1, <1>2, <2>1, <2>2, StretchTail
  <2>4. Taken' = Taken + 1 /\ Pushed' = Pushed
    BY <1>1, <1>3 DEF HandlerPopped, Q!PopTake, Q!PopGiveUp, Q!pushVars, Taken,
                      Pushed, producerVars
  <2> QED
    BY <1>1, <2>2, <2>3, <2>4 DEF HandledInOrderOnce, Stretch
<1>4. CASE ProducerInsidePush /\ Q!PushAppend
  <2>1. work' = Append(work, iter - 1) /\ Pushed = iter - 1
    BY <1>4 DEF Q!PushAppend, InHand, Pushed
  <2>2. work' = Stretch(Taken, n + 1)
    <3>1. iter - 1 = Taken + n
      BY <1>1, <2>1
    <3> HIDE DEF n
    <3> QED
      BY <1>1, <1>2, <2>1, <3>1, StretchAppend
  <2>3. Taken' = Taken /\ Pushed' = Pushed + 1
    BY <1>1, <1>4, <2>1 DEF ProducerInsidePush, Q!PushAppend, Taken, Pushed,
                            producerVars, handlerVars
  <2> QED
    BY <1>1, <2>2, <2>3 DEF HandledInOrderOnce, Stretch
<1>5. CASE ~(HandlerPopped /\ Q!PopTake) /\ ~(ProducerInsidePush /\ Q!PushAppend)
  <2>1. work' = work /\ Taken' = Taken /\ Pushed' = Pushed
    BY <1>5, WorkUnchanged, EndsUnchanged
  <2> QED
    BY <1>1, <2>1 DEF HandledInOrderOnce
<1> QED
  BY <1>3, <1>4, <1>5

LEMMA InHandStep ==
  ASSUME TypeOK, InCalls, InHand, HandledInOrderOnce, [Next]_vars
  PROVE  InHand'
<1>1. (Taken <= Pushed)'
  BY InOrderStep
<1>2. iter \in Nat /\ total_requests_handled \in Nat
  BY DEF TypeOK
<1>3. (push \in {"locked", "tested"} => io_request = iter - 1)'
  <2> USE DEF InHand, InCalls, queueVars, producerVars, Q!pushVars, Q!popVars, Q!timers
  <2>1. CASE ProducerStart \/ ProducerWakes \/ ProducerStop
    BY <2>1 DEF ProducerStart, ProducerWakes, ProducerStop
  <2>2. CASE ProducerPush \/ ProducerInsidePush \/ ProducerPushed
    BY <1>2, <2>2 DEF ProducerPush, ProducerInsidePush, ProducerPushed, Q!PushLock,
                      Q!PushTest, Q!PushAppend, Q!PushNotify
  <2>3. CASE HandlerActs
    BY <2>3 DEF HandlerActs, HandlerStart, HandlerCallsPop, HandlerStop, HandlerPopped,
                HandleSync, HandleLibaio, HandleSetupFails, HandlePrepare,
                HandlePrepareNull, HandleSubmit, HandleReap, HandleWaitFails,
                HandlerReport, Q!PopLock, Q!PopTake, Q!PopGiveUp
  <2>4. CASE HandlerInsidePop \/ HandlerWakesSpuriously
    BY <2>4 DEF HandlerInsidePop, HandlerWakesSpuriously, Q!PopInside, Q!PopFindEmpty,
                Q!PopWait, Q!PopNotified, Q!PopWaitExpires, Q!PopWakesSpuriously,
                Q!PopRelock, Q!Wake
  <2>5. CASE KernelCompletes \/ Tick
    BY <2>5 DEF KernelCompletes, Tick
  <2>6. CASE Join \/ UNCHANGED vars
    BY <2>6 DEF Join, vars
  <2> QED
    BY <2>1, <2>2, <2>3, <2>4, <2>5, <2>6
       DEF Next, ProducerStep, HandlerStep, HandlerActs
<1>4. (handler = "request" => popped = total_requests_handled)'
  <2> USE DEF queueVars, Q!popVars, Q!pushVars, Q!timers
  <2>1. CASE HandlerPopped /\ Q!PopTake
    (* What is taken is the front of the queue, which nobody has handled.  *)
    <3> DEFINE n == Pushed - Taken
    <3>1. Taken \in Nat /\ n \in Nat /\ Taken = total_requests_handled
      BY <1>2, <2>1 DEF TypeOK, InHand, Taken, Pushed, HandlerPopped
    <3>2. work = Stretch(Taken, n) /\ work # <<>>
      BY <2>1 DEF HandledInOrderOnce, Stretch, Q!PopTake
    <3>3. n # 0
      BY <3>2 DEF Stretch
    <3>4. Head(work) = Taken
      BY <3>1, <3>2, <3>3, StretchTail
    <3> QED
      BY <2>1, <3>1, <3>4 DEF HandlerPopped, Q!PopTake
  <2>2. CASE HandlerActs /\ ~(HandlerPopped /\ Q!PopTake)
    BY <2>2 DEF HandlerActs, HandlerStart, HandlerCallsPop, HandlerStop, HandlerPopped,
                HandleSync, HandleLibaio, HandleSetupFails, HandlePrepare,
                HandlePrepareNull, HandleSubmit, HandleReap, HandleWaitFails,
                HandlerReport, CountRequest, Return
  <2>3. CASE ProducerStep
    BY <2>3 DEF InHand, handlerVars, ProducerStep, ProducerStart, ProducerPush,
                ProducerInsidePush, ProducerPushed, ProducerWakes, ProducerStop,
                Q!PushLock, Q!PushTest, Q!PushAppend, Q!PushNotify
  <2>4. CASE HandlerInsidePop \/ HandlerWakesSpuriously
    BY <2>4 DEF HandlerInsidePop, HandlerWakesSpuriously, handlerVars
  <2>5. CASE KernelCompletes \/ Tick
    BY <2>5 DEF InHand, handlerVars, KernelCompletes, Tick
  <2>6. CASE Join \/ UNCHANGED vars
    BY <2>6 DEF InHand, handlerVars, Join, vars
  <2> QED
    BY <2>1, <2>2, <2>3, <2>4, <2>5, <2>6 DEF Next, HandlerStep, HandlerActs
<1> QED
  BY <1>1, <1>3, <1>4 DEF InHand

-----------------------------------------------------------------------------
(* The handler's actions that leave the ring as it is. *)
RingUntouched ==
  \/ HandlerStart \/ HandlerCallsPop \/ HandlerStop \/ HandlerPopped
  \/ \E ok \in BOOLEAN : HandleSync(ok)
  \/ HandleLibaio \/ HandleSetupFails
  \/ HandlePrepareNull \/ HandleWaitFails \/ HandlerReport

LEMMA RingUntouchedStep ==
  ASSUME TypeOK, BatchBound, RingInv, [Next]_vars, RingUntouched
  PROVE  RingInv'
<1>1. userArgs' = userArgs /\ sq' = sq /\ inflight' = inflight /\ cq' = cq
  BY ArgsUnchanged
     DEF ringVars, RingUntouched, HandlerStart, HandlerCallsPop, HandlerStop,
         HandlerPopped, HandleSync, HandleLibaio, HandleSetupFails, HandlePrepareNull,
         HandleWaitFails, HandlerReport
<1>2. /\ userArgs.oio \in Nat /\ userArgs.oio > 0
      /\ outstanding_requests \in Nat /\ Len(sq) \in Nat
  BY ArgsTypes DEF TypeOK
<1> USE <1>1, <1>2 DEF RingInv, Filling
<1>3. CASE HandlerStart \/ HandlerCallsPop \/ HandlerStop \/ HandlerReport
  BY <1>3 DEF HandlerStart, HandlerCallsPop, HandlerStop, HandlerReport
<1>4. CASE HandlerPopped
  BY <1>4 DEF HandlerPopped
<1>5. CASE HandleLibaio \/ \E ok \in BOOLEAN : HandleSync(ok)
  <2>1. userArgs.lib # "IOURING" /\ handler' \in {"loop", "failed"}
    BY <1>5 DEF HandleLibaio, HandleSync, CountRequest, Return
  <2> QED
    BY <2>1
<1>6. CASE HandleSetupFails \/ HandleWaitFails \/ HandlePrepareNull
  <2>1. handler' \in {"failed", "crashed"} /\ userArgs.lib = "IOURING"
    BY <1>6 DEF HandleSetupFails, HandleWaitFails, HandlePrepareNull, Return
  <2> QED
    BY <2>1
<1> QED
  BY <1>3, <1>4, <1>5, <1>6 DEF RingUntouched

(* The operation prepared is the last of the batch so far, in the buffer   *)
(* of its place in it.                                                     *)
LEMMA PrepareEffect ==
  ASSUME TypeOK, RingInv, HandlePrepare
  PROVE  /\ inflight' = {} /\ cq' = <<>>
         /\ Len(sq') = outstanding_requests
         /\ \A i \in 1..Len(sq') : sq'[i].buf = i - 1
<1> DEFINE e == [buf |-> submit_index, req |-> popped]
<1>1. /\ inflight' = {} /\ cq' = <<>>
      /\ sq' = Append(sq, e)
      /\ Len(sq) = outstanding_requests - 1
      /\ \A i \in 1..Len(sq) : sq[i].buf = i - 1
  BY DEF HandlePrepare, R!Prepare, RingInv, Filling
<1>2. outstanding_requests \in Nat /\ Len(sq) \in Nat
  BY ArgsTypes DEF TypeOK
<1>3. e.buf = outstanding_requests - 1
  BY DEF submit_index
<1> HIDE DEF e
<1>4. /\ Len(sq') = Len(sq) + 1
      /\ sq'[Len(sq) + 1] = e
      /\ \A i \in 1..Len(sq) : sq'[i] = sq[i]
  BY <1>1 DEF TypeOK
<1>5. ASSUME NEW i \in 1..Len(sq')
      PROVE  sq'[i].buf = i - 1
  <2>1. CASE i \in 1..Len(sq)
    BY <1>1, <1>4, <2>1
  <2>2. CASE i = Len(sq) + 1
    BY <1>1, <1>2, <1>3, <1>4, <2>2
  <2> QED
    BY <1>2, <1>4, <2>1, <2>2
<1> QED
  BY <1>1, <1>2, <1>4, <1>5

LEMMA RingInvStep ==
  ASSUME TypeOK, BatchBound, RingInv, BuffersApart, [Next]_vars
  PROVE  RingInv'
<1>1. /\ userArgs' = userArgs
      /\ userArgs.oio \in Nat /\ userArgs.oio > 0
      /\ outstanding_requests \in Nat
      /\ Len(sq) \in Nat /\ Len(cq) \in Nat
      /\ IsFiniteSet(inflight) /\ Cardinality(inflight) \in Nat
  BY ArgsUnchanged, ArgsTypes, FS_CardinalityType DEF TypeOK, RingInv
<1> USE <1>1
<1>2. CASE RingUntouched
  BY <1>2, RingUntouchedStep
<1>3. CASE HandlePrepare
  <2>1. inflight' = {} /\ cq' = <<>>
        /\ Len(sq') = outstanding_requests
        /\ \A i \in 1..Len(sq') : sq'[i].buf = i - 1
    BY <1>3, PrepareEffect
  <2>2. userArgs.lib = "IOURING"
    BY <1>3 DEF HandlePrepare
  <2>4. CASE BatchFull
    BY <1>3, <2>1, <2>2, <2>4, FS_EmptySet
       DEF HandlePrepare, RingInv, Filling, BatchFull
  <2>5. CASE ~BatchFull
    <3>1. outstanding_requests' = outstanding_requests /\ handler' = "loop"
      BY <1>3, <2>5 DEF HandlePrepare, CountRequest
    <3>2. outstanding_requests < userArgs.oio
      BY <2>5 DEF BatchBound, BatchFull
    <3> QED
      BY <2>1, <2>2, <3>1, <3>2, FS_EmptySet DEF RingInv, Filling
  <2> QED
    BY <2>4, <2>5
<1>4. CASE HandleSubmit
  <2> PICK n \in 0..Len(sq) : R!Submit(n)
    BY <1>4 DEF HandleSubmit
  <2>1. userArgs.lib = "IOURING" /\ inflight = {} /\ cq = <<>> /\ Len(sq) = userArgs.oio
    BY <1>4 DEF HandleSubmit, RingInv
  <2>2. Distinct(sq)
    BY DEF BuffersApart, Distinct
  <2>3. inflight' = FirstOf(sq, n) /\ sq' = SubSeq(sq, n + 1, Len(sq)) /\ cq' = <<>>
    BY <2>1 DEF R!Submit, FirstOf
  <2>4. IsFiniteSet(inflight') /\ Cardinality(inflight') = n
    BY <2>2, <2>3, FirstCount DEF TypeOK
  <2>5. Len(sq') = Len(sq) - n
    BY <2>3, RestOf DEF TypeOK
  <2>6. handler' = "wait"
    BY <1>4 DEF HandleSubmit
  <2> QED
    BY <2>1, <2>3, <2>4, <2>5, <2>6 DEF RingInv, Filling
<1>5. CASE HandleReap
  <2>1. userArgs.lib = "IOURING" /\ outstanding_requests = userArgs.oio
    BY <1>5 DEF HandleReap, RingInv, BatchBound
  <2>2. CASE R!FailedCqes = {}
    (* All oio completions are there: nothing is left anywhere else.       *)
    <3>1. Len(sq) + Cardinality(inflight) + Len(cq) = userArgs.oio
          /\ Len(cq) >= userArgs.oio
      BY <1>5, <2>1 DEF HandleReap, RingInv, WaitNr
    <3>2. Len(sq) = 0 /\ Cardinality(inflight) = 0 /\ Len(cq) = userArgs.oio
      BY <3>1
    <3>3. sq = <<>> /\ inflight = {}
      BY <3>2, FS_EmptySet DEF TypeOK
    <3>4. /\ cq' = SubSeq(cq, userArgs.oio + 1, Len(cq))
          /\ sq' = sq /\ inflight' = inflight
      BY <1>5, <2>1, <2>2 DEF HandleReap, R!Advance, AdvanceNr
    <3>5. Len(cq') = 0 /\ cq' \in Seq([sqe : Sqe, ok : BOOLEAN])
      BY <3>2, <3>4, RestOf DEF TypeOK
    <3>6. cq' = <<>>
      BY <3>5
    <3>7. handler' = "loop" /\ outstanding_requests' = 0
      BY <1>5, <2>1, <2>2 DEF HandleReap, CountRequest, BatchFull
    <3> QED
      BY <2>1, <3>3, <3>4, <3>6, <3>7 DEF RingInv, Filling
  <2>3. CASE R!FailedCqes # {}
    <3>1. handler' = "failed" /\ UNCHANGED ringVars
      BY <1>5, <2>3 DEF HandleReap, Return
    <3> QED
      BY <2>1, <3>1 DEF RingInv, Filling, ringVars
  <2> QED
    BY <2>2, <2>3
<1>6. CASE KernelCompletes
  <2> PICK e \in inflight, ok \in BOOLEAN : R!Complete(e, ok)
    BY <1>6 DEF KernelCompletes
  <2>1. inflight' = inflight \ {e} /\ sq' = sq
        /\ cq' = Append(cq, [sqe |-> e, ok |-> ok])
    BY DEF R!Complete
  <2>2. IsFiniteSet(inflight') /\ Cardinality(inflight') = Cardinality(inflight) - 1
    BY <2>1, FS_RemoveElement
  <2>3. Len(cq') = Len(cq) + 1
    BY <2>1 DEF TypeOK
  <2>4. userArgs.lib = "IOURING" /\ ~Filling /\ handler # "submit"
    BY DEF RingInv
  <2>5. handler' = handler /\ outstanding_requests' = outstanding_requests
    BY <1>6 DEF KernelCompletes, handlerVars
  <2> QED
    BY <2>1, <2>2, <2>3, <2>4, <2>5 DEF RingInv, Filling
<1>7. CASE UNCHANGED <<userArgs, handlerVars, ringVars>>
  BY <1>7 DEF RingInv, Filling, handlerVars, ringVars
<1> QED
  BY <1>2, <1>3, <1>4, <1>5, <1>6, <1>7, OtherSteps DEF HandlerActs, RingUntouched

LEMMA BuffersApartStep ==
  ASSUME TypeOK, BatchBound, RingInv, BuffersApart, [Next]_vars
  PROVE  BuffersApart'
<1>1. /\ userArgs' = userArgs
      /\ userArgs.oio \in Nat
      /\ outstanding_requests \in Nat /\ Len(sq) \in Nat
  BY ArgsUnchanged, ArgsTypes DEF TypeOK
<1> USE <1>1
<1>2. CASE UNCHANGED <<sq, inflight>>
  BY <1>2 DEF BuffersApart
<1>3. CASE RingUntouched \/ HandleReap
  BY <1>2, <1>3
     DEF ringVars, RingUntouched, HandlerStart, HandlerCallsPop, HandlerStop,
         HandlerPopped, HandleSync, HandleLibaio, HandleSetupFails, HandlePrepareNull,
         HandleWaitFails, HandlerReport, HandleReap, R!Advance
<1>4. CASE HandlePrepare
  <2>1. (\A i \in 1..Len(sq') : sq'[i].buf = i - 1) /\ inflight' = {}
        /\ Len(sq') <= userArgs.oio
    BY <1>4, PrepareEffect DEF BatchBound
  <2>2. Len(sq') \in Nat
    BY <1>4 DEF HandlePrepare, R!Prepare, TypeOK
  <2> QED
    BY <2>1, <2>2 DEF BuffersApart
<1>5. CASE HandleSubmit
  <2> PICK n \in 0..Len(sq) : R!Submit(n)
    BY <1>5 DEF HandleSubmit
  <2>1. /\ Len(sq') = Len(sq) - n
        /\ \A a \in 1..Len(sq') : sq'[a] = sq[n + a]
    BY RestOf DEF R!Submit, TypeOK
  <2>2. inflight = {}
    BY <1>5 DEF HandleSubmit, RingInv
  <2>3. inflight' = {sq[i] : i \in 1..n}
    BY <2>2 DEF R!Submit
  <2>4. \A e \in inflight' : \E i \in 1..n : e = sq[i]
    BY <2>3
  <2>5. \A a \in 1..Len(sq') : n + a \in 1..Len(sq)
    BY <2>1
  <2> USE DEF BuffersApart
  <2>6. \A i \in 1..Len(sq') : sq'[i].buf < userArgs.oio
    BY <2>1, <2>5
  <2>7. \A e \in inflight' : e.buf < userArgs.oio
    BY <2>4
  <2>8. \A i, j \in 1..Len(sq') : sq'[i].buf = sq'[j].buf => i = j
    <3> TAKE i, j \in 1..Len(sq')
    <3> HAVE sq'[i].buf = sq'[j].buf
    <3>1. sq[n + i].buf = sq[n + j].buf
      BY <2>1
    <3>2. n + i = n + j
      BY <2>5, <3>1
    <3> QED
      BY <2>1, <3>2
  <2>9. \A i \in 1..Len(sq') : \A e \in inflight' : e.buf # sq'[i].buf
    <3> TAKE i \in 1..Len(sq')
    <3> TAKE e \in inflight'
    <3>1. PICK j \in 1..n : e = sq[j]
      BY <2>4
    <3>2. sq'[i] = sq[n + i] /\ n + i \in 1..Len(sq) /\ j \in 1..Len(sq) /\ j # n + i
      BY <2>1, <2>5
    <3> QED
      BY <3>1, <3>2
  <2>10. \A e, f \in inflight' : e.buf = f.buf => e = f
    <3> TAKE e, f \in inflight'
    <3> HAVE e.buf = f.buf
    <3>1. PICK i, j \in 1..n : e = sq[i] /\ f = sq[j]
      BY <2>4
    <3>2. i = j
      BY <3>1
    <3> QED
      BY <3>1, <3>2
  <2> QED
    BY <2>6, <2>7, <2>8, <2>9, <2>10
<1>6. CASE KernelCompletes
  <2>1. sq' = sq /\ inflight' \subseteq inflight
    BY <1>6 DEF KernelCompletes, R!Complete
  <2> QED
    BY <2>1 DEF BuffersApart
<1>7. CASE UNCHANGED <<userArgs, handlerVars, ringVars>>
  BY <1>2, <1>7 DEF ringVars
<1> QED
  BY <1>3, <1>4, <1>5, <1>6, <1>7, OtherSteps DEF HandlerActs, RingUntouched

-----------------------------------------------------------------------------
LEMMA CountsStep ==
  ASSUME Inv, [Next]_vars
  PROVE  Counts'
<1>1. /\ userArgs' = userArgs
      /\ userArgs.oio \in Nat /\ userArgs.oio > 0
      /\ outstanding_requests \in Nat
      /\ Len(sq) \in Nat
      /\ total_requests_handled \in Nat /\ completed \in Nat
  BY ArgsUnchanged, ArgsTypes DEF Inv, TypeOK
<1>2. Counts /\ RingInv' /\ (report # <<>> => handler = "done")
  BY RingInvStep DEF Inv, Counts
<1> USE <1>1, <1>2 DEF Counts
<1>3. CASE HandlerStart \/ HandlerCallsPop \/ HandlerStop \/ HandlerPopped
  <2>1. /\ handler \in {"created", "loop", "popping"}
        /\ handler' \in {"loop", "popping", "request", "report"}
        /\ UNCHANGED <<total_requests_handled, completed, report, sq>>
    BY <1>3 DEF HandlerStart, HandlerCallsPop, HandlerStop, HandlerPopped, ringVars
  <2> QED
    BY <2>1 DEF Filling
<1>4. CASE HandleSetupFails \/ HandleWaitFails \/ HandlePrepareNull
  <2>1. /\ handler \in {"request", "wait"}
        /\ handler' \in {"failed", "crashed"}
        /\ UNCHANGED <<total_requests_handled, completed, report>>
    BY <1>4 DEF HandleSetupFails, HandleWaitFails, HandlePrepareNull, Return
  <2> QED
    BY <2>1 DEF Filling
<1>5. ASSUME NEW ok \in BOOLEAN, HandleSync(ok)
      PROVE  Counts'
  <2>1. userArgs.lib = "SYNCIO" /\ handler = "request" /\ report' = report
        /\ total_requests_handled' - total_requests_handled = completed' - completed
    BY <1>5 DEF HandleSync, CountRequest, Return
  <2>2. total_requests_handled' \in Nat /\ completed' \in Nat
    BY <1>5 DEF HandleSync, CountRequest, Return
  <2> QED
    BY <2>1, <2>2
<1>6. CASE HandleLibaio
  BY <1>6 DEF HandleLibaio
<1>7. CASE HandlePrepare
  <2>1. /\ Len(sq') = outstanding_requests /\ Len(sq) = outstanding_requests - 1
        /\ userArgs.lib = "IOURING" /\ handler = "request"
        /\ report' = report /\ completed' = completed
    BY <1>7, PrepareEffect DEF HandlePrepare, Inv, RingInv
  <2>2. total_requests_handled = completed + Len(sq)
    BY <2>1 DEF Filling
  <2>3. CASE BatchFull
    BY <1>7, <2>1, <2>2, <2>3 DEF HandlePrepare, BatchFull, Filling
  <2>4. CASE ~BatchFull
    BY <1>7, <2>1, <2>2, <2>4 DEF HandlePrepare, CountRequest, Filling
  <2> QED
    BY <2>3, <2>4
<1>8. CASE HandleSubmit
  <2>1. /\ handler = "submit" /\ handler' = "wait"
        /\ UNCHANGED <<total_requests_handled, completed, report>>
    BY <1>8 DEF HandleSubmit
  <2>2. userArgs.lib = "IOURING"
    BY <2>1 DEF Inv, RingInv
  <2> QED
    BY <2>1, <2>2 DEF Filling
<1>9. CASE HandleReap
  <2>1. userArgs.lib = "IOURING" /\ outstanding_requests = userArgs.oio
        /\ handler = "wait" /\ report' = report
        /\ total_requests_handled + 1 = completed + userArgs.oio
    BY <1>9 DEF HandleReap, Inv, RingInv, BatchBound
  <2>2. CASE R!FailedCqes = {}
    <3>1. /\ handler' = "loop" /\ outstanding_requests' = 0
          /\ total_requests_handled' = total_requests_handled + 1
          /\ completed' = completed + userArgs.oio
      BY <1>9, <2>1, <2>2 DEF HandleReap, CountRequest, BatchFull
    <3>2. Len(sq') = 0
      BY <2>1, <3>1 DEF RingInv
    <3> QED
      BY <2>1, <3>1, <3>2
  <2>3. CASE R!FailedCqes # {}
    BY <1>9, <2>1, <2>3 DEF HandleReap, Return, Filling
  <2> QED
    BY <2>2, <2>3
<1>10. CASE HandlerReport
  <2>1. /\ handler = "report" /\ handler' = "done"
        /\ UNCHANGED <<total_requests_handled, completed, sq>>
        /\ report'[1].op_cnt = total_requests_handled
    BY <1>10 DEF HandlerReport, OpCnt, ringVars
  <2> QED
    BY <2>1 DEF Filling
<1>11. CASE KernelCompletes
  BY <1>11 DEF KernelCompletes, R!Complete, handlerVars, Filling
<1>12. CASE UNCHANGED <<userArgs, handlerVars, ringVars>>
  BY <1>12 DEF handlerVars, ringVars, Filling
<1> QED
  BY <1>3, <1>4, <1>5, <1>6, <1>7, <1>8, <1>9, <1>10, <1>11, <1>12, OtherSteps
     DEF HandlerActs

LEMMA CrashStep ==
  ASSUME TypeOK, RingInv, CrashOnlyAboveDepth, [Next]_vars
  PROVE  CrashOnlyAboveDepth'
<1>1. userArgs' = userArgs /\ userArgs.oio \in Nat /\ Entries \in Nat
  BY ArgsUnchanged, ArgsTypes, BoundAssumption DEF TypeOK
<1>2. CASE HandlePrepareNull
  (* The ring is full and the batch is not: oio is more than its entries.  *)
  <2>1. Len(sq) = Entries /\ Len(sq) < userArgs.oio
    BY <1>2 DEF HandlePrepareNull, R!SqFull, RingInv, Filling
  <2> QED
    BY <1>1, <2>1 DEF CrashOnlyAboveDepth
<1>3. CASE handler' = handler
  BY <1>1, <1>3 DEF CrashOnlyAboveDepth
<1>4. CASE HandlerActs /\ ~HandlePrepareNull
  <2>1. handler' # "crashed"
    BY <1>4 DEF HandlerActs, HandlerStart, HandlerCallsPop, HandlerStop, HandlerPopped,
                HandleSync, HandleLibaio, HandleSetupFails, HandlePrepare, HandleSubmit,
                HandleReap, HandleWaitFails, HandlerReport, CountRequest, Return
  <2> QED
    BY <2>1 DEF CrashOnlyAboveDepth
<1> QED
  BY <1>2, <1>3, <1>4, OtherSteps DEF KernelCompletes, handlerVars

-----------------------------------------------------------------------------
(* Inv is inductive, the queue's types being WorkQueueProofs's.            *)
THEOREM Invariance == Spec => []Inv
<1>1. Init => Inv
  BY InitInv
<1>2. Inv /\ [Next]_vars /\ Q!TypeOK' => Inv'
  <2> SUFFICES ASSUME Inv, [Next]_vars, Q!TypeOK'
               PROVE  Inv'
    OBVIOUS
  <2> USE DEF Inv
  <2>1. TypeOK'
    BY TypeStep
  <2>2. InCalls' /\ BatchBound'
    BY InCallsStep, BatchBoundStep
  <2>3. InHand' /\ HandledInOrderOnce'
    BY InHandStep, InOrderStep
  <2>4. RingInv' /\ BuffersApart'
    BY RingInvStep, BuffersApartStep
  <2>5. Counts' /\ CrashOnlyAboveDepth'
    BY CountsStep, CrashStep
  <2> QED
    BY <2>1, <2>2, <2>3, <2>4, <2>5
<1> QED
  BY <1>1, <1>2, QueueTypes, PTL DEF Spec

(* Every variable keeps its type; in particular the clocks stop where the  *)
(* code no longer tells their values apart, and outstanding_requests never *)
(* leaves the range of the oio buffers it indexes.                         *)
THEOREM TypeCorrect == Spec => []TypeOK
BY Invariance, PTL DEF Inv

(* Every request is handled once, in the order it was produced.            *)
THEOREM HandledOnceInOrder == Spec => []HandledInOrderOnce
BY Invariance, PTL DEF Inv

(* The handler's loop starts with every operation counted either completed *)
(* or still only prepared.                                                 *)
THEOREM LoopAccounting == Spec => []CountedIsDoneOrPrepared
<1>1. Inv => CountedIsDoneOrPrepared
  BY DEF Inv, RingInv, Counts, Filling, CountedIsDoneOrPrepared
<1> QED
  BY <1>1, Invariance, PTL

(* SYNCIO and IOURING: OP_CNT is off by what was prepared and never        *)
(* submitted, nothing for the one and less than oio for the other.  With   *)
(* LIBAIO nothing is performed, whatever OP_CNT says.                      *)
THEOREM ReportIsClose == Spec => []ReportWithinBatch
<1>1. Inv => ReportWithinBatch
  <2> SUFFICES ASSUME Inv, report # <<>>, userArgs.lib # "LIBAIO"
               PROVE  report[1].op_cnt - completed \in 0..(Batch - 1)
    BY DEF ReportWithinBatch
  <2>1. handler = "done" /\ report[1].op_cnt = total_requests_handled
    BY DEF Inv, Counts
  <2>2. /\ userArgs.lib \in Libs /\ userArgs.oio \in Nat
        /\ total_requests_handled \in Nat /\ completed \in Nat /\ Len(sq) \in Nat
    BY ArgsTypes DEF Inv, TypeOK
  <2>3. CASE userArgs.lib = "SYNCIO"
    <3>1. total_requests_handled = completed
      BY <2>1, <2>3 DEF Inv, Counts
    <3> QED
      BY <2>1, <2>2, <2>3, <3>1 DEF Batch
  <2>4. CASE userArgs.lib = "IOURING"
    <3>1. total_requests_handled = completed + Len(sq) /\ Len(sq) < userArgs.oio
      BY <2>1, <2>4 DEF Inv, Counts, RingInv, Filling
    <3> QED
      BY <2>1, <2>2, <2>4, <3>1 DEF Batch
  <2> QED
    BY <2>2, <2>3, <2>4 DEF Libs
<1> QED
  BY <1>1, Invariance, PTL

(* No registered buffer is in the hands of two operations at a time.       *)
THEOREM BuffersStayExclusive == Spec => []BuffersExclusive
<1>1. Inv => BuffersExclusive
  <2> SUFFICES ASSUME Inv
               PROVE  BuffersExclusive
    OBVIOUS
  <2> DEFINE live == {sq[i] : i \in 1..Len(sq)} \cup inflight
  <2>1. ASSUME NEW a \in live, NEW b \in live, a.buf = b.buf
        PROVE  a = b
    <3>1. (\E i \in 1..Len(sq) : a = sq[i]) \/ a \in inflight
      OBVIOUS
    <3>2. (\E j \in 1..Len(sq) : b = sq[j]) \/ b \in inflight
      OBVIOUS
    <3> QED
      BY <2>1, <3>1, <3>2 DEF Inv, BuffersApart
  <2>2. \A a \in live : a.buf < userArgs.oio
    BY DEF Inv, BuffersApart
  <2> QED
    BY <2>1, <2>2 DEF BuffersExclusive
<1> QED
  BY <1>1, Invariance, PTL

(* The handler writes through a NULL submission entry only for an oio      *)
(* above the depth it gave the ring.                                       *)
THEOREM CrashNeedsDepth == Spec => []CrashOnlyAboveDepth
BY Invariance, PTL DEF Inv
=============================================================================
