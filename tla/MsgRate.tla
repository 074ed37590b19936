------------------------------ MODULE MsgRate ------------------------------
(***************************************************************************)
(* The message-rate benchmark of src/src/msg_rate.cpp: a producer thread   *)
(* pushes an I/O request every message_interval for runtime seconds, and a *)
(* handler thread pops the requests and performs them with the library the *)
(* user chose, in batches of oio operations for io_uring.                  *)
(*                                                                         *)
(* A request is the producer's iteration number; its random offset and the *)
(* buffer contents are left out.  Durations are in clock ticks; what a     *)
(* thread measures with getTime() - start is a timer that stops where the  *)
(* code no longer tells its values apart.                                  *)
(***************************************************************************)
EXTENDS Integers, Sequences, FiniteSets

CONSTANTS Args,     \* user arguments: [lib, oio, runtime, message_interval]
          SECOND,   \* clock ticks per second
          Entries,  \* slots of the ring's submission queue
          MaxIter   \* bound of the model: the most requests produced

Libs == {"SYNCIO", "LIBAIO", "IOURING"}

ASSUME ArgsAssumption ==
  \A a \in Args : /\ a.lib \in Libs
                  /\ a.oio \in Nat \ {0}
                  /\ a.runtime \in Nat \ {0}
                  /\ a.message_interval \in Nat
ASSUME BoundAssumption ==
  /\ SECOND \in Nat \ {0}
  /\ Entries \in Nat \ {0}
  /\ MaxIter \in Nat \ {0}

VARIABLES
  userArgs,                           \* the arguments main parsed
  work, work_mutex, io_request, was_empty, push, pop, notified, popped,
  waited, blocked,                    \* the WorkQueue, see that module
  producer, iter, ran, slept,         \* _io_request_producer
  handler, outstanding_requests, total_requests_handled,
  args_set,                           \* the handler's args hold the user's
  served,                             \* its getTime() - start
  sq, inflight, cq,                   \* its ring, see module IoUring
  completed,                          \* I/O operations that succeeded
  report                              \* the line it prints, once it has

Q == INSTANCE WorkQueue WITH Request <- 0..(MaxIter - 1), Sentinel <- -1,
                             MaxWork <- MaxIter
R == INSTANCE IoUring

queueVars == <<work, work_mutex, io_request, was_empty, push, pop, notified, popped,
               waited, blocked>>
ringVars == <<sq, inflight, cq>>
producerVars == <<producer, iter, slept>>
handlerVars == <<handler, outstanding_requests, total_requests_handled,
                 args_set, completed, report>>
clocks == <<ran, served>>
vars == <<userArgs, queueVars, producerVars, handlerVars, clocks, ringVars>>

RunTicks == userArgs.runtime * SECOND

(* runMessageRateBenchmark creates the two threads, which start in any order. *)
Init ==
  /\ userArgs \in Args
  /\ Q!Init
  /\ R!RingInit
  /\ producer = "created" /\ handler = "created"
  /\ iter = 0
  /\ outstanding_requests = 0
  /\ total_requests_handled = 0
  /\ args_set = FALSE
  /\ completed = 0
  /\ report = <<>>
  /\ ran = 0 /\ slept = 0 /\ served = 0

-----------------------------------------------------------------------------
(* _io_request_producer *)

ProducerStart ==
  /\ producer = "created"
  /\ producer' = "loop"
  /\ ran' = 0
  /\ UNCHANGED <<userArgs, queueVars, iter, slept, handlerVars, served, ringVars>>

(* Mutant: ++iter for iter++. *)
ProducerPushNext ==
  /\ producer = "loop"
  /\ ran < RunTicks
  /\ iter < MaxIter
  /\ Q!PushLock(iter + 1)
  /\ iter' = iter + 1
  /\ producer' = "pushing"
  /\ UNCHANGED <<userArgs, slept, handlerVars, clocks, ringVars>>

ProducerPush ==
  /\ producer = "loop"
  /\ ran < RunTicks
  /\ iter < MaxIter
  /\ Q!PushLock(iter)
  /\ iter' = iter + 1
  /\ producer' = "pushing"
  /\ UNCHANGED <<userArgs, slept, handlerVars, clocks, ringVars>>

ProducerInsidePush ==
  /\ producer = "pushing"
  /\ Q!PushTest \/ Q!PushAppend
  /\ UNCHANGED <<userArgs, producerVars, handlerVars, clocks, ringVars>>

ProducerPushed ==
  /\ producer = "pushing"
  /\ Q!PushNotify
  /\ producer' = IF userArgs.message_interval # 0 THEN "sleeping" ELSE "loop"
  /\ slept' = 0
  /\ UNCHANGED <<userArgs, iter, handlerVars, clocks, ringVars>>

ProducerWakes ==
  /\ producer = "sleeping"
  /\ slept >= userArgs.message_interval
  /\ producer' = "loop"
  /\ UNCHANGED <<userArgs, queueVars, iter, slept, handlerVars, clocks, ringVars>>

ProducerStop ==
  /\ producer = "loop"
  /\ ran >= RunTicks
  /\ producer' = "done"
  /\ UNCHANGED <<userArgs, queueVars, iter, slept, handlerVars, clocks, ringVars>>

-----------------------------------------------------------------------------
(* _io_request_handler *)

(* outstanding_requests has reached oio: a batch is complete. *)
BatchOverfull == outstanding_requests > userArgs.oio  \* mutant
BatchFull == outstanding_requests = userArgs.oio

SubmitIndexOffByOne == outstanding_requests  \* mutant
submit_index == outstanding_requests - 1

(* How many completions io_uring_wait_cqe_nr waits for, and how many the   *)
(* handler advances over.                                                  *)
OneMoreThanBatch == outstanding_requests + 1  \* mutant
WaitNr == outstanding_requests
OneLessThanBatch == outstanding_requests - 1  \* mutant
AdvanceNr == outstanding_requests

(* The OP_CNT printed. *)
OpCntWithOutstanding == total_requests_handled + outstanding_requests  \* mutant
OpCnt == total_requests_handled

HandlerStart ==
  /\ handler = "created"
  /\ handler' = "loop"
  /\ served' = 0
  /\ UNCHANGED <<userArgs, queueVars, producerVars, outstanding_requests,
                 total_requests_handled, args_set, completed, report, ran, ringVars>>

(* The loop's condition compares with one second, whatever the runtime. *)
HandlerCallsPop ==
  /\ handler = "loop"
  /\ served < SECOND
  /\ Q!PopLock
  /\ handler' = "popping"
  /\ UNCHANGED <<userArgs, producerVars, outstanding_requests,
                 total_requests_handled, args_set, completed, report, clocks, ringVars>>

HandlerStop ==
  /\ handler = "loop"
  /\ served >= SECOND
  /\ handler' = "report"
  /\ UNCHANGED <<userArgs, queueVars, producerVars, outstanding_requests,
                 total_requests_handled, args_set, completed, report, clocks, ringVars>>

HandlerInsidePop ==
  /\ handler = "popping"
  /\ Q!PopInside
  /\ UNCHANGED <<userArgs, producerVars, handlerVars, clocks, ringVars>>

HandlerWakesSpuriously ==
  /\ handler = "popping"
  /\ Q!PopWakesSpuriously
  /\ UNCHANGED <<userArgs, producerVars, handlerVars, clocks, ringVars>>

(* wait_and_pop returns; args is assigned before the sentinel is looked at, *)
(* and the sentinel's args were never initialised.                          *)
HandlerPopped ==
  /\ handler = "popping"
  /\ outstanding_requests' = outstanding_requests + 1
  /\ \/ Q!PopTake /\ args_set' = TRUE /\ handler' = "request"
     \/ Q!PopGiveUp /\ args_set' = FALSE /\ handler' = "report"
  /\ UNCHANGED <<userArgs, producerVars, total_requests_handled, completed,
                 report, clocks, ringVars>>

(* The end of the loop's body. *)
CountRequestNoReset ==  \* mutant
  /\ total_requests_handled' = total_requests_handled + 1
  /\ handler' = "loop"
  /\ UNCHANGED outstanding_requests

CountRequest ==
  /\ total_requests_handled' = total_requests_handled + 1
  /\ outstanding_requests' = IF BatchFull THEN 0 ELSE outstanding_requests
  /\ handler' = "loop"

Return ==
  /\ handler' = "failed"
  /\ UNCHANGED <<outstanding_requests, total_requests_handled>>

HandleSync(ok) ==
  /\ handler = "request" /\ userArgs.lib = "SYNCIO"
  /\ IF ok THEN CountRequest /\ completed' = completed + 1
           ELSE Return /\ UNCHANGED completed
  /\ UNCHANGED <<userArgs, queueVars, producerVars, args_set, report, clocks, ringVars>>

(* case LIBAIO: break; nothing is performed, and the request is counted. *)
HandleLibaio ==
  /\ handler = "request" /\ userArgs.lib = "LIBAIO"
  /\ CountRequest
  /\ UNCHANGED <<userArgs, queueVars, producerVars, args_set, completed, report,
                 clocks, ringVars>>

(* io_uring_queue_init or io_uring_register_buffers fails. *)
HandleSetupFails ==
  /\ handler = "request" /\ userArgs.lib = "IOURING"
  /\ total_requests_handled = 0
  /\ Return
  /\ UNCHANGED <<userArgs, queueVars, producerVars, args_set, completed, report,
                 clocks, ringVars>>

(* The request is prepared in the buffer at submit_index; the batch is     *)
(* submitted only when it has oio requests.                                *)
HandlePrepare ==
  /\ handler = "request" /\ userArgs.lib = "IOURING"
  /\ R!Prepare([buf |-> submit_index, req |-> popped])
  /\ IF BatchFull
     THEN /\ handler' = "submit"
          /\ UNCHANGED <<outstanding_requests, total_requests_handled>>
     ELSE CountRequest
  /\ UNCHANGED <<userArgs, queueVars, producerVars, args_set, completed, report, clocks>>

(* io_uring_get_sqe returns NULL and io_uring_prep_* writes through it. *)
HandlePrepareNull ==
  /\ handler = "request" /\ userArgs.lib = "IOURING"
  /\ R!SqFull
  /\ handler' = "crashed"
  /\ UNCHANGED <<userArgs, queueVars, producerVars, outstanding_requests,
                 total_requests_handled, args_set, completed, report, clocks, ringVars>>

(* io_uring_submit's result is overwritten: a short submission goes on. *)
HandleSubmit ==
  /\ handler = "submit"
  /\ \E n \in 0..Len(sq) : R!Submit(n)
  /\ handler' = "wait"
  /\ UNCHANGED <<userArgs, queueVars, producerVars, outstanding_requests,
                 total_requests_handled, args_set, completed, report, clocks>>

(* io_uring_wait_cqe_nr has all it waits for; a failed completion ends the *)
(* thread before the queue is advanced.                                    *)
HandleReap ==
  /\ handler = "wait"
  /\ Len(cq) >= WaitNr
  /\ IF R!FailedCqes = {}
     THEN /\ R!Advance(AdvanceNr)
          /\ CountRequest
          /\ completed' = completed + outstanding_requests
     ELSE Return /\ UNCHANGED <<completed, ringVars>>
  /\ UNCHANGED <<userArgs, queueVars, producerVars, args_set, report, clocks>>

(* io_uring_wait_cqe_nr returns an error. *)
HandleWaitFails ==
  /\ handler = "wait"
  /\ Return
  /\ UNCHANGED <<userArgs, queueVars, producerVars, args_set, completed, report,
                 clocks, ringVars>>

(* The printed arguments are the handler's: indeterminate if not set. *)
HandlerReport ==
  /\ handler = "report"
  /\ \E lib \in Libs :
       /\ args_set => lib = userArgs.lib
       /\ report' = <<[lib |-> lib, op_cnt |-> OpCnt]>>
  /\ handler' = "done"
  /\ UNCHANGED <<userArgs, queueVars, producerVars, outstanding_requests,
                 total_requests_handled, args_set, completed, clocks, ringVars>>

-----------------------------------------------------------------------------
KernelCompletes ==
  /\ \E e \in inflight, ok \in BOOLEAN : R!Complete(e, ok)
  /\ UNCHANGED <<userArgs, queueVars, producerVars, handlerVars, clocks>>

(* Time passes, for every timer somebody is going to read. *)
Tick ==
  /\ Q!TickTimers
  /\ ran' = IF producer \in {"created", "done"} THEN ran ELSE Q!Upto(ran, RunTicks)
  /\ slept' = IF producer = "sleeping"
              THEN Q!Upto(slept, userArgs.message_interval) ELSE slept
  /\ served' = IF handler \in {"created", "report", "done", "failed"}
               THEN served ELSE Q!Upto(served, RunTicks)
  /\ <<waited, blocked, ran, slept, served>>' # <<waited, blocked, ran, slept, served>>
  /\ UNCHANGED <<userArgs, work, work_mutex, io_request, was_empty, push, pop,
                 notified, popped, producer, iter, handlerVars, ringVars>>

ProducerStep ==
  ProducerStart \/ ProducerPush \/ ProducerInsidePush \/ ProducerPushed
  \/ ProducerWakes \/ ProducerStop

HandlerStep ==
  \/ HandlerStart \/ HandlerCallsPop \/ HandlerStop
  \/ HandlerInsidePop \/ HandlerPopped
  \/ \E ok \in BOOLEAN : HandleSync(ok)
  \/ HandleLibaio
  \/ HandlePrepare \/ HandlePrepareNull \/ HandleSubmit \/ HandleReap
  \/ HandlerReport

Finished ==
  \/ producer = "done" /\ handler \in {"done", "failed"}
  \/ handler = "crashed"

(* Both joins have returned, or the process is dead. *)
Join == Finished /\ UNCHANGED vars

Alive == handler # "crashed"

Next ==
  \/ Alive /\ ProducerStep
  \/ Alive /\ HandlerStep
  \/ Alive /\ HandlerWakesSpuriously
  \/ Alive /\ HandleSetupFails
  \/ Alive /\ HandleWaitFails
  \/ Alive /\ KernelCompletes
  \/ Alive /\ Tick
  \/ Join

Spec == Init /\ [][Next]_vars

(* Threads that can run are run, time passes and the kernel completes what *)
(* it has taken; nothing obliges calls to fail or waits to end early.      *)
FairSpec ==
  /\ Spec
  /\ WF_vars(Alive /\ ProducerStep)
  /\ WF_vars(Alive /\ HandlerStep)
  /\ WF_vars(Alive /\ KernelCompletes)
  /\ WF_vars(Alive /\ Tick)

-----------------------------------------------------------------------------
Sqe == [buf : Nat, req : 0..(MaxIter - 1)]

TypeOK ==
  /\ userArgs \in Args
  /\ Q!TypeOK
  /\ producer \in {"created", "loop", "pushing", "sleeping", "done"}
  /\ iter \in 0..MaxIter
  /\ ran \in 0..RunTicks
  /\ slept \in 0..userArgs.message_interval
  /\ handler \in {"created", "loop", "popping", "request", "submit", "wait",
                  "report", "done", "failed", "crashed"}
  /\ outstanding_requests \in 0..userArgs.oio
  /\ total_requests_handled \in Nat
  /\ args_set \in BOOLEAN
  /\ served \in 0..RunTicks
  /\ sq \in Seq(Sqe)
  /\ inflight \subseteq Sqe
  /\ cq \in Seq([sqe : Sqe, ok : BOOLEAN])
  /\ completed \in Nat
  /\ report \in Seq([lib : Libs, op_cnt : Nat]) /\ Len(report) <= 1

(* Requests taken from the queue by now: those counted, and the one in hand. *)
Taken ==
  total_requests_handled
    + (IF handler \in {"request", "submit", "wait", "failed", "crashed"} THEN 1 ELSE 0)

(* Requests put into the queue by now. *)
Pushed == iter - (IF push \in {"locked", "tested"} THEN 1 ELSE 0)

(* Every request produced is handled once and in the order of production:  *)
(* the queue always holds exactly those between the last one taken and the *)
(* last one pushed, whichever thread is ahead and however waits end.       *)
HandledInOrderOnce == work = [i \in 1..(Pushed - Taken) |-> Taken + i - 1]

(* io_uring: at the top of the loop the handler has counted the operations *)
(* that completed plus the ones it has only prepared, and nothing is left  *)
(* with the kernel or in the completion queue.                             *)
CountedIsDoneOrPrepared ==
  handler = "loop" /\ userArgs.lib = "IOURING"
    => /\ total_requests_handled = completed + Len(sq)
       /\ Len(sq) = outstanding_requests
       /\ inflight = {} /\ cq = <<>>

(* SYNCIO and IOURING: the printed OP_CNT is the operations done and less  *)
(* than a batch more, and a batch of SYNCIO is one operation.  It is not   *)
(* claimed of LIBAIO, which counts every request and performs none, see    *)
(* HandleLibaio: its OP_CNT is off by all of it.                           *)
Batch == IF userArgs.lib = "IOURING" THEN userArgs.oio ELSE 1

ReportWithinBatch ==
  report # <<>> /\ userArgs.lib # "LIBAIO"
    => report[1].op_cnt - completed \in 0..(Batch - 1)

(* No two operations that are prepared or in the kernel's hands use the    *)
(* same registered buffer, and each uses one of the oio registered.        *)
BuffersExclusive ==
  LET live == {sq[i] : i \in 1..Len(sq)} \cup inflight IN
    /\ \A a, b \in live : a.buf = b.buf => a = b
    /\ \A a \in live : a.buf < userArgs.oio

(* io_uring_get_sqe has a free slot for each of a batch of up to Entries:  *)
(* only a larger oio makes the handler write through the NULL it returns.  *)
CrashOnlyAboveDepth == handler = "crashed" => userArgs.oio > Entries

(* Both threads end, whatever fails and however the waits interleave with  *)
(* the one-second limits.  The one way to hang is a submission of which    *)
(* the kernel took only a part: the handler then waits for the rest.       *)
EndsUnlessCutShort == <>(Finished \/ (handler = "wait" /\ sq # <<>>))
-----------------------------------------------------------------------------
(* README.md:59 "--runtime <runtime in seconds>": a handler that stops by  *)
(* its own loop condition has served requests for the runtime.             *)
ServesForRuntime ==
  handler = "report" /\ args_set => served >= RunTicks

(* README.md:56 "--lib <syncio|libaio|liburing>" with README.md:61         *)
(* "--btype <normal|stress|msg>": the OP_CNT of a library's run counts     *)
(* operations that library performed.                                      *)
OpCountIsDone == report # <<>> => report[1].op_cnt = completed

(* README.md:56: the line printed names the library the user chose.        *)
ReportNamesLib == report # <<>> => report[1].lib = userArgs.lib
=============================================================================
