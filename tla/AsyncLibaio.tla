---------------------------- MODULE AsyncLibaio ----------------------------
(***************************************************************************)
(* One thread of the libaio engine (src/src/async_libaio.cpp) with its AIO *)
(* context: _async_libaio, _async_libaio_vectored and _async_libaio_stress *)
(* and the choice among them.  They share one loop: submit oio iocbs,      *)
(* compute the next offsets, wait for oio events, look at their results.   *)
(*                                                                         *)
(* io_submit may take only the first of the iocbs, and io_getevents may    *)
(* time out with fewer events than it was asked for; the code goes on in   *)
(* both cases, and the functions differ in what they count then.           *)
(*                                                                         *)
(* The model is of sequential mode: random offsets are of no consequence   *)
(* to the loop.  What the kernel reads in timeout.tv_nsec is indeterminate *)
(* and never written: wait_limit is what it makes of the one second.       *)
(***************************************************************************)
EXTENDS Offsets, FiniteSets

CONSTANTS Args,       \* [benchmark_type, vec_size, oio, runtime, read_offset, max_offset]
          BufferSize, \* bytes of one buffer
          MaxRounds   \* bound of the model: the most calls of io_submit

ASSUME ArgsAssumption ==
  \A a \in Args : /\ a.benchmark_type \in {"NORMAL", "STRESS"}
                  /\ a.vec_size \in Nat
                  /\ a.oio \in Nat \ {0}
                  /\ a.runtime \in Nat \ {0}
                  /\ a.read_offset \in Nat
                  /\ a.max_offset \in Nat \ {0}
ASSUME BoundAssumption ==
  /\ BufferSize \in Nat \ {0}
  /\ MaxRounds \in Nat

VARIABLES
  args,
  pc,
  offsets,                                 \* of the next iocbs
  ops_submitted, ops_returned, ops_failed,
  benchmark_iteration, benchmark_opcount, benchmark_offset,
  expired,                                 \* the while loop's time is over
  wait_limit,                              \* "finite" or "endless"
  inflight, events,                        \* the context, see AioContext
  op_count,                                \* of the result, -1 before it
  (* History, not in the code. *)
  rounds,                                  \* calls of io_submit
  taken,                                   \* what the last one returned
  short_submit,                            \* one returned less than oio
  short_wait,                              \* a wait returned less than taken
  succeeded,                               \* operations completed with res >= 0
  due                                      \* offset after the last one submitted

Ctx == INSTANCE AioContext

ctxVars == <<inflight, events>>
counters == <<ops_submitted, ops_returned, ops_failed>>
benchVars == <<benchmark_iteration, benchmark_opcount, benchmark_offset>>
history == <<rounds, taken, short_submit, short_wait, due>>
vars == <<args, pc, offsets, counters, benchVars, expired, wait_limit, ctxVars,
          op_count, succeeded, history>>

Stress == args.benchmark_type = "STRESS"
Vectored == args.benchmark_type = "NORMAL" /\ args.vec_size > 0

(* Blocks of an iocb. *)
Blocks == IF Vectored THEN args.vec_size ELSE 1

(* Bytes of an iocb. *)
Bytes == Blocks * BufferSize

Slots == 0..(args.oio - 1)

OffsetsPerIocb(initial, submitted) ==  \* mutant: an iocb is one block, vectored too
  [i \in Slots |-> getOffset(args.max_offset, initial, BufferSize, submitted + i)]
OffsetsFrom(initial, submitted) ==
  [i \in Slots |-> getOffset(args.max_offset, initial, BufferSize, submitted + i * Blocks)]

Init ==
  /\ args \in Args
  /\ pc = "setup"
  /\ offsets = OffsetsFrom(args.read_offset, 0)
  /\ ops_submitted = 0 /\ ops_returned = 0 /\ ops_failed = 0
  /\ benchmark_iteration = 0 /\ benchmark_opcount = 0 /\ benchmark_offset = 0
  /\ expired = FALSE
  /\ wait_limit \in {"finite", "endless"}
  /\ Ctx!CtxInit
  /\ op_count = -1
  /\ succeeded = 0
  /\ rounds = 0 /\ taken = 0
  /\ short_submit = FALSE /\ short_wait = FALSE
  /\ due = offsets[0]

-----------------------------------------------------------------------------
(* What a submission of k iocbs adds to ops_submitted. *)
SubmittedAsAsked(k) == args.oio * Blocks  \* mutant: not what was taken
SubmittedBy(k) == IF Vectored THEN args.oio * args.vec_size ELSE k

(* What a wait that returned n events adds to ops_returned, and to         *)
(* ops_failed if bad of them have failed.                                  *)
ReturnedAsAsked(n) == args.oio * Blocks  \* mutant: not what came back
ReturnedPerEvent(n) == n  \* mutant: an event is one operation, vectored too
ReturnedBy(n) == IF Vectored THEN args.oio * args.vec_size ELSE n

FailedPerEvent(bad) == bad  \* mutant: a failure is one operation, vectored too
FailedBy(bad) == bad * Blocks

(* op_count of the result. *)
ResultSwapped == ops_failed - ops_returned  \* mutant: operands swapped
ResultOfReturned == ops_returned            \* mutant: failures not subtracted
ResultNoRate ==                             \* mutant: not divided by the runtime
  IF Stress THEN benchmark_opcount ELSE ops_returned - ops_failed
ResultCount == IF Stress THEN benchmark_opcount \div args.runtime
               ELSE ops_returned - ops_failed

(* io_setup *)
Setup ==
  /\ pc = "setup"
  /\ pc' = IF Stress THEN "iteration" ELSE "loop"
  /\ UNCHANGED <<args, offsets, counters, benchVars, expired, wait_limit, ctxVars,
                 op_count, succeeded, history>>

(* A system call returns an error: return_error(), with no io_destroy. *)
CallFails ==
  /\ pc \in {"setup", "loop", "wait", "destroy"}
  /\ pc = "loop" => ~expired
  /\ pc = "destroy" => inflight = {}
  /\ pc' = "failed"
  /\ op_count' = 0
  /\ UNCHANGED <<args, offsets, counters, benchVars, expired, wait_limit, ctxVars,
                 succeeded, history>>

(* The outer loop of the stress benchmark: counters start again at zero    *)
(* and offsets are computed from the last of the pending ones.             *)
StartIteration ==
  /\ pc = "iteration"
  /\ benchmark_iteration < args.runtime
  /\ ops_submitted' = 0 /\ ops_returned' = 0 /\ ops_failed' = 0
  /\ benchmark_offset' = offsets[args.oio - 1]
  /\ expired' = FALSE
  /\ pc' = "loop"
  /\ UNCHANGED <<args, offsets, benchmark_iteration, benchmark_opcount, wait_limit,
                 ctxVars, op_count, succeeded, history>>

EndIterations ==
  /\ pc = "iteration"
  /\ benchmark_iteration >= args.runtime
  /\ pc' = "destroy"
  /\ UNCHANGED <<args, offsets, counters, benchVars, expired, wait_limit, ctxVars,
                 op_count, succeeded, history>>

(* io_submit takes the first k iocbs, and the next offsets are computed.   *)
SubmitRound(k) ==
  /\ pc = "loop" /\ ~expired
  /\ rounds < MaxRounds
  /\ Ctx!Take({[slot |-> i, round |-> rounds] : i \in 0..(k - 1)})
  /\ ops_submitted' = ops_submitted + SubmittedBy(k)
  /\ offsets' = OffsetsFrom(IF Stress THEN benchmark_offset ELSE args.read_offset,
                            ops_submitted')
  /\ rounds' = rounds + 1
  /\ taken' = k
  /\ short_submit' = (short_submit \/ k < args.oio)
  /\ due' = getOffset(args.max_offset, offsets[k - 1], BufferSize, Blocks)
  /\ UNCHANGED <<args, ops_returned, ops_failed, benchVars, expired, wait_limit,
                 op_count, succeeded, short_wait>>

(* Mutant: a submission cut short is followed by another, without a wait.  *)
SubmitRetriesShort(k) ==
  SubmitRound(k) /\ pc' = (IF k < args.oio THEN "loop" ELSE "wait")

Submit(k) == SubmitRound(k) /\ pc' = "wait"

(* io_getevents returns good + bad events, and their results are counted.  *)
Count(good, bad) ==
  /\ Ctx!Collect(good, bad)
  /\ ops_returned' = ops_returned + ReturnedBy(good + bad)
  /\ ops_failed' = ops_failed + FailedBy(bad)
  /\ pc' = "loop"
  /\ short_wait' = (short_wait \/ good + bad < taken)
  /\ UNCHANGED <<args, offsets, ops_submitted, benchVars, expired, wait_limit,
                 op_count, succeeded, rounds, taken, short_submit, due>>

(* Mutant: the wait is for one event more than there can be. *)
GetEventsOneMore(good, bad) ==
  /\ pc = "wait"
  /\ good + bad = args.oio + 1
  /\ Count(good, bad)

(* There are oio events to collect. *)
GetEvents(good, bad) ==
  /\ pc = "wait"
  /\ good + bad = args.oio
  /\ Count(good, bad)

(* The timeout is over: all the events there are, fewer than oio. *)
GetEventsTimesOut ==
  /\ pc = "wait"
  /\ wait_limit = "finite"
  /\ Ctx!Pending < args.oio
  /\ Count(events.ok, events.failed)

LoopEnd ==
  /\ pc = "loop" /\ expired
  /\ IF Stress
     THEN /\ benchmark_opcount' = benchmark_opcount + (ops_returned - ops_failed)
          /\ benchmark_iteration' = benchmark_iteration + 1
          /\ pc' = "iteration"
     ELSE /\ pc' = "destroy"
          /\ UNCHANGED <<benchmark_opcount, benchmark_iteration>>
  /\ UNCHANGED <<args, offsets, counters, benchmark_offset, expired, wait_limit,
                 ctxVars, op_count, succeeded, history>>

(* io_destroy waits for what is still in flight; events not collected are gone. *)
Destroy ==
  /\ pc = "destroy"
  /\ inflight = {}
  /\ op_count' = ResultCount
  /\ pc' = "done"
  /\ UNCHANGED <<args, offsets, counters, benchVars, expired, wait_limit, ctxVars,
                 succeeded, history>>

-----------------------------------------------------------------------------
KernelCompletes(op, ok) ==
  /\ Ctx!Complete(op, ok)
  /\ succeeded' = succeeded + (IF ok THEN 1 ELSE 0)
  /\ UNCHANGED <<args, pc, offsets, counters, benchVars, expired, wait_limit,
                 op_count, history>>

(* getTime() - start reaches the runtime, or the iteration's second. *)
Expire ==
  /\ pc \in {"loop", "wait"}
  /\ expired = FALSE
  /\ expired' = TRUE
  /\ UNCHANGED <<args, pc, offsets, counters, benchVars, wait_limit, ctxVars,
                 op_count, succeeded, history>>

Return == pc \in {"done", "failed"} /\ UNCHANGED vars

Step ==
  \/ Setup
  \/ StartIteration \/ EndIterations
  \/ \E k \in 1..args.oio : Submit(k)
  \/ \E good, bad \in 0..args.oio : GetEvents(good, bad)
  \/ LoopEnd
  \/ Destroy

Kernel == \E op \in inflight, ok \in BOOLEAN : KernelCompletes(op, ok)

Next ==
  \/ Step
  \/ GetEventsTimesOut
  \/ CallFails
  \/ Kernel
  \/ Expire
  \/ Return

Spec == Init /\ [][Next]_vars

(* The thread runs when it can, the kernel completes what it has taken,    *)
(* and time passes, for the loop and for a wait that has a limit.          *)
FairSpec ==
  /\ Spec
  /\ WF_vars(Step) /\ WF_vars(Kernel)
  /\ WF_vars(Expire) /\ WF_vars(GetEventsTimesOut)

-----------------------------------------------------------------------------
Op == [slot : Nat, round : Nat]

TypeOK ==
  /\ args \in Args
  /\ pc \in {"setup", "iteration", "loop", "wait", "destroy", "done", "failed"}
  /\ offsets \in [Slots -> Nat]
  /\ ops_submitted \in Nat /\ ops_returned \in Nat /\ ops_failed \in Nat
  /\ benchmark_iteration \in Nat
  /\ benchmark_opcount \in Nat
  /\ benchmark_offset \in Nat
  /\ expired \in BOOLEAN
  /\ wait_limit \in {"finite", "endless"}
  /\ inflight \subseteq Op
  /\ IsFiniteSet(inflight)
  /\ events \in [ok : Nat, failed : Nat]
  /\ op_count \in Nat \cup {-1}
  /\ rounds \in Nat
  /\ taken \in 0..args.oio
  /\ short_submit \in BOOLEAN /\ short_wait \in BOOLEAN
  /\ succeeded \in Nat
  /\ due \in Nat

(* The unsigned subtractions ops_returned - ops_failed never wrap, though  *)
(* the stress counters are reset with operations outstanding and the       *)
(* vectored ones are advanced by what was asked for, not by what came.     *)
NoUnderflow == ops_failed <= ops_returned

(* What the ops counters of the present iteration stand for. *)
Counted ==
  (IF Stress THEN benchmark_opcount ELSE 0)
    + (IF Stress /\ pc \notin {"loop", "wait"} THEN 0 ELSE ops_returned - ops_failed)

(* Plain and stress: every operation that succeeded is counted once, in    *)
(* some iteration, or is an event still to be collected: none is lost or   *)
(* repeated across cut submissions, timeouts and resets of the counters.   *)
CountsEachSuccessOnce ==
  ~Vectored /\ pc # "failed" => succeeded = Counted + events.ok

(* Plain: what was submitted has returned or is with the kernel.           *)
SubmittedIsReturnedOrPending ==
  ~Vectored /\ ~Stress
    => ops_submitted = ops_returned + Cardinality(inflight) + Ctx!Pending

(* Vectored: counting oio operations of vec_size blocks a round is right   *)
(* as long as no submission and no wait came back with less.               *)
VectoredCountExact ==
  Vectored /\ ~short_submit /\ ~short_wait
    => ops_returned - ops_failed = args.vec_size * (succeeded - events.ok)

(* No two operations in flight use the same buffer, as long as every wait  *)
(* returned as many events as the submission before it had operations.     *)
BuffersExclusive ==
  ~short_wait => \A a, b \in inflight : a.slot = b.slot => a = b

(* NORMAL: each submission goes on in the file where the one before ended, *)
(* also when that was cut short; the vectored loop needs it not to be.     *)
SequentialWithoutGaps ==
  pc = "loop" /\ ~Stress /\ (Vectored => ~short_submit) => offsets[0] = due

(* On a file of whole operations, with a thread that begins at one, none   *)
(* reaches over the end of the file.  So none is cut short there and       *)
(* counted as a whole one, because only the sign of res is looked at: not  *)
(* over the end, after a cut submission, nor in a later stress iteration.  *)
TransfersWhole ==
  args.max_offset % Bytes = 0 /\ args.read_offset % Bytes = 0
    => \A i \in Slots : offsets[i] + Bytes <= args.max_offset

(* The result never counts more than was done.                             *)
ResultIsDone ==
  pc = "done" /\ (Vectored => ~short_submit /\ ~short_wait)
    => op_count * (IF Stress THEN args.runtime ELSE 1) <= succeeded * Blocks

(* The blocks that the events collected stand for. *)
Done == Blocks * (succeeded - events.ok)

(* The thread gives one result, computed from the events it has collected, *)
(* as an Engine; the vectored function while nothing is cut short.         *)
Stage == CASE pc = "done"   -> "returned"
           [] pc = "failed" -> "failed"
           [] OTHER         -> "working"
E == INSTANCE Engine WITH stage <- Stage, done <- Done,
                          seconds <- IF Stress THEN args.runtime ELSE 1
ImplementsEngine ==
  /\ E!Init
  /\ [][(Vectored => ~short_submit /\ ~short_wait) => [E!Next]_(E!vars)]_vars

(* The function returns, whatever fails or times out.  The one way to hang *)
(* is a submission cut short with a wait that the garbage in tv_nsec made  *)
(* endless.                                                                *)
Stuck ==
  /\ pc = "wait" /\ wait_limit = "endless"
  /\ Cardinality(inflight) + Ctx!Pending < args.oio

ReturnsUnlessStuck == <>(pc \in {"done", "failed"} \/ Stuck)

-----------------------------------------------------------------------------
(* async_libaio.cpp:69 "Wait for args.oio requests to complete": when the  *)
(* loop goes on after the wait, no request is with the kernel.             *)
WaitsForRequests == pc = "loop" => inflight = {}

(* README.md:55 "--mode <seq|rand>": in sequential mode every submission   *)
(* goes on in the file where the one before ended.                         *)
SequentialMode == pc = "loop" => offsets[0] = due
=============================================================================
