--------------------------- MODULE AsyncLiburing ---------------------------
(***************************************************************************)
(* One thread of the io_uring engine (src/src/async_liburing.cpp) with its *)
(* ring: vectored and fixed-buffer operations, each also with a kernel     *)
(* thread that polls the submission queue (for root), the stress benchmark *)
(* and the choice among them.  They share one loop: prepare oio entries,   *)
(* submit, compute the next offsets, wait for oio completions, look at     *)
(* their results, advance the completion queue.                            *)
(*                                                                         *)
(* The code looks neither at what io_uring_get_sqe returns nor at how many *)
(* entries io_uring_submit took.  The model is of sequential mode.         *)
(***************************************************************************)
EXTENDS Offsets, Sequences, FiniteSets

CONSTANTS Args,       \* [benchmark_type, vec_size, oio, runtime, read_offset, root]
          BufferSize, \* bytes of one buffer
          MaxOffset,  \* bytes of the file
          Entries,    \* slots of the submission queue, 1024 in the code
          CqWrap,     \* khead and ktail count modulo this, 2^32 in liburing
          MaxRounds   \* bound of the model: the most calls of io_uring_submit

ASSUME ArgsAssumption ==
  \A a \in Args : /\ a.benchmark_type \in {"NORMAL", "STRESS"}
                  /\ a.vec_size \in Nat
                  /\ a.oio \in Nat \ {0}
                  /\ a.runtime \in Nat \ {0}
                  /\ a.read_offset \in Nat
                  /\ a.root \in BOOLEAN
ASSUME BoundAssumption ==
  /\ BufferSize \in Nat \ {0}
  /\ MaxOffset \in Nat \ {0}
  /\ Entries \in Nat \ {0}
  /\ CqWrap \in Nat /\ CqWrap > 2 * Entries
  /\ MaxRounds \in Nat

VARIABLES
  args,                                    \* and geteuid() = 0
  pc,
  i,                                       \* of the loop that prepares entries
  offsets,                                 \* of the next entries
  ops_submitted, ops_returned, ops_failed,
  benchmark_iteration, benchmark_opcount, benchmark_offset,
  expired,                                 \* the while loop's time is over
  sq, inflight, cq,                        \* the ring, see IoUring
  held,                                    \* slots not free though taken, see SqThreadTakes
  khead,                                   \* the completion queue's head counter
  op_count,                                \* of the result, -1 before it
  (* History, not in the code. *)
  rounds,                                  \* calls of io_uring_submit
  succeeded, failed,                       \* operations completed, by cqe->res
  due                                      \* offset after the last one prepared

R == INSTANCE IoUring

ringVars == <<sq, inflight, cq, held>>
counters == <<ops_submitted, ops_returned, ops_failed>>
benchVars == <<benchmark_iteration, benchmark_opcount, benchmark_offset>>
outcomes == <<succeeded, failed>>
vars == <<args, pc, i, offsets, counters, benchVars, expired, ringVars, khead,
          op_count, rounds, outcomes, due>>

Stress == args.benchmark_type = "STRESS"
Vectored == args.benchmark_type = "NORMAL" /\ args.vec_size > 0

(* IORING_SETUP_SQPOLL: a kernel thread takes the entries. *)
Polling == args.benchmark_type = "NORMAL" /\ args.root

(* Blocks of an entry. *)
Blocks == IF Vectored THEN args.vec_size ELSE 1

Slots == 0..(args.oio - 1)

OffsetsFrom(initial, submitted) ==
  [s \in Slots |-> getOffset(MaxOffset, initial, BufferSize, submitted + s * Blocks)]

Init ==
  /\ args \in Args
  /\ pc = "setup"
  /\ i = 0
  /\ offsets = OffsetsFrom(args.read_offset, 0)
  /\ ops_submitted = 0 /\ ops_returned = 0 /\ ops_failed = 0
  /\ benchmark_iteration = 0 /\ benchmark_opcount = 0 /\ benchmark_offset = 0
  /\ expired = FALSE
  /\ R!RingInit
  /\ held = 0
  /\ khead = 0
  /\ op_count = -1
  /\ rounds = 0
  /\ succeeded = 0 /\ failed = 0
  /\ due = offsets[0]

-----------------------------------------------------------------------------
(* The buffer of the entry prepared next. *)
SharedBuffer == 0  \* mutant: one buffer for all
NextIndex == i + 1  \* mutant: off by one
BufferIndex == i

(* What io_uring_submit adds to ops_submitted, and a wait to ops_returned. *)
PerEntry == args.oio  \* mutant: an entry is one block, vectored too
OpsOfRound == args.oio * Blocks

(* What a wait adds to ops_failed. *)
FailuresSeen == Cardinality(R!FailedCqes)

(* Completions that io_uring_wait_cqe_nr waits for and the code advances over. *)
OneLess == args.oio - 1  \* mutant
OneMore == args.oio + 1  \* mutant
WaitNr == args.oio

(* op_count of the result. *)
ResultOfSubmitted ==  \* mutant: failures not subtracted
  IF Stress THEN benchmark_opcount \div args.runtime ELSE ops_submitted
ResultCount ==
  IF Stress THEN benchmark_opcount \div args.runtime ELSE ops_returned - ops_failed

(* The rings and buffers are set up and registered. *)
Setup ==
  /\ pc = "setup"
  /\ pc' = IF Stress THEN "iteration" ELSE "loop"
  /\ UNCHANGED <<args, i, offsets, counters, benchVars, expired, ringVars, khead,
                 op_count, rounds, outcomes, due>>

(* A call of the set-up or the wait returns an error: return_error(), with *)
(* no io_uring_queue_exit.                                                 *)
CallFails ==
  /\ pc \in {"setup", "wait"}
  /\ pc' = "failed"
  /\ op_count' = 0
  /\ UNCHANGED <<args, i, offsets, counters, benchVars, expired, ringVars, khead,
                 rounds, outcomes, due>>

(* The outer loop of the stress benchmark. *)
StartIteration ==
  /\ pc = "iteration"
  /\ benchmark_iteration < args.runtime
  /\ ops_submitted' = 0 /\ ops_returned' = 0 /\ ops_failed' = 0
  /\ benchmark_offset' = offsets[args.oio - 1]
  /\ expired' = FALSE
  /\ pc' = "loop"
  /\ UNCHANGED <<args, i, offsets, benchmark_iteration, benchmark_opcount, ringVars,
                 khead, op_count, rounds, outcomes, due>>

EndIterations ==
  /\ pc = "iteration"
  /\ benchmark_iteration >= args.runtime
  /\ op_count' = ResultCount
  /\ pc' = "done"
  /\ UNCHANGED <<args, i, offsets, counters, benchVars, expired, ringVars, khead,
                 rounds, outcomes, due>>

StartRound ==
  /\ pc = "loop" /\ ~expired
  /\ rounds < MaxRounds
  /\ i' = 0
  /\ pc' = "prepare"
  /\ UNCHANGED <<args, offsets, counters, benchVars, expired, ringVars, khead,
                 op_count, rounds, outcomes, due>>

(* io_uring_get_sqe returns NULL: no slot is free. *)
NoSlot == Len(sq) + held >= Entries

PrepareEntry ==
  /\ pc = "prepare"
  /\ i < args.oio
  /\ ~NoSlot
  /\ R!Prepare([buf |-> BufferIndex, round |-> rounds])
  /\ due' = getOffset(MaxOffset, offsets[i], BufferSize, Blocks)
  /\ i' = i + 1
  /\ UNCHANGED <<args, pc, offsets, counters, benchVars, expired, held, khead,
                 op_count, rounds, outcomes>>

(* io_uring_prep_* writes through the NULL. *)
PrepareNull ==
  /\ pc = "prepare"
  /\ i < args.oio
  /\ NoSlot
  /\ pc' = "crashed"
  /\ UNCHANGED <<args, i, offsets, counters, benchVars, expired, ringVars, khead,
                 op_count, rounds, outcomes, due>>

(* io_uring_submit, whose result is overwritten, and the next offsets.     *)
(* With polling it only makes the entries visible to the kernel's thread.  *)
Submit ==
  /\ pc = "prepare"
  /\ i = args.oio
  /\ IF Polling THEN UNCHANGED ringVars ELSE held' = held /\ \E n \in 0..Len(sq) : R!Submit(n)
  /\ ops_submitted' = ops_submitted + OpsOfRound
  /\ offsets' = OffsetsFrom(IF Stress THEN benchmark_offset ELSE args.read_offset,
                            ops_submitted')
  /\ rounds' = rounds + 1
  /\ pc' = "wait"
  /\ UNCHANGED <<args, i, ops_returned, ops_failed, benchVars, expired, khead,
                 op_count, outcomes, due>>

-----------------------------------------------------------------------------
(* io_uring_for_each_cqe counts head up from khead until it equals ktail.  *)
(* head is a size_t and does not wrap where ktail does.                    *)
ktail == (khead + Len(cq)) % CqWrap
HeadMeetsTail == khead <= ktail

(* There are oio completions: count failures and advance. *)
Reap ==
  /\ pc = "wait"
  /\ Len(cq) >= WaitNr
  /\ HeadMeetsTail
  /\ ops_failed' = ops_failed + FailuresSeen
  /\ R!Advance(WaitNr)
  /\ khead' = (khead + WaitNr) % CqWrap
  /\ ops_returned' = ops_returned + OpsOfRound
  /\ pc' = "loop"
  /\ UNCHANGED <<args, i, offsets, ops_submitted, benchVars, expired, held, op_count,
                 rounds, outcomes, due>>

(* ktail has wrapped and khead has not: the loop goes round and round. *)
ReapForever ==
  /\ pc = "wait"
  /\ Len(cq) >= WaitNr
  /\ ~HeadMeetsTail
  /\ pc' = "spinning"
  /\ UNCHANGED <<args, i, offsets, counters, benchVars, expired, ringVars, khead,
                 op_count, rounds, outcomes, due>>

LoopEnd ==
  /\ pc = "loop" /\ expired
  /\ IF Stress
     THEN /\ benchmark_opcount' = benchmark_opcount + (ops_returned - ops_failed)
          /\ benchmark_iteration' = benchmark_iteration + 1
          /\ pc' = "iteration"
          /\ UNCHANGED op_count
     ELSE /\ op_count' = ResultCount
          /\ pc' = "done"
          /\ UNCHANGED <<benchmark_opcount, benchmark_iteration>>
  /\ UNCHANGED <<args, i, offsets, counters, benchmark_offset, expired, ringVars,
                 khead, rounds, outcomes, due>>

-----------------------------------------------------------------------------
(* The kernel's polling thread takes entries, once they have been          *)
(* submitted.  It moves the queue's head, which frees their slots, when it *)
(* has dealt with all it took: some may have completed by then.            *)
SqThreadTakes ==
  /\ Polling
  /\ pc \notin {"prepare", "crashed"}
  /\ held = 0
  /\ \E n \in 1..Len(sq) : R!Submit(n) /\ held' = n
  /\ UNCHANGED <<args, pc, i, offsets, counters, benchVars, expired, khead, op_count,
                 rounds, outcomes, due>>

SqThreadFrees ==
  /\ held > 0
  /\ held' = 0
  /\ UNCHANGED <<args, pc, i, offsets, counters, benchVars, expired, sq, inflight, cq,
                 khead, op_count, rounds, outcomes, due>>

KernelCompletes(e, ok) ==
  /\ R!Complete(e, ok)
  /\ succeeded' = succeeded + (IF ok THEN 1 ELSE 0)
  /\ failed' = failed + (IF ok THEN 0 ELSE 1)
  /\ UNCHANGED <<args, pc, i, offsets, counters, benchVars, expired, held, khead,
                 op_count, rounds, due>>

(* getTime() - start reaches the runtime, or the iteration's second. *)
Expire ==
  /\ pc \in {"loop", "prepare", "wait"}
  /\ expired = FALSE
  /\ expired' = TRUE
  /\ UNCHANGED <<args, pc, i, offsets, counters, benchVars, ringVars, khead,
                 op_count, rounds, outcomes, due>>

(* The function has returned, or the thread will never do anything else. *)
Ended == pc \in {"done", "failed", "crashed", "spinning"}

Return == Ended /\ UNCHANGED vars

(* io_uring_submit took only a part, and the wait is for all of it. *)
CutShort == pc = "wait" /\ ~Polling /\ sq # <<>>

Step ==
  \/ Setup
  \/ StartIteration \/ EndIterations
  \/ StartRound \/ PrepareEntry \/ PrepareNull \/ Submit
  \/ Reap \/ ReapForever
  \/ LoopEnd

Kernel ==
  \/ SqThreadTakes \/ SqThreadFrees
  \/ \E e \in inflight, ok \in BOOLEAN : KernelCompletes(e, ok)

Next == Step \/ CallFails \/ Kernel \/ Expire \/ Return

Spec == Init /\ [][Next]_vars

(* The thread runs when it can, the kernel's thread takes what is there,   *)
(* the kernel completes what was taken, and time passes.                   *)
FairSpec ==
  /\ Spec
  /\ WF_vars(Step) /\ WF_vars(Kernel) /\ WF_vars(Expire)

-----------------------------------------------------------------------------
Sqe == [buf : Slots, round : Nat]

TypeOK ==
  /\ args \in Args
  /\ pc \in {"setup", "iteration", "loop", "prepare", "wait",
             "done", "failed", "crashed", "spinning"}
  /\ i \in 0..args.oio
  /\ offsets \in [Slots -> Nat]
  /\ ops_submitted \in Nat /\ ops_returned \in Nat /\ ops_failed \in Nat
  /\ benchmark_iteration \in Nat
  /\ benchmark_opcount \in Nat
  /\ benchmark_offset \in Nat
  /\ expired \in BOOLEAN
  /\ sq \in Seq(Sqe)
  /\ inflight \subseteq Sqe /\ IsFiniteSet(inflight)
  /\ cq \in Seq([sqe : Sqe, ok : BOOLEAN])
  /\ held \in Nat
  /\ khead \in 0..(CqWrap - 1)
  /\ op_count \in Nat \cup {-1}
  /\ rounds \in Nat
  /\ succeeded \in Nat /\ failed \in Nat
  /\ due \in Nat

(* Each wait collects the completions of its own round, all of them and no *)
(* others: an entry of the round is in the submission queue, with the      *)
(* kernel or in the completion queue, and between rounds all are empty.    *)
RoundsAreSeparate ==
  /\ pc = "wait" => Len(sq) + Cardinality(inflight) + Len(cq) = args.oio
  /\ pc \in {"loop", "iteration", "done"} => sq = <<>> /\ inflight = {} /\ cq = <<>>

(* No two entries that are prepared or with the kernel use one buffer,     *)
(* although the code never looks at what was submitted or completed.       *)
BuffersExclusive ==
  LET queued == {sq[s] : s \in 1..Len(sq)} IN
    /\ \A s, t \in 1..Len(sq) : sq[s].buf = sq[t].buf => s = t
    /\ \A a, b \in queued \cup inflight : a.buf = b.buf => a = b
    /\ queued \cap inflight = {}

(* What the counters of all iterations so far say was done. *)
Counted ==
  (IF Stress THEN benchmark_opcount ELSE 0)
    + (IF Stress /\ pc = "iteration" THEN 0 ELSE ops_returned - ops_failed)

(* What they ought to say is Blocks * succeeded; a failed vectored         *)
(* operation is taken off as one block and counted as Blocks.              *)
Done == Blocks * succeeded + (Blocks - 1) * failed

(* The counters stand for the operations completed, each counted once, in  *)
(* every round and across the resets of the stress benchmark.              *)
CountsEachOnce == pc \in {"loop", "iteration"} => Counted = Done

(* The thread gives one result, computed from what its completions say, as *)
(* an Engine.                                                              *)
Stage == CASE pc = "done"   -> "returned"
           [] pc = "failed" -> "failed"
           [] OTHER         -> "working"
E == INSTANCE Engine WITH stage <- Stage, done <- Done,
                          seconds <- IF Stress THEN args.runtime ELSE 1
ImplementsEngine == E!Spec

(* NORMAL: each round goes on in the file where the one before ended.      *)
SequentialWithoutGaps == pc = "loop" /\ ~Stress => offsets[0] = due

(* There is a free slot for each entry of a round: only oio above the      *)
(* depth of the ring crashes, or above half of it if a polling thread may  *)
(* still hold the slots of the round before.                               *)
CrashOnlyAboveDepth ==
  pc = "crashed" => args.oio > Entries \/ (Polling /\ 2 * args.oio > Entries)

(* The function returns, unless a submission was cut short or the counters *)
(* of the completion queue have wrapped.                                   *)
ReturnsUnlessStuck == <>(Ended \/ CutShort)

-----------------------------------------------------------------------------
(* README.md:3 "A benchmarking tool for comparing sync-io, libaio and      *)
(* io_uring performance": an operation that failed counts for nothing, as  *)
(* in async_libaio.cpp:189 "ops_failed += args.vec_size".                  *)
FailuresCountNothing == pc = "done" => op_count <= Blocks * succeeded

(* README.md:59 "--runtime <runtime in seconds>": the benchmark comes to   *)
(* an end when all that was prepared has been submitted.                   *)
EndsAfterRuntime == <>(pc \in {"done", "failed", "crashed"} \/ CutShort)
=============================================================================
