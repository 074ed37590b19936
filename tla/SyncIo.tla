------------------------------- MODULE SyncIo -------------------------------
(***************************************************************************)
(* The synchronous engine (src/src/sync_io.cpp): the plain, the vectored   *)
(* and the stress function, which share one loop of one transfer at a      *)
(* time.  A thread is a record of the function's locals.  fork, join and   *)
(* the arguments come from Benchmark, which extends this module.           *)
(***************************************************************************)
EXTENDS Offsets, FiniteSets

CONSTANTS Threads,      \* thread_id
          KB,           \* bytes in a kilobyte, 1024 in the code
          Rands,        \* what rand() may return
          MaxTransfers  \* bound of the model: calls of pread or pwrite by a thread

ASSUME SyncAssumption ==
  /\ KB \in Nat \ {0}
  /\ Rands \subseteq Nat
  /\ MaxTransfers \in Nat

VARIABLES args,       \* the RuntimeArgs_t that all threads are given a copy of
          max_offset, \* bytes of the file, or NoSize
          thread

Stress == args.benchmark_type = "STRESS"
Blocks == IF ~Stress /\ args.vec_size > 0 THEN args.vec_size ELSE 1
BufferSize == KB * args.blk_size
Bytes == Blocks * BufferSize

(* The result of the stress benchmark is for each second. *)
Seconds == IF Stress THEN args.runtime ELSE 1

NoThread ==
  [pc |-> "none", read_offset |-> 0,
   ops_submitted |-> 0, ops_returned |-> 0, ops_failed |-> 0,
   benchmark_iteration |-> 0, benchmark_opcount |-> 0, benchmark_offset |-> 0,
   expired |-> FALSE, op_count |-> -1,
   (* History: calls, blocks done, a transfer moved a part, where the last one ended. *)
   transfers |-> 0, done |-> 0, short |-> FALSE, due |-> 0]

(* At the beginning of the function; no time at all is over at once. *)
Enters(th) ==
  [th EXCEPT !.pc = IF Stress THEN "iteration" ELSE "loop",
             !.expired = ~Stress /\ args.runtime = 0,
             !.due = IF Stress THEN 0 ELSE th.read_offset]

Base(th) == IF Stress THEN th.benchmark_offset ELSE th.read_offset

Positions(th) ==
  LET iterations == IF args.opmode = "RANDOM" THEN Rands ELSE {th.ops_submitted}
  IN {OffsetOn(max_offset, Base(th), BufferSize, n) : n \in iterations}

(* The bytes a call may move, -1 for an error.  Only a file ends, and only *)
(* for reads; a device may take less than it is given.                     *)
Outcomes(offset) ==
  {-1} \cup IF args.operation = "READ" /\ max_offset # NoSize
            THEN {IF offset + Bytes <= max_offset THEN Bytes
                  ELSE IF offset < max_offset THEN max_offset - offset ELSE 0}
            ELSE {0, Bytes}

(* What a call adds to the counters. *)
OneBlock == 1  \* mutant: an operation is one block, vectored too
OpsOfCall == Blocks
NoFailure(moved) == 0  \* mutant
FailuresOf(moved) == IF moved < 0 THEN Blocks ELSE 0

KeepsBase(th, offset) == th.benchmark_offset  \* mutant: each iteration starts anew
NextBase(th, offset) == offset

SameIteration(th) == th.benchmark_iteration  \* mutant: not counted
NextIteration(th) == th.benchmark_iteration + 1

ResultOfSubmitted(th) ==  \* mutant: failures not subtracted
  IF Stress THEN th.benchmark_opcount \div args.runtime ELSE th.ops_returned
ResultCount(th) ==
  IF Stress THEN th.benchmark_opcount \div args.runtime ELSE th.ops_returned - th.ops_failed

-----------------------------------------------------------------------------
(* A thread after the start of an iteration, a call and the counting after *)
(* it, the end of an iteration, the end of the function.                   *)
Reset(th) ==
  [th EXCEPT !.pc = "loop", !.expired = FALSE,
             !.ops_submitted = 0, !.ops_returned = 0, !.ops_failed = 0]

Transferred(th, offset, moved) ==
  [th EXCEPT !.ops_submitted = @ + OpsOfCall,
             !.ops_failed = @ + FailuresOf(moved),
             !.ops_returned = @ + OpsOfCall,
             !.transfers = @ + 1,
             !.done = @ + (IF moved < 0 THEN 0 ELSE Blocks),
             !.short = @ \/ moved \in 0..(Bytes - 1),
             !.due = OffsetOn(max_offset, offset, BufferSize, Blocks)]

Iterated(th, offset) ==
  [th EXCEPT !.pc = "iteration",
             !.benchmark_offset = NextBase(th, offset),
             !.benchmark_opcount = @ + (th.ops_returned - th.ops_failed),
             !.benchmark_iteration = NextIteration(th)]

Returned(th) == [th EXCEPT !.pc = "done", !.op_count = ResultCount(th)]

-----------------------------------------------------------------------------
Becomes(t, th) ==
  /\ thread' = [thread EXCEPT ![t] = th]
  /\ UNCHANGED <<args, max_offset>>

StartIteration(t) ==
  /\ thread[t].pc = "iteration"
  /\ thread[t].benchmark_iteration < args.runtime
  /\ Becomes(t, Reset(thread[t]))

EndIterations(t) ==
  /\ thread[t].pc = "iteration"
  /\ thread[t].benchmark_iteration >= args.runtime
  /\ args.runtime # 0
  /\ Becomes(t, Returned(thread[t]))

(* benchmark_opcount / args.runtime is of integers. *)
DivideByZero(t) ==
  /\ thread[t].pc = "iteration"
  /\ args.runtime = 0
  /\ Becomes(t, [thread[t] EXCEPT !.pc = "crashed"])

(* One pread, pwrite, preadv or pwritev. *)
Transfer(t) ==
  /\ thread[t].pc = "loop" /\ ~thread[t].expired
  /\ thread[t].transfers < MaxTransfers
  /\ \E offset \in Positions(thread[t]) : \E moved \in Outcomes(offset) :
       Becomes(t, Transferred(thread[t], offset, moved))

LoopEnd(t) ==
  /\ thread[t].pc = "loop" /\ thread[t].expired
  /\ IF Stress THEN \E offset \in Positions(thread[t]) : Becomes(t, Iterated(thread[t], offset))
               ELSE Becomes(t, Returned(thread[t]))

(* getTime() - start reaches the runtime, or the iteration's second. *)
Expire(t) ==
  /\ thread[t].pc = "loop" /\ ~thread[t].expired
  /\ Becomes(t, [thread[t] EXCEPT !.expired = TRUE])

SyncStep(t) ==
  StartIteration(t) \/ EndIterations(t) \/ DivideByZero(t) \/ Transfer(t) \/ LoopEnd(t)
=============================================================================
