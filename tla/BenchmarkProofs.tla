-------------------------- MODULE BenchmarkProofs --------------------------
(***************************************************************************)
(* Theorems about the synchronous engine in the threads that runBenchmark  *)
(* starts, for every command line, file, block size, vector size, runtime, *)
(* number of threads, and whichever threads are put off until their join.  *)
(***************************************************************************)
EXTENDS Benchmark, OffsetsProofs, CommandLineProofs

-----------------------------------------------------------------------------
ArgsOK ==
  /\ args.thread_count \in Nat /\ args.blk_size \in Nat
  /\ args.vec_size \in Nat /\ args.runtime \in Nat

(* Threads are started when there is a file to take remainders by.         *)
Opened == \A t \in Threads : thread[t].pc # "none" => max_offset # 0
NotYet == main \in {"check", "parse", "open"} => \A t \in Threads : thread[t].pc = "none"

(* What is given back is a number. *)
Results == \A t \in Threads : HasResult(t) => thread[t].op_count \in Nat

Started == Opened /\ NotYet /\ Results

LEMMA Sizes ==
  ASSUME ArgsOK
  PROVE  Blocks \in Nat /\ Blocks # 0 /\ BufferSize \in Nat /\ Bytes \in Nat /\ Seconds \in Nat
<1>1. Blocks \in Nat /\ Blocks # 0 /\ Seconds \in Nat
  BY DEF ArgsOK, Blocks, Seconds
<1>2. BufferSize \in Nat
  BY SyncAssumption DEF ArgsOK, BufferSize
<1> QED
  BY <1>1, <1>2 DEF Bytes

(* An offset is a number, inside the file if that has a size. *)
LEMMA OffsetType ==
  ASSUME NEW m \in Nat \cup {NoSize}, m # 0, NEW base \in Nat, NEW b \in Nat, NEW n \in Nat
  PROVE  OffsetOn(m, base, b, n) \in Nat /\ (m # NoSize => OffsetOn(m, base, b, n) < m)
<1>1. CASE m = NoSize
  BY <1>1 DEF OffsetOn
<1>2. CASE m # NoSize
  <2>1. m \in Nat \ {0}
    BY <1>2
  <2>2. getOffset(m, base, b, n) \in 0..(m - 1)
    BY <2>1, OffsetInFile
  <2> QED
    BY <1>2, <2>1, <2>2 DEF OffsetOn
<1> QED
  BY <1>1, <1>2

LEMMA PositionsType ==
  ASSUME ArgsOK, max_offset \in Nat \cup {NoSize}, max_offset # 0,
         NEW th \in ThreadType, NEW offset \in Positions(th)
  PROVE  /\ offset \in Nat /\ (max_offset # NoSize => offset < max_offset)
         /\ OffsetOn(max_offset, offset, BufferSize, Blocks) \in Nat
<1>1. Base(th) \in Nat
  BY DEF Base, ThreadType
<1>2. PICK n \in Nat : offset = OffsetOn(max_offset, Base(th), BufferSize, n)
  BY SyncAssumption DEF Positions, ThreadType
<1>3. offset \in Nat /\ (max_offset # NoSize => offset < max_offset)
  BY <1>1, <1>2, Sizes, OffsetType
<1> QED
  BY <1>3, Sizes, OffsetType

(* What a step of one thread leaves alone. *)
LEMMA OneThread ==
  ASSUME thread \in [Threads -> ThreadType], NEW t \in Threads, NEW th,
         thread' = [thread EXCEPT ![t] = th]
  PROVE  /\ thread'[t] = th
         /\ \A u \in Threads : u # t => thread'[u] = thread[u]
         /\ th \in ThreadType => thread' \in [Threads -> ThreadType]
OBVIOUS

(* A thread begins with all its counters at zero. *)
LEMMA EnterType ==
  ASSUME NEW th \in ThreadType
  PROVE  /\ Enter(th) \in ThreadType
         /\ Enter(th).pc \in {"iteration", "loop", "engine"}
         /\ Enter(th).ops_failed = th.ops_failed /\ Enter(th).ops_returned = th.ops_returned
<1>1. Enters(th) \in ThreadType
  BY DEF Enters, ThreadType
<1> QED
  BY <1>1 DEF Enter, Enters, ThreadType

LEMMA NoThreadType ==
  ASSUME NEW offset \in Nat
  PROVE  /\ [NoThread EXCEPT !.read_offset = offset] \in ThreadType
         /\ [[NoThread EXCEPT !.read_offset = offset] EXCEPT !.pc = "deferred"] \in ThreadType
BY DEF NoThread, ThreadType

LEMMA StartOffsetType ==
  ASSUME max_offset \in Nat \cup {NoSize}, max_offset # 0, NEW n \in Nat
  PROVE  StartOffset(n) \in Nat /\ (max_offset # NoSize => StartOffset(n) < max_offset)
<1>1. CASE max_offset = NoSize
  BY <1>1 DEF StartOffset
<1>2. CASE max_offset # NoSize
  <2>1. _100GB * n \in Nat /\ max_offset \in Nat \ {0}
    BY <1>2, GapAssumption
  <2>2. \A a \in Nat, m \in Nat \ {0} : a % m \in Nat /\ a % m < m
    OBVIOUS
  <2> QED
    BY <1>2, <2>1, <2>2 DEF StartOffset
<1> QED
  BY <1>1, <1>2

-----------------------------------------------------------------------------
(* What a step of a thread makes of its record.                            *)
Solvent(th) == th \in ThreadType /\ th.ops_failed <= th.ops_returned
               /\ (th.pc \in {"done", "failed"} => th.op_count \in Nat)

Typed == TypeOK /\ ArgsOK /\ Started

LEMMA SolventThreads ==
  ASSUME Typed, NEW t \in Threads
  PROVE  Solvent(thread[t]) /\ thread[t] \in ThreadType
BY DEF Typed, TypeOK, Started, Results, HasResult, Solvent

(* The ways for a thread of the synchronous engine to go on. *)
Successor(th, new) ==
  \/ th.pc = "iteration" /\ new = Reset(th)
  \/ th.pc = "iteration" /\ args.runtime # 0 /\ new = Returned(th)
  \/ th.pc = "iteration" /\ args.runtime = 0 /\ new = [th EXCEPT !.pc = "crashed"]
  \/ th.pc = "loop" /\ \E offset \in Positions(th) : \E moved \in Outcomes(offset) :
                          new = Transferred(th, offset, moved)
  \/ th.pc = "loop" /\ Stress /\ \E offset \in Positions(th) : new = Iterated(th, offset)
  \/ th.pc = "loop" /\ ~Stress /\ new = Returned(th)
  \/ th.pc = "loop" /\ new = [th EXCEPT !.expired = TRUE]

LEMMA SyncSuccessor ==
  ASSUME NEW t \in Threads, SyncStep(t) \/ Expire(t)
  PROVE  \E new : Successor(thread[t], new) /\ Becomes(t, new)
<1>1. CASE StartIteration(t)
  BY <1>1 DEF StartIteration, Successor
<1>2. CASE EndIterations(t)
  BY <1>2 DEF EndIterations, Successor
<1>3. CASE DivideByZero(t)
  BY <1>3 DEF DivideByZero, Successor
<1>4. CASE Transfer(t)
  BY <1>4 DEF Transfer, Successor
<1>5. CASE LoopEnd(t)
  BY <1>5 DEF LoopEnd, Successor
<1>6. CASE Expire(t)
  BY <1>6 DEF Expire, Successor
<1> QED
  BY <1>1, <1>2, <1>3, <1>4, <1>5, <1>6 DEF SyncStep

LEMMA TransferredType ==
  ASSUME ArgsOK, max_offset \in Nat \cup {NoSize}, max_offset # 0,
         NEW th \in ThreadType, NEW offset \in Positions(th), NEW moved \in Outcomes(offset)
  PROVE  /\ Transferred(th, offset, moved) \in ThreadType
         /\ th.ops_failed <= th.ops_returned =>
              Transferred(th, offset, moved).ops_failed <= Transferred(th, offset, moved).ops_returned
<1>1. /\ OffsetOn(max_offset, offset, BufferSize, Blocks) \in Nat
      /\ OpsOfCall \in Nat /\ Blocks \in Nat
      /\ FailuresOf(moved) \in Nat /\ FailuresOf(moved) <= OpsOfCall
  BY Sizes, PositionsType DEF OpsOfCall, FailuresOf
<1>2. (IF moved < 0 THEN 0 ELSE Blocks) \in Nat
  BY <1>1
<1>3. (th.short \/ moved \in 0..(Bytes - 1)) \in BOOLEAN
  OBVIOUS
<1>. DEFINE new == Transferred(th, offset, moved)
<1>4. /\ th.ops_submitted + OpsOfCall \in Nat /\ th.ops_returned + OpsOfCall \in Nat
      /\ th.ops_failed + FailuresOf(moved) \in Nat /\ th.transfers + 1 \in Nat
      /\ th.done + (IF moved < 0 THEN 0 ELSE Blocks) \in Nat
  BY <1>1, <1>2 DEF ThreadType
<1>5. new \in ThreadType
  BY <1>1, <1>3, <1>4 DEF Transferred, ThreadType
<1>6. /\ new.ops_failed = th.ops_failed + FailuresOf(moved)
      /\ new.ops_returned = th.ops_returned + OpsOfCall
  BY DEF Transferred, ThreadType
<1>7. th.ops_failed \in Nat /\ th.ops_returned \in Nat
  BY DEF ThreadType
<1> QED
  BY <1>1, <1>5, <1>6, <1>7

LEMMA SuccessorType ==
  ASSUME ArgsOK, max_offset \in Nat \cup {NoSize}, max_offset # 0,
         NEW th, Solvent(th), NEW new, Successor(th, new)
  PROVE  Solvent(new) /\ new.pc # "none"
<1>0. th \in ThreadType /\ th.ops_failed <= th.ops_returned
  BY DEF Solvent
<1>1. CASE new = Reset(th)
  <2>1. new \in ThreadType
    BY <1>0, <1>1 DEF Reset, ThreadType
  <2>2. new.pc = "loop" /\ new.ops_failed = 0 /\ new.ops_returned = 0
    BY <1>0, <1>1 DEF Reset, ThreadType
  <2> QED
    BY <2>1, <2>2 DEF Solvent
<1>2. CASE new = [th EXCEPT !.pc = "crashed"]
  BY <1>0, <1>2 DEF Solvent, ThreadType
<1>3. CASE new = [th EXCEPT !.expired = TRUE] /\ th.pc = "loop"
  BY <1>0, <1>3 DEF Solvent, ThreadType
<1>4. CASE new = Returned(th) /\ (Stress => args.runtime # 0)
  <2>1. ResultCount(th) \in Nat
    <3>1. /\ th.benchmark_opcount \in Nat /\ th.ops_returned \in Nat
          /\ th.ops_failed \in Nat /\ args.runtime \in Nat
      BY <1>0 DEF ThreadType, ArgsOK
    <3>2. CASE Stress
      <4>1. args.runtime \in Nat \ {0}
        BY <1>4, <3>1, <3>2
      <4> QED
        BY <3>1, <3>2, <4>1 DEF ResultCount
    <3>3. CASE ~Stress
      BY <1>0, <3>1, <3>3 DEF ResultCount
    <3> QED
      BY <3>2, <3>3
  <2> QED
    BY <1>0, <1>4, <2>1 DEF Solvent, Returned, ThreadType
<1>5. ASSUME NEW offset \in Positions(th), NEW moved \in Outcomes(offset),
             new = Transferred(th, offset, moved), th.pc = "loop"
      PROVE  Solvent(new) /\ new.pc # "none"
  <2>1. new \in ThreadType /\ new.ops_failed <= new.ops_returned
    BY <1>0, <1>5, TransferredType
  <2>2. new.pc = "loop"
    BY <1>0, <1>5 DEF Transferred, ThreadType
  <2> QED
    BY <2>1, <2>2 DEF Solvent
<1>6. ASSUME NEW offset \in Positions(th), new = Iterated(th, offset)
      PROVE  Solvent(new) /\ new.pc # "none"
  <2>1. offset \in Nat
    BY <1>0, PositionsType
  <2>2. /\ NextBase(th, offset) \in Nat /\ NextIteration(th) \in Nat
        /\ th.benchmark_opcount + (th.ops_returned - th.ops_failed) \in Nat
    BY <1>0, <2>1 DEF NextBase, NextIteration, ThreadType
  <2> QED
    BY <1>0, <1>6, <2>2 DEF Solvent, Iterated, ThreadType
<1> QED
  BY <1>1, <1>2, <1>3, <1>4, <1>5, <1>6 DEF Successor

(* The ways for a thread of another engine to go on. *)
EngineSuccessor(th, new) ==
  /\ th.pc = "engine"
  /\ \/ Seconds # 0 /\ new = [th EXCEPT !.done = @ + 1]
     \/ Seconds # 0 /\ new = [th EXCEPT !.pc = "done", !.op_count = th.done \div Seconds]
     \/ new = [th EXCEPT !.pc = "failed", !.op_count = 0]
     \/ Seconds # 0 /\ new = [th EXCEPT !.pc = "stuck"]
     \/ /\ Seconds = 0 \/ (args.lib = "IOURING" /\ 2 * args.oio > RingDepth)
        /\ new = [th EXCEPT !.pc = "crashed"]

LEMMA EngineSuccessorType ==
  ASSUME ArgsOK, NEW th, Solvent(th), NEW new, EngineSuccessor(th, new)
  PROVE  Solvent(new) /\ new.pc # "none"
<1>0. th \in ThreadType /\ th.ops_failed <= th.ops_returned /\ th.pc = "engine"
  BY DEF Solvent, EngineSuccessor
<1>1. CASE new = [th EXCEPT !.done = @ + 1]
  BY <1>0, <1>1 DEF Solvent, ThreadType
<1>2. CASE Seconds # 0 /\ new = [th EXCEPT !.pc = "done", !.op_count = th.done \div Seconds]
  <2>1. Seconds \in Nat \ {0} /\ th.done \in Nat
    BY <1>0, <1>2, Sizes DEF ThreadType
  <2>2. th.done \div Seconds \in Nat
    BY <2>1
  <2> QED
    BY <1>0, <1>2, <2>2 DEF Solvent, ThreadType
<1>3. CASE new = [th EXCEPT !.pc = "failed", !.op_count = 0]
  BY <1>0, <1>3 DEF Solvent, ThreadType
<1>4. CASE new = [th EXCEPT !.pc = "stuck"] \/ new = [th EXCEPT !.pc = "crashed"]
  BY <1>0, <1>4 DEF Solvent, ThreadType
<1> QED
  BY <1>1, <1>2, <1>3, <1>4 DEF EngineSuccessor

Goes(t) == ThreadStep(t) \/ Clock(t)

LEMMA GoesOn ==
  ASSUME NEW t \in Threads, Goes(t)
  PROVE  /\ UNCHANGED <<argv, file, mainVars, args, max_offset>>
         /\ \E new : /\ Successor(thread[t], new) \/ EngineSuccessor(thread[t], new)
                     /\ thread' = [thread EXCEPT ![t] = new]
<1>1. CASE SyncStep(t) \/ Expire(t)
  BY <1>1, SyncSuccessor DEF Goes, ThreadStep, Clock, Becomes
<1>2. CASE EngineStep(t)
  <2>1. \E new : EngineSuccessor(thread[t], new) /\ Becomes(t, new)
    BY <1>2 DEF EngineStep, EngineWorks, EngineReturns, EngineFails, EngineHangs,
                EngineCrashes, EngineSuccessor
  <2> QED
    BY <2>1 DEF Goes, ThreadStep, Clock, Becomes, Expire
<1> QED
  BY <1>1, <1>2 DEF Goes, ThreadStep, Clock

(* Steps of main that touch no thread. *)
MainOnly ==
  \/ fileNameCheck \/ ParseArgs \/ fileOpenFails \/ fileOpen \/ MessageOffset
  \/ RemainderByZero \/ StartJoin \/ Join \/ PrintTotal \/ Stop \/ UNCHANGED vars

LEMMA NextCases ==
  ASSUME [Next]_vars
  PROVE  MainOnly \/ Fork \/ RunDeferred \/ \E t \in Threads : Goes(t)
BY DEF Next, MainStep, MainOnly, Goes

(* The thread that Fork or RunDeferred starts. *)
Born(i) == [NoThread EXCEPT !.read_offset = StartOffset(i)]
Starts(t, new) ==
  \/ main = "fork" /\ t = next /\ max_offset # 0
       /\ (new = Enter(Born(t)) \/ new = [Born(t) EXCEPT !.pc = "deferred"])
  \/ main = "join" /\ thread[t].pc = "deferred" /\ new = Enter(thread[t])

LEMMA StartsThread ==
  ASSUME Fork \/ RunDeferred
  PROVE  /\ main' = main /\ main \in {"fork", "join"} /\ next' \in {next, next + 1}
         /\ UNCHANGED <<args, max_offset, argv, file, totalOps>>
         /\ \E t \in Threads : \E new : Starts(t, new) /\ thread' = [thread EXCEPT ![t] = new]
<1>1. CASE Fork
  BY <1>1 DEF Fork, Main, LaunchesMore, Starts, Born
<1>2. CASE RunDeferred
  BY <1>2 DEF RunDeferred, Main, JoinsMore, Starts
<1> QED
  BY <1>1, <1>2

LEMMA StartsType ==
  ASSUME Typed, NEW t \in Threads, NEW new, Starts(t, new)
  PROVE  Solvent(new) /\ new.pc # "none" /\ max_offset # 0
<1>1. CASE main = "fork" /\ max_offset # 0
  <2>1. StartOffset(t) \in Nat
    BY <1>1, ThreadsAssumption, StartOffsetType DEF Typed, TypeOK
  <2>2. Born(t) \in ThreadType /\ [Born(t) EXCEPT !.pc = "deferred"] \in ThreadType
    BY <2>1, NoThreadType DEF Born
  <2>3. Born(t).ops_failed = 0 /\ Born(t).ops_returned = 0
    BY DEF Born, NoThread
  <2>4. CASE new = Enter(Born(t))
    <3>1. /\ new \in ThreadType /\ new.pc \in {"iteration", "loop", "engine"}
          /\ new.ops_failed = 0 /\ new.ops_returned = 0
      BY <2>2, <2>3, <2>4, EnterType
    <3> QED
      BY <1>1, <3>1 DEF Solvent
  <2>5. CASE new = [Born(t) EXCEPT !.pc = "deferred"]
    <3>1. new.pc = "deferred" /\ new.ops_failed = 0 /\ new.ops_returned = 0
      BY <2>2, <2>3, <2>5 DEF ThreadType, Born, NoThread
    <3> QED
      BY <1>1, <2>2, <2>5, <3>1 DEF Solvent
  <2> QED
    BY <1>1, <2>4, <2>5 DEF Starts
<1>2. CASE main = "join" /\ thread[t].pc = "deferred" /\ new = Enter(thread[t])
  <2>1. Solvent(thread[t]) /\ thread[t] \in ThreadType /\ max_offset # 0
    BY <1>2, SolventThreads DEF Typed, Started, Opened
  <2>2. /\ new \in ThreadType /\ new.pc \in {"iteration", "loop", "engine"}
        /\ new.ops_failed = thread[t].ops_failed /\ new.ops_returned = thread[t].ops_returned
    BY <1>2, <2>1, EnterType
  <2> QED
    BY <2>1, <2>2 DEF Solvent
<1> QED
  BY <1>1, <1>2 DEF Starts

-----------------------------------------------------------------------------
(* One thread has changed, as it may. *)
LEMMA OneChanges ==
  ASSUME Typed, NEW t \in Threads, NEW new, Solvent(new), new.pc # "none",
         thread' = [thread EXCEPT ![t] = new],
         max_offset # 0, UNCHANGED <<argv, file, args, max_offset, totalOps>>,
         main' = main, main \notin {"check", "parse", "open"}, next' \in {next, next + 1}
  PROVE  Typed'
<1>0. new \in ThreadType /\ thread \in [Threads -> ThreadType]
  BY DEF Solvent, Typed, TypeOK
<1>1. /\ thread'[t] = new
      /\ \A u \in Threads : u # t => thread'[u] = thread[u]
      /\ thread' \in [Threads -> ThreadType]
  BY <1>0, OneThread
<1>2. \A u \in Threads : Solvent(thread'[u])
  BY <1>1, SolventThreads
<1>3. TypeOK'
  <2>1. next' \in Nat
    BY DEF Typed, TypeOK
  <2>2. \A u \in Threads : thread'[u].ops_failed <= thread'[u].ops_returned
    BY <1>2 DEF Solvent
  <2> QED
    BY <1>1, <2>1, <2>2 DEF Typed, TypeOK
<1>4. ArgsOK'
  BY DEF Typed, ArgsOK
<1>5. Opened' /\ NotYet'
  BY DEF Opened, NotYet
<1>6. Results'
  BY <1>2 DEF Results, HasResult, Solvent
<1> QED
  BY <1>3, <1>4, <1>5, <1>6 DEF Typed, Started

LEMMA MainOnlyType ==
  ASSUME Typed, MainOnly
  PROVE  Typed'
<1>1. UNCHANGED <<args, thread, argv, file>>
  BY DEF MainOnly, fileNameCheck, ParseArgs, fileOpenFails, fileOpen, MessageOffset,
         RemainderByZero, StartJoin, Join, PrintTotal, Stop, vars, mainVars
<1>2. ArgsOK' /\ Results'
  BY <1>1 DEF Typed, Started, ArgsOK, Results, HasResult
<1>3. max_offset' \in Nat \cup {NoSize} /\ (max_offset' # max_offset => main = "open")
  <2>1. CASE fileOpen
    BY <2>1, FilesAssumption DEF fileOpen, getFileSize, Typed, TypeOK, Main
  <2>2. CASE ~fileOpen
    BY <2>2 DEF MainOnly, fileNameCheck, ParseArgs, fileOpenFails, MessageOffset,
         RemainderByZero, StartJoin, Join, PrintTotal, Stop, vars, Typed, TypeOK
  <2> QED
    BY <2>1, <2>2
<1>4. /\ main' \in {"check", "parse", "open", "message", "fork", "join",
                    "exited", "printed", "crashed"}
      /\ main' \in {"check", "parse", "open"} => main \in {"check", "parse", "open"}
  BY DEF MainOnly, fileNameCheck, ParseArgs, fileOpenFails, fileOpen, MessageOffset,
         RemainderByZero, StartJoin, Join, PrintTotal, Stop, vars, mainVars, Main, Typed, TypeOK
<1>5. next' \in Nat /\ totalOps' \in Nat
  <2>1. CASE Join
    <3>1. thread[next].op_count \in Nat
      BY <2>1 DEF Join, JoinsMore, Typed, Started, Results
    <3> QED
      BY <2>1, <3>1 DEF Join, Typed, TypeOK
  <2>2. CASE ~Join
    BY <2>2 DEF MainOnly, fileNameCheck, ParseArgs, fileOpenFails, fileOpen, MessageOffset,
         RemainderByZero, StartJoin, PrintTotal, Stop, vars, mainVars, Typed, TypeOK
  <2> QED
    BY <2>1, <2>2
<1>6. TypeOK'
  BY <1>1, <1>3, <1>4, <1>5 DEF Typed, TypeOK
<1>7. Opened' /\ NotYet'
  BY <1>1, <1>3, <1>4 DEF Typed, Started, Opened, NotYet
<1> QED
  BY <1>2, <1>6, <1>7 DEF Typed, Started

LEMMA TypeInit == Init => Typed
<1> SUFFICES ASSUME Init PROVE Typed
  OBVIOUS
<1>1. ArgsOK
  <2>1. argv \in Seq(STRING) /\ args \in {getDefaultArgs, mapUserArgsToRuntimeArgs(argv)}
    BY ArgvAssumption DEF Init, ParsedArgs
  <2>2. \A field \in {"thread_count", "blk_size", "vec_size", "runtime"} : args[field] \in Nat
    BY <2>1, ParsedNumbers
  <2> QED
    BY <2>2 DEF ArgsOK
<1>2. NoThread \in ThreadType /\ NoThread.pc = "none"
      /\ NoThread.ops_failed = 0 /\ NoThread.ops_returned = 0
  BY DEF NoThread, ThreadType
<1>3. TypeOK
  BY <1>2 DEF Init, TypeOK
<1>4. Started
  BY <1>2 DEF Init, Started, Opened, NotYet, Results, HasResult
<1> QED
  BY <1>1, <1>3, <1>4 DEF Typed

LEMMA TypeStep == Typed /\ [Next]_vars => Typed'
<1> SUFFICES ASSUME Typed, [Next]_vars
             PROVE  Typed'
  OBVIOUS
<1>1. CASE Fork \/ RunDeferred
  <2>0. PICK t \in Threads : \E new : Starts(t, new) /\ thread' = [thread EXCEPT ![t] = new]
    BY <1>1, StartsThread
  <2>1. PICK new : Starts(t, new) /\ thread' = [thread EXCEPT ![t] = new]
    BY <2>0
  <2>2. Solvent(new) /\ new.pc # "none" /\ max_offset # 0
    BY <2>1, StartsType
  <2> QED
    BY <1>1, <2>1, <2>2, StartsThread, OneChanges
<1>2. ASSUME NEW t \in Threads, Goes(t)
      PROVE  Typed'
  <2>1. PICK new : /\ Successor(thread[t], new) \/ EngineSuccessor(thread[t], new)
                   /\ thread' = [thread EXCEPT ![t] = new]
    BY <1>2, GoesOn
  <2>2. thread[t].pc # "none" /\ Solvent(thread[t])
    BY <2>1, SolventThreads DEF Successor, EngineSuccessor
  <2>3. /\ max_offset # 0 /\ max_offset \in Nat \cup {NoSize}
        /\ main \notin {"check", "parse", "open"} /\ ArgsOK
    BY <2>2 DEF Typed, TypeOK, Started, Opened, NotYet
  <2>4. Solvent(new) /\ new.pc # "none"
    BY <2>1, <2>2, <2>3, SuccessorType, EngineSuccessorType
  <2>5. /\ UNCHANGED <<argv, file, args, max_offset, totalOps>> /\ main' = main
        /\ next' \in {next, next + 1}
    BY <1>2, GoesOn DEF mainVars
  <2> QED
    BY <2>1, <2>3, <2>4, <2>5, OneChanges
<1> QED
  BY <1>1, <1>2, NextCases, MainOnlyType

(* Every variable keeps its type; no unsigned ops_returned - ops_failed    *)
(* wraps; only threads that have ended give a result.                      *)
THEOREM TypeCorrect == Spec => []TypeOK
<1>1. Typed => TypeOK
  BY DEF Typed
<1> QED
  BY <1>1, TypeInit, TypeStep, PTL DEF Spec

-----------------------------------------------------------------------------
LEMMA ArgumentsStay == [Next]_vars => UNCHANGED <<argv, args>>
<1> SUFFICES ASSUME [Next]_vars
             PROVE  UNCHANGED <<argv, args>>
  OBVIOUS
<1>1. CASE Fork \/ RunDeferred
  BY <1>1 DEF Fork, RunDeferred
<1>2. ASSUME NEW t \in Threads, Goes(t)
      PROVE  UNCHANGED <<argv, args>>
  BY <1>2, GoesOn
<1>3. CASE MainOnly
  BY <1>3 DEF MainOnly, fileNameCheck, ParseArgs, fileOpenFails, fileOpen, MessageOffset,
       RemainderByZero, StartJoin, Join, PrintTotal, Stop, vars, mainVars
<1> QED
  BY <1>1, <1>2, <1>3, NextCases

(* What every thread reads is what the user means: each option's last      *)
(* value, in whatever order and however often options are given, unless a  *)
(* value is missing or looks like an option.                               *)
THEOREM ParsesAsGiven == Spec => []ParsedAsGiven
<1>1. Init => ParsedAsGiven
  <2> SUFFICES ASSUME Init, WellFormed(argv)
               PROVE  Meant(argv, args)
    BY DEF ParsedAsGiven
  <2>1. argv \in Seq(STRING) /\ args = ParsedArgs(argv)
    BY ArgvAssumption DEF Init
  <2>2. Meant(argv, mapUserArgsToRuntimeArgs(argv))
    BY <2>1, ParsedIsMeant
  <2>3. CASE argv = << >>
    <3>1. mapUserArgsToRuntimeArgs(argv) = getDefaultArgs
      <4>1. DOMAIN argv = {}
        BY <2>3
      <4>2. mapUserArgsToRuntimeArgs(argv) = Looked(argv, {})
        BY <2>1, <4>1, Folded
      <4> QED
        BY <4>2, NothingLooked
    <3> QED
      BY <2>1, <2>2, <3>1 DEF ParsedArgs
  <2>4. CASE argv # << >>
    <3>1. Len(argv) \in DOMAIN argv
      BY <2>1, <2>4
    <3>2. ~ReadsNull(argv)
      BY <3>1 DEF WellFormed, ReadsNull, Last
    <3> QED
      BY <2>1, <2>2, <3>2 DEF ParsedArgs
  <2> QED
    BY <2>3, <2>4
<1>2. ParsedAsGiven /\ [Next]_vars => ParsedAsGiven'
  BY ArgumentsStay DEF ParsedAsGiven
<1> QED
  BY <1>1, <1>2, PTL DEF Spec

-----------------------------------------------------------------------------
(* What a thread of the synchronous engine keeps.                          *)
Fresh(th) ==
  th.pc \in {"none", "deferred"} =>
    /\ th.ops_submitted = 0 /\ th.ops_returned = 0 /\ th.ops_failed = 0
    /\ th.benchmark_opcount = 0 /\ th.benchmark_offset = 0 /\ th.done = 0

(* The counters stand for what was done, and so does the result. *)
Accounted(th) ==
  /\ th.pc = "iteration" => Stress
  /\ ~Stress => th.benchmark_opcount = 0
  /\ th.pc = "iteration" => th.done = th.benchmark_opcount
  /\ th.pc = "loop" => th.done = th.benchmark_opcount + (th.ops_returned - th.ops_failed)
  /\ th.pc = "done" => th.op_count = th.done \div Seconds

(* Where a sequential thread goes on. *)
Follows(th) ==
  /\ max_offset # NoSize /\ th.pc # "none" =>
       th.read_offset < max_offset /\ th.benchmark_offset < max_offset
  /\ args.opmode = "SEQUENTIAL" =>
       /\ th.pc = "iteration" => th.due = th.benchmark_offset
       /\ th.pc = "loop" => th.due = OffsetOn(max_offset, Base(th), BufferSize, th.ops_submitted)

Right(th) == Fresh(th) /\ Accounted(th) /\ Follows(th)

LEMMA OffsetAgain ==
  ASSUME NEW m \in Nat \cup {NoSize}, m # 0, NEW base \in Nat, NEW b \in Nat,
         NEW n \in Nat, NEW k \in Nat
  PROVE  OffsetOn(m, OffsetOn(m, base, b, n), b, k) = OffsetOn(m, base, b, n + k)
<1>1. CASE m = NoSize
  <2>1. (n + k) * b = n * b + k * b /\ n * b \in Nat /\ k * b \in Nat
    OBVIOUS
  <2> QED
    BY <1>1, <2>1 DEF OffsetOn
<1>2. CASE m # NoSize
  <2>1. m \in Nat \ {0}
    BY <1>2
  <2>2. getOffset(m, getOffset(m, base, b, n), b, k) = getOffset(m, base, b, n + k)
    BY <2>1, OffsetAdvances
  <2> QED
    BY <1>2, <2>2 DEF OffsetOn
<1> QED
  BY <1>1, <1>2

LEMMA OffsetStays ==
  ASSUME NEW m \in Nat \cup {NoSize}, m # 0, NEW base \in Nat, NEW b \in Nat,
         m # NoSize => base < m
  PROVE  OffsetOn(m, base, b, 0) = base
<1>1. base + 0 * b = base
  OBVIOUS
<1>2. CASE m = NoSize
  BY <1>1, <1>2 DEF OffsetOn
<1>3. CASE m # NoSize
  <2>1. base % m = base
    BY <1>3, RemainderOfSmall
  <2> QED
    BY <1>1, <1>3, <2>1 DEF OffsetOn, getOffset
<1> QED
  BY <1>2, <1>3

LEMMA EnterRight ==
  ASSUME max_offset \in Nat \cup {NoSize}, max_offset # 0, ArgsOK,
         NEW th \in ThreadType, th.pc = "deferred" \/ th.pc = "none", Fresh(th), Accounted(th),
         max_offset # NoSize => th.read_offset < max_offset
  PROVE  Right(Enter(th))
<1>. DEFINE new == Enter(th)
<1>1. CASE args.lib = "SYNCIO"
  <2>1. /\ new.pc = IF Stress THEN "iteration" ELSE "loop"
        /\ new.due = IF Stress THEN 0 ELSE th.read_offset
        /\ new.read_offset = th.read_offset /\ new.benchmark_offset = 0
        /\ new.ops_submitted = 0 /\ new.ops_returned = 0 /\ new.ops_failed = 0
        /\ new.benchmark_opcount = 0 /\ new.done = 0
    BY <1>1 DEF Enter, Enters, ThreadType, Fresh
  <2>2. Fresh(new) /\ Accounted(new)
    BY <2>1 DEF Fresh, Accounted
  <2>3. th.read_offset \in Nat /\ BufferSize \in Nat
    BY Sizes DEF ThreadType
  <2>4. OffsetOn(max_offset, th.read_offset, BufferSize, 0) = th.read_offset
    BY <2>3, OffsetStays
  <2>5. max_offset # NoSize => 0 < max_offset
    OBVIOUS
  <2>6. Follows(new)
    BY <2>1, <2>3, <2>4, <2>5 DEF Follows, Base
  <2> QED
    BY <2>2, <2>6 DEF Right
<1>2. CASE args.lib # "SYNCIO"
  <2>1. /\ new.pc = "engine"
        /\ new.read_offset = th.read_offset /\ new.benchmark_offset = 0
        /\ new.benchmark_opcount = 0
    BY <1>2 DEF Enter, ThreadType, Fresh
  <2>2. max_offset # NoSize => 0 < max_offset
    OBVIOUS
  <2> QED
    BY <2>1, <2>2 DEF Right, Fresh, Accounted, Follows
<1> QED
  BY <1>1, <1>2

(* A transfer adds what it did to what was done, and goes on from where    *)
(* the one before ended.                                                   *)
LEMMA TransferredRight ==
  ASSUME ArgsOK, max_offset \in Nat \cup {NoSize}, max_offset # 0,
         NEW th \in ThreadType, Right(th), th.pc = "loop",
         NEW offset \in Positions(th), NEW moved \in Outcomes(offset)
  PROVE  Right(Transferred(th, offset, moved))
<1>. DEFINE new == Transferred(th, offset, moved)
<1>1. /\ new.pc = "loop" /\ new.benchmark_opcount = th.benchmark_opcount
      /\ new.read_offset = th.read_offset /\ new.benchmark_offset = th.benchmark_offset
      /\ new.ops_submitted = th.ops_submitted + Blocks
      /\ new.ops_returned = th.ops_returned + Blocks
      /\ new.ops_failed = th.ops_failed + (IF moved < 0 THEN Blocks ELSE 0)
      /\ new.done = th.done + (IF moved < 0 THEN 0 ELSE Blocks)
      /\ new.due = OffsetOn(max_offset, offset, BufferSize, Blocks)
  BY DEF Transferred, ThreadType, OpsOfCall, FailuresOf
<1>2. /\ th.ops_submitted \in Nat /\ th.ops_returned \in Nat /\ th.ops_failed \in Nat
      /\ th.done \in Nat /\ th.benchmark_opcount \in Nat /\ Blocks \in Nat /\ BufferSize \in Nat
      /\ Base(th) \in Nat
  BY Sizes DEF ThreadType, Base
<1>3. Fresh(new)
  BY <1>1 DEF Fresh
<1>4. Accounted(new)
  <2>1. th.done = th.benchmark_opcount + (th.ops_returned - th.ops_failed)
    BY DEF Right, Accounted
  <2>2. new.done = new.benchmark_opcount + (new.ops_returned - new.ops_failed)
    BY <1>1, <1>2, <2>1
  <2> QED
    BY <1>1, <2>2 DEF Right, Accounted
<1>5. Follows(new)
  <2>1. Base(new) = Base(th)
    BY <1>1 DEF Base
  <2>2. ASSUME args.opmode = "SEQUENTIAL"
        PROVE  new.due = OffsetOn(max_offset, Base(new), BufferSize, new.ops_submitted)
    <3>1. offset = OffsetOn(max_offset, Base(th), BufferSize, th.ops_submitted)
      BY <2>2 DEF Positions
    <3>2. OffsetOn(max_offset, offset, BufferSize, Blocks)
            = OffsetOn(max_offset, Base(th), BufferSize, th.ops_submitted + Blocks)
      <4>1. PICK base \in Nat, b \in Nat, n \in Nat, k \in Nat :
              base = Base(th) /\ b = BufferSize /\ n = th.ops_submitted /\ k = Blocks
        BY <1>2
      <4>2. OffsetOn(max_offset, OffsetOn(max_offset, base, b, n), b, k)
              = OffsetOn(max_offset, base, b, n + k)
        BY OffsetAgain
      <4> QED
        BY <3>1, <4>1, <4>2
    <3> QED
      BY <1>1, <2>1, <3>2
  <2> QED
    BY <1>1, <2>2 DEF Right, Follows
<1> QED
  BY <1>3, <1>4, <1>5 DEF Right

(* The next iteration begins where this one ended. *)
LEMMA IteratedRight ==
  ASSUME ArgsOK, max_offset \in Nat \cup {NoSize}, max_offset # 0,
         NEW th \in ThreadType, th.ops_failed <= th.ops_returned, Right(th), th.pc = "loop", Stress,
         NEW offset \in Positions(th)
  PROVE  Right(Iterated(th, offset))
<1>. DEFINE new == Iterated(th, offset)
<1>1. /\ new.pc = "iteration" /\ new.benchmark_offset = offset
      /\ new.read_offset = th.read_offset /\ new.done = th.done /\ new.due = th.due
      /\ new.benchmark_opcount = th.benchmark_opcount + (th.ops_returned - th.ops_failed)
  BY DEF Iterated, ThreadType, NextBase
<1>2. max_offset # NoSize => offset < max_offset
  BY PositionsType
<1>3. args.opmode = "SEQUENTIAL" => th.due = offset
  BY DEF Right, Follows, Positions
<1> QED
  BY <1>1, <1>2, <1>3 DEF Right, Fresh, Accounted, Follows

LEMMA ResetRight ==
  ASSUME ArgsOK, max_offset \in Nat \cup {NoSize}, max_offset # 0,
         NEW th \in ThreadType, Right(th), th.pc = "iteration"
  PROVE  Right(Reset(th))
<1>. DEFINE new == Reset(th)
<1>1. /\ new.pc = "loop" /\ new.ops_submitted = 0 /\ new.ops_returned = 0 /\ new.ops_failed = 0
      /\ new.benchmark_offset = th.benchmark_offset /\ new.read_offset = th.read_offset
      /\ new.done = th.done /\ new.due = th.due /\ new.benchmark_opcount = th.benchmark_opcount
  BY DEF Reset, ThreadType
<1>2. /\ th.benchmark_offset \in Nat /\ th.benchmark_opcount \in Nat /\ BufferSize \in Nat
      /\ max_offset # NoSize => th.benchmark_offset < max_offset
  BY Sizes DEF ThreadType, Right, Follows
<1>3. OffsetOn(max_offset, th.benchmark_offset, BufferSize, 0) = th.benchmark_offset
  BY <1>2, OffsetStays
<1>4. Stress /\ th.done = th.benchmark_opcount
  BY DEF Right, Accounted
<1>5. Base(new) = th.benchmark_offset
  BY <1>1, <1>4 DEF Base
<1>6. Accounted(new)
  BY <1>1, <1>2, <1>4 DEF Accounted
<1>7. Follows(new)
  BY <1>1, <1>3, <1>5 DEF Right, Follows
<1> QED
  BY <1>1, <1>6, <1>7 DEF Right, Fresh

LEMMA ReturnedRight ==
  ASSUME ArgsOK, NEW th \in ThreadType, Right(th), th.ops_failed <= th.ops_returned,
         th.pc = "iteration" \/ (th.pc = "loop" /\ ~Stress)
  PROVE  Right(Returned(th)) /\ ResultCount(th) = th.done \div Seconds
<1>. DEFINE new == Returned(th)
<1>1. /\ new.pc = "done" /\ new.op_count = ResultCount(th) /\ new.done = th.done
      /\ new.benchmark_offset = th.benchmark_offset /\ new.read_offset = th.read_offset
      /\ new.benchmark_opcount = th.benchmark_opcount
  BY DEF Returned, ThreadType
<1>2. ResultCount(th) = th.done \div Seconds
  <2>1. CASE th.pc = "iteration"
    BY <2>1 DEF Right, Accounted, ResultCount, Seconds
  <2>2. CASE th.pc = "loop" /\ ~Stress
    <3>1. th.done \in Nat /\ th.ops_returned \in Nat /\ th.ops_failed \in Nat
      BY DEF ThreadType
    <3>2. th.done = th.ops_returned - th.ops_failed
      BY <2>2, <3>1 DEF Right, Accounted
    <3>3. th.done \div 1 = th.done
      BY <3>1
    <3> QED
      BY <2>2, <3>2, <3>3 DEF ResultCount, Seconds
  <2> QED
    BY <2>1, <2>2
<1>3. Right(new)
  BY <1>1, <1>2 DEF Right, Fresh, Accounted, Follows
<1> QED
  BY <1>2, <1>3

LEMMA SuccessorRight ==
  ASSUME ArgsOK, max_offset \in Nat \cup {NoSize}, max_offset # 0,
         NEW th, Solvent(th), Right(th), NEW new, Successor(th, new)
  PROVE  Right(new)
<1>0. th \in ThreadType /\ th.ops_failed <= th.ops_returned
  BY DEF Solvent
<1>1. CASE new = [th EXCEPT !.pc = "crashed"] /\ th.pc = "iteration"
  BY <1>0, <1>1 DEF Right, Fresh, Accounted, Follows, ThreadType
<1>2. CASE new = [th EXCEPT !.expired = TRUE] /\ th.pc = "loop"
  BY <1>0, <1>2 DEF Right, Fresh, Accounted, Follows, Base, ThreadType
<1> QED
  BY <1>0, <1>1, <1>2, ResetRight, ReturnedRight, TransferredRight, IteratedRight DEF Successor

LEMMA EngineSuccessorRight ==
  ASSUME NEW th, Solvent(th), Right(th), NEW new, EngineSuccessor(th, new)
  PROVE  Right(new)
<1>0. th \in ThreadType /\ th.pc = "engine"
  BY DEF Solvent, EngineSuccessor
<1>1. /\ new.read_offset = th.read_offset /\ new.benchmark_offset = th.benchmark_offset
      /\ new.benchmark_opcount = th.benchmark_opcount
      /\ new.pc \in {"engine", "done", "failed", "stuck", "crashed"}
  BY <1>0 DEF EngineSuccessor, ThreadType
<1>2. new.pc = "done" => new.op_count = new.done \div Seconds
  <2>1. CASE new = [th EXCEPT !.pc = "done", !.op_count = th.done \div Seconds]
    BY <1>0, <2>1 DEF ThreadType
  <2>2. CASE new # [th EXCEPT !.pc = "done", !.op_count = th.done \div Seconds]
    BY <1>0, <2>2 DEF EngineSuccessor, ThreadType
  <2> QED
    BY <2>1, <2>2
<1> QED
  BY <1>0, <1>1, <1>2 DEF Right, Fresh, Accounted, Follows

-----------------------------------------------------------------------------
Kept == \A t \in Threads : Right(thread[t])

(* Main has not come to these threads yet. *)
Unborn ==
  \A u \in Threads :
    main \in {"check", "parse", "open"} \/ (main = "fork" /\ u >= next) => thread[u] = NoThread

Inv == Typed /\ Kept /\ Unborn

LEMMA RightStays ==
  ASSUME UNCHANGED <<args, max_offset>>, NEW u \in Threads, Right(thread'[u])
  PROVE  Right(thread[u])'
BY DEF Right, Fresh, Accounted, Follows, Base, Stress, Seconds, BufferSize

LEMMA NoThreadRight == Right(NoThread) /\ NoThread \in ThreadType
<1>1. NoThread.pc = "none" /\ NoThread \in ThreadType
  BY DEF NoThread, ThreadType
<1> QED
  BY <1>1 DEF NoThread, Right, Fresh, Accounted, Follows

LEMMA StartsRight ==
  ASSUME Inv, NEW t \in Threads, NEW new, Starts(t, new)
  PROVE  Right(new)
<1>0. max_offset \in Nat \cup {NoSize} /\ max_offset # 0 /\ ArgsOK
  BY StartsType DEF Inv, Typed, TypeOK
<1>1. CASE main = "fork" /\ (new = Enter(Born(t)) \/ new = [Born(t) EXCEPT !.pc = "deferred"])
  <2>1. StartOffset(t) \in Nat /\ (max_offset # NoSize => StartOffset(t) < max_offset)
    BY <1>0, ThreadsAssumption, StartOffsetType
  <2>2. Born(t) \in ThreadType
    BY <2>1, NoThreadType DEF Born
  <2>3. /\ Born(t).pc = "none" /\ Born(t).read_offset = StartOffset(t)
        /\ Born(t).ops_submitted = 0 /\ Born(t).ops_returned = 0 /\ Born(t).ops_failed = 0
        /\ Born(t).benchmark_opcount = 0 /\ Born(t).benchmark_offset = 0 /\ Born(t).done = 0
    BY DEF Born, NoThread
  <2>4. Fresh(Born(t)) /\ Accounted(Born(t))
    BY <2>3 DEF Fresh, Accounted
  <2>5. CASE new = Enter(Born(t))
    BY <1>0, <2>1, <2>2, <2>3, <2>4, <2>5, EnterRight
  <2>6. CASE new = [Born(t) EXCEPT !.pc = "deferred"]
    <3>1. /\ new.pc = "deferred" /\ new.read_offset = StartOffset(t)
          /\ new.ops_submitted = 0 /\ new.ops_returned = 0 /\ new.ops_failed = 0
          /\ new.benchmark_opcount = 0 /\ new.benchmark_offset = 0 /\ new.done = 0
      BY <2>2, <2>3, <2>6 DEF ThreadType
    <3>2. max_offset # NoSize => 0 < max_offset
      BY <1>0
    <3> QED
      BY <2>1, <3>1, <3>2 DEF Right, Fresh, Accounted, Follows
  <2> QED
    BY <1>1, <2>5, <2>6
<1>2. CASE thread[t].pc = "deferred" /\ new = Enter(thread[t])
  <2>1. thread[t] \in ThreadType /\ Right(thread[t])
    BY SolventThreads DEF Inv, Kept
  <2>2. max_offset # NoSize => thread[t].read_offset < max_offset
    BY <1>2, <2>1 DEF Right, Follows
  <2> QED
    BY <1>0, <1>2, <2>1, <2>2, EnterRight DEF Right
<1> QED
  BY <1>1, <1>2 DEF Starts

LEMMA InvInit == Init => Inv
<1> SUFFICES ASSUME Init PROVE Inv
  OBVIOUS
<1>1. \A t \in Threads : thread[t] = NoThread
  BY DEF Init
<1>2. Kept
  BY <1>1, NoThreadRight DEF Kept
<1> QED
  BY <1>1, <1>2, TypeInit DEF Inv, Unborn

LEMMA InvStep == Inv /\ [Next]_vars => Inv'
<1> SUFFICES ASSUME Inv, [Next]_vars
             PROVE  Inv'
  OBVIOUS
<1>0. Typed /\ Typed' /\ thread \in [Threads -> ThreadType] /\ next \in Nat
  BY TypeStep DEF Inv, Typed, TypeOK
<1>1. CASE Fork \/ RunDeferred
  <2>0. PICK t \in Threads : \E new : Starts(t, new) /\ thread' = [thread EXCEPT ![t] = new]
    BY <1>1, StartsThread
  <2>1. PICK new : Starts(t, new) /\ thread' = [thread EXCEPT ![t] = new]
    BY <2>0
  <2>2. thread'[t] = new /\ \A u \in Threads : u # t => thread'[u] = thread[u]
    BY <1>0, <2>1, OneThread
  <2>3. UNCHANGED <<args, max_offset>> /\ main' = main /\ main \in {"fork", "join"}
    BY <1>1, StartsThread
  <2>4. Right(new)
    BY <2>1, StartsRight
  <2>5. \A u \in Threads : Right(thread'[u])
    BY <2>2, <2>4 DEF Inv, Kept
  <2>6. Kept'
    BY <2>3, <2>5, RightStays DEF Kept
  <2>7. main = "fork" => t = next /\ next' = next + 1
    BY <1>1, <2>1 DEF Starts, Fork, RunDeferred, Main
  <2>8. Unborn'
    BY <1>0, <2>2, <2>3, <2>7, ThreadsAssumption DEF Inv, Unborn
  <2> QED
    BY <1>0, <2>6, <2>8 DEF Inv
<1>2. ASSUME NEW t \in Threads, Goes(t)
      PROVE  Inv'
  <2>1. PICK new : /\ Successor(thread[t], new) \/ EngineSuccessor(thread[t], new)
                   /\ thread' = [thread EXCEPT ![t] = new]
    BY <1>2, GoesOn
  <2>2. /\ thread[t].pc # "none" /\ Solvent(thread[t]) /\ Right(thread[t])
    BY <2>1, <1>0, SolventThreads DEF Successor, EngineSuccessor, Inv, Kept
  <2>3. max_offset # 0 /\ max_offset \in Nat \cup {NoSize} /\ ArgsOK
    BY <1>0, <2>2 DEF Typed, TypeOK, Started, Opened
  <2>4. Right(new)
    BY <2>1, <2>2, <2>3, SuccessorRight, EngineSuccessorRight
  <2>5. thread'[t] = new /\ \A u \in Threads : u # t => thread'[u] = thread[u]
    BY <1>0, <2>1, OneThread
  <2>6. UNCHANGED <<args, max_offset, main, next>>
    BY <1>2, GoesOn DEF mainVars
  <2>7. \A u \in Threads : Right(thread'[u])
    BY <2>4, <2>5 DEF Inv, Kept
  <2>8. Kept'
    BY <2>6, <2>7, RightStays DEF Kept
  <2>9. Unborn'
    <3>1. NoThread.pc = "none"
      BY DEF NoThread
    <3> QED
      BY <2>2, <2>5, <2>6, <3>1 DEF Inv, Unborn
  <2> QED
    BY <1>0, <2>8, <2>9 DEF Inv
<1>3. CASE MainOnly
  <2>1. UNCHANGED <<thread, args>> /\ (max_offset' # max_offset => main = "open")
    BY <1>3 DEF MainOnly, fileNameCheck, ParseArgs, fileOpenFails, fileOpen, MessageOffset,
         RemainderByZero, StartJoin, Join, PrintTotal, Stop, vars, mainVars, Main
  <2>2. Kept'
    <3>1. CASE max_offset' = max_offset
      BY <2>1, <3>1, RightStays DEF Inv, Kept
    <3>2. CASE main = "open"
      <4>1. \A u \in Threads : thread[u]' = NoThread
        BY <2>1, <3>2 DEF Inv, Unborn
      <4>2. NoThread.pc = "none" /\ NoThread.benchmark_opcount = 0 /\ NoThread.done = 0
            /\ NoThread.ops_submitted = 0 /\ NoThread.ops_returned = 0 /\ NoThread.ops_failed = 0
            /\ NoThread.benchmark_offset = 0
        BY DEF NoThread
      <4> QED
        BY <4>1, <4>2 DEF Kept, Right, Fresh, Accounted, Follows
    <3> QED
      BY <2>1, <3>1, <3>2
  <2>3. Unborn'
    <3>1. \/ main' \in {"check", "parse", "open", "fork"} /\ main \in {"check", "parse", "open"}
          \/ main' = main /\ main = "fork" /\ next' = next
          \/ main' \notin {"check", "parse", "open", "fork"}
      BY <1>3 DEF MainOnly, fileNameCheck, ParseArgs, fileOpenFails, fileOpen, MessageOffset,
           RemainderByZero, StartJoin, Join, PrintTotal, Stop, vars, mainVars, Main
    <3> QED
      BY <2>1, <3>1 DEF Inv, Unborn
  <2> QED
    BY <1>0, <2>2, <2>3 DEF Inv
<1> QED
  BY <1>1, <1>2, <1>3, NextCases

LEMMA Invariance == Spec => []Inv
BY InvInit, InvStep, PTL DEF Spec

(* Each sequential thread goes on where its last transfer ended, over the  *)
(* end of the file and from one iteration of the stress benchmark to the   *)
(* next.                                                                   *)
THEOREM SequentialOffsets == Spec => []SequentialWithoutGaps
<1>1. Inv => SequentialWithoutGaps
  BY DEF Inv, Kept, Right, Follows, SequentialWithoutGaps, InLoop, Positions
<1> QED
  BY <1>1, Invariance, PTL

-----------------------------------------------------------------------------
(* Each thread as the abstract Engine.                                     *)
StageOf(th) == CASE th.pc = "done"   -> "returned"
                 [] th.pc = "failed" -> "failed"
                 [] OTHER            -> "working"

(* What a step makes of a thread, in the terms of the Engine.              *)
Idles(th, new) ==
  StageOf(new) = StageOf(th) /\ new.done = th.done /\ new.op_count = th.op_count
Works(th, new) ==
  /\ StageOf(th) = "working" /\ StageOf(new) = "working" /\ new.op_count = th.op_count
  /\ new.done \in Nat /\ new.done > th.done
Returns(th, new) ==
  /\ StageOf(th) = "working" /\ StageOf(new) = "returned" /\ new.done = th.done
  /\ Seconds # 0 /\ new.op_count = th.done \div Seconds
Fails(th, new) ==
  /\ StageOf(th) = "working" /\ StageOf(new) = "failed" /\ new.done = th.done
  /\ new.op_count = 0

EngineNext(th, new) == Idles(th, new) \/ Works(th, new) \/ Returns(th, new) \/ Fails(th, new)

LEMMA StartsIdle ==
  ASSUME Inv, NEW t \in Threads, NEW new, Starts(t, new)
  PROVE  Idles(thread[t], new)
<1>1. /\ \/ thread[t] = NoThread /\ (new = Enter(Born(t)) \/ new = [Born(t) EXCEPT !.pc = "deferred"])
         \/ thread[t].pc = "deferred" /\ new = Enter(thread[t])
      /\ thread[t] \in ThreadType
  BY SolventThreads, ThreadsAssumption DEF Starts, Inv, Unborn
<1>2. ASSUME NEW th \in ThreadType
      PROVE  /\ Enter(th).pc \in {"iteration", "loop", "engine"}
             /\ Enter(th).done = th.done /\ Enter(th).op_count = th.op_count
  BY DEF Enter, Enters, ThreadType
<1>3. CASE thread[t].pc = "deferred" /\ new = Enter(thread[t])
  BY <1>1, <1>2, <1>3 DEF Idles, StageOf
<1>4. CASE thread[t] = NoThread /\ (new = Enter(Born(t)) \/ new = [Born(t) EXCEPT !.pc = "deferred"])
  <2>1. max_offset \in Nat \cup {NoSize} /\ max_offset # 0
    BY StartsType DEF Inv, Typed, TypeOK
  <2>2. Born(t) \in ThreadType
    BY <2>1, ThreadsAssumption, StartOffsetType, NoThreadType DEF Born
  <2>3. /\ Born(t).done = thread[t].done /\ Born(t).op_count = thread[t].op_count
        /\ thread[t].pc = "none"
    BY <1>4 DEF Born, NoThread
  <2>4. /\ new.pc \in {"deferred", "iteration", "loop", "engine"}
        /\ new.done = Born(t).done /\ new.op_count = Born(t).op_count
    BY <1>2, <1>4, <2>2 DEF ThreadType
  <2> QED
    BY <2>3, <2>4 DEF Idles, StageOf
<1> QED
  BY <1>1, <1>3, <1>4

LEMMA SuccessorIsEngine ==
  ASSUME ArgsOK, max_offset \in Nat \cup {NoSize}, max_offset # 0,
         NEW th, Solvent(th), Right(th), NEW new, Successor(th, new)
  PROVE  EngineNext(th, new)
<1>0. /\ th \in ThreadType /\ th.ops_failed <= th.ops_returned
      /\ StageOf(th) = "working"
  BY DEF Solvent, Successor, StageOf
<1>1. CASE new = Reset(th) \/ new = [th EXCEPT !.pc = "crashed"]
           \/ (new = [th EXCEPT !.expired = TRUE] /\ th.pc = "loop")
  <2>1. /\ new.pc \in {"loop", "crashed"}
        /\ new.done = th.done /\ new.op_count = th.op_count
    BY <1>0, <1>1 DEF Reset, ThreadType
  <2> QED
    BY <1>0, <2>1 DEF EngineNext, Idles, StageOf
<1>2. ASSUME NEW offset \in Positions(th), new = Iterated(th, offset)
      PROVE  EngineNext(th, new)
  <2>1. new.pc = "iteration" /\ new.done = th.done /\ new.op_count = th.op_count
    BY <1>0, <1>2 DEF Iterated, ThreadType
  <2> QED
    BY <1>0, <2>1 DEF EngineNext, Idles, StageOf
<1>3. ASSUME NEW offset, NEW moved, new = Transferred(th, offset, moved), th.pc = "loop"
      PROVE  EngineNext(th, new)
  <2>1. /\ new.pc = "loop" /\ new.op_count = th.op_count
        /\ new.done = th.done + (IF moved < 0 THEN 0 ELSE Blocks)
    BY <1>0, <1>3 DEF Transferred, ThreadType
  <2>2. th.done \in Nat /\ Blocks \in Nat /\ Blocks # 0
    BY <1>0, Sizes DEF ThreadType
  <2>3. StageOf(new) = "working"
    BY <2>1 DEF StageOf
  <2>4. CASE moved < 0
    BY <1>0, <2>1, <2>2, <2>3, <2>4 DEF EngineNext, Idles
  <2>5. CASE ~(moved < 0)
    BY <1>0, <2>1, <2>2, <2>3, <2>5 DEF EngineNext, Works
  <2> QED
    BY <2>4, <2>5
<1>4. ASSUME new = Returned(th),
             (th.pc = "iteration" /\ args.runtime # 0) \/ (th.pc = "loop" /\ ~Stress)
      PROVE  EngineNext(th, new)
  <2>1. new.pc = "done" /\ new.done = th.done /\ new.op_count = ResultCount(th)
    BY <1>0, <1>4 DEF Returned, ThreadType
  <2>2. ResultCount(th) = th.done \div Seconds
    BY <1>0, <1>4, ReturnedRight
  <2>3. Seconds # 0
    BY <1>4 DEF Seconds, Right, Accounted
  <2>4. StageOf(new) = "returned"
    BY <2>1 DEF StageOf
  <2> QED
    BY <1>0, <2>1, <2>2, <2>3, <2>4 DEF EngineNext, Returns
<1> QED
  BY <1>1, <1>2, <1>3, <1>4 DEF Successor

LEMMA OtherIsEngine ==
  ASSUME NEW th, Solvent(th), NEW new, EngineSuccessor(th, new)
  PROVE  EngineNext(th, new)
<1>0. th \in ThreadType /\ th.pc = "engine" /\ StageOf(th) = "working" /\ th.done \in Nat
  BY DEF Solvent, EngineSuccessor, StageOf, ThreadType
<1>1. CASE new = [th EXCEPT !.done = @ + 1]
  <2>1. new.pc = "engine" /\ new.done = th.done + 1 /\ new.op_count = th.op_count
    BY <1>0, <1>1 DEF ThreadType
  <2>2. StageOf(new) = "working"
    BY <2>1 DEF StageOf
  <2> QED
    BY <1>0, <2>1, <2>2 DEF EngineNext, Works
<1>2. CASE Seconds # 0 /\ new = [th EXCEPT !.pc = "done", !.op_count = th.done \div Seconds]
  <2>1. new.pc = "done" /\ new.done = th.done /\ new.op_count = th.done \div Seconds
    BY <1>0, <1>2 DEF ThreadType
  <2>2. StageOf(new) = "returned"
    BY <2>1 DEF StageOf
  <2> QED
    BY <1>0, <1>2, <2>1, <2>2 DEF EngineNext, Returns
<1>3. CASE new = [th EXCEPT !.pc = "failed", !.op_count = 0]
  <2>1. new.pc = "failed" /\ new.done = th.done /\ new.op_count = 0
    BY <1>0, <1>3 DEF ThreadType
  <2>2. StageOf(new) = "failed"
    BY <2>1 DEF StageOf
  <2> QED
    BY <1>0, <2>1, <2>2 DEF EngineNext, Fails
<1>4. CASE new = [th EXCEPT !.pc = "stuck"] \/ new = [th EXCEPT !.pc = "crashed"]
  <2>1. /\ new.pc \in {"stuck", "crashed"}
        /\ new.done = th.done /\ new.op_count = th.op_count
    BY <1>0, <1>4 DEF ThreadType
  <2> QED
    BY <1>0, <2>1 DEF EngineNext, Idles, StageOf
<1> QED
  BY <1>1, <1>2, <1>3, <1>4 DEF EngineSuccessor

(* The Engine's actions say the same. *)
LEMMA AsEngine ==
  ASSUME NEW t \in Threads, UNCHANGED args, EngineNext(thread[t], thread'[t])
  PROVE  [E(t)!Next]_(E(t)!vars)
<1>1. Seconds' = Seconds
  BY DEF Seconds, Stress
<1>2. Stage(t) = StageOf(thread[t]) /\ Stage(t)' = StageOf(thread'[t])
  BY DEF Stage, StageOf
<1>3. CASE Idles(thread[t], thread'[t])
  BY <1>1, <1>2, <1>3 DEF Idles, E!vars
<1>4. CASE Works(thread[t], thread'[t])
  BY <1>1, <1>2, <1>4 DEF Works, E!Next, E!Work
<1>5. CASE Returns(thread[t], thread'[t])
  BY <1>1, <1>2, <1>5 DEF Returns, E!Next, E!Return
<1>6. CASE Fails(thread[t], thread'[t])
  BY <1>1, <1>2, <1>6 DEF Fails, E!Next, E!Fail
<1> QED
  BY <1>3, <1>4, <1>5, <1>6 DEF EngineNext

LEMMA EngineInit == Init => \A t \in Threads : E(t)!Init
<1> SUFFICES ASSUME Init, NEW t \in Threads PROVE E(t)!Init
  OBVIOUS
<1>1. Seconds \in Nat
  BY TypeInit, Sizes DEF Typed
<1>2. thread[t].pc = "none" /\ thread[t].done = 0 /\ thread[t].op_count = -1
  BY DEF Init, NoThread
<1> QED
  BY <1>1, <1>2 DEF E!Init, Stage

LEMMA EngineStepOK ==
  ASSUME Inv, [Next]_vars, NEW t \in Threads
  PROVE  [E(t)!Next]_(E(t)!vars)
<1>0. Typed /\ thread \in [Threads -> ThreadType]
  BY DEF Inv, Typed, TypeOK
<1>1. CASE Fork \/ RunDeferred
  <2>0. PICK u \in Threads : \E new : Starts(u, new) /\ thread' = [thread EXCEPT ![u] = new]
    BY <1>1, StartsThread
  <2>1. PICK new : Starts(u, new) /\ thread' = [thread EXCEPT ![u] = new]
    BY <2>0
  <2>2. thread'[u] = new /\ (u # t => thread'[t] = thread[t])
    BY <1>0, <2>1, OneThread
  <2>3. UNCHANGED args
    BY <1>1, StartsThread
  <2>4. Idles(thread[t], thread'[t])
    BY <2>1, <2>2, StartsIdle DEF Idles
  <2> QED
    BY <2>3, <2>4, AsEngine DEF EngineNext
<1>2. ASSUME NEW u \in Threads, Goes(u)
      PROVE  [E(t)!Next]_(E(t)!vars)
  <2>1. PICK new : /\ Successor(thread[u], new) \/ EngineSuccessor(thread[u], new)
                   /\ thread' = [thread EXCEPT ![u] = new]
    BY <1>2, GoesOn
  <2>2. thread'[u] = new /\ (u # t => thread'[t] = thread[t])
    BY <1>0, <2>1, OneThread
  <2>3. UNCHANGED args
    BY <1>2, GoesOn
  <2>4. thread[u].pc # "none" /\ Solvent(thread[u]) /\ Right(thread[u])
    BY <2>1, <1>0, SolventThreads DEF Successor, EngineSuccessor, Inv, Kept
  <2>5. max_offset # 0 /\ max_offset \in Nat \cup {NoSize} /\ ArgsOK
    BY <1>0, <2>4 DEF Typed, TypeOK, Started, Opened
  <2>6. EngineNext(thread[u], new)
    BY <2>1, <2>4, <2>5, SuccessorIsEngine, OtherIsEngine
  <2>7. EngineNext(thread[t], thread'[t])
    BY <2>2, <2>6 DEF EngineNext, Idles
  <2> QED
    BY <2>3, <2>7, AsEngine
<1>3. CASE MainOnly
  <2>1. UNCHANGED <<thread, args>>
    BY <1>3 DEF MainOnly, fileNameCheck, ParseArgs, fileOpenFails, fileOpen, MessageOffset,
         RemainderByZero, StartJoin, Join, PrintTotal, Stop, vars, mainVars, Main
  <2> QED
    BY <2>1, AsEngine DEF EngineNext, Idles
<1> QED
  BY <1>1, <1>2, <1>3, NextCases

(* Each thread gives one result, that is what it has done, for each second *)
(* in the stress benchmark, or zero after a failure.                       *)
THEOREM RefinesEngine == Spec => ImplementsEngine
<1>1. Inv /\ [Next]_vars => [\A t \in Threads : [E(t)!Next]_(E(t)!vars)]_vars
  BY EngineStepOK
<1> QED
  BY <1>1, EngineInit, Invariance, PTL DEF Spec, ImplementsEngine

-----------------------------------------------------------------------------
(* Why a thread, or main, was ended by a signal; and where threads start.  *)
ThreadCrash == \/ Stress /\ args.runtime = 0
               \/ args.lib = "IOURING" /\ 2 * args.oio > RingDepth

Ends ==
  /\ \A t \in Threads : thread[t].pc = "crashed" => ThreadCrash
  /\ max_offset = 0 => file.kind # "char" /\ file.size = 0
  /\ main = "crashed" => ReadsNull(argv) \/ max_offset = 0

Placed ==
  \A t \in Threads :
    thread[t].pc # "none" => t < args.thread_count /\ thread[t].read_offset = StartOffset(t)

LEMMA SuccessorPlace ==
  ASSUME NEW th \in ThreadType, NEW new, Right(th),
         Successor(th, new) \/ EngineSuccessor(th, new)
  PROVE  /\ new.read_offset = th.read_offset /\ th.pc # "none"
         /\ new.pc = "crashed" => ThreadCrash
<1>1. CASE Successor(th, new)
  <2>1. new.read_offset = th.read_offset
    BY <1>1 DEF Successor, Reset, Returned, Transferred, Iterated, ThreadType
  <2>2. new.pc = "crashed" => new = [th EXCEPT !.pc = "crashed"] /\ th.pc = "iteration" /\ args.runtime = 0
    BY <1>1 DEF Successor, Reset, Returned, Transferred, Iterated, ThreadType
  <2> QED
    BY <1>1, <2>1, <2>2 DEF Successor, ThreadCrash, Right, Accounted
<1>2. CASE EngineSuccessor(th, new)
  <2>1. th.pc # "none" /\ new.read_offset = th.read_offset
    BY <1>2 DEF EngineSuccessor, ThreadType
  <2>2. new.pc = "crashed" => Seconds = 0 \/ (args.lib = "IOURING" /\ 2 * args.oio > RingDepth)
    BY <1>2 DEF EngineSuccessor, ThreadType
  <2>3. Seconds = 0 => Stress /\ args.runtime = 0
    BY DEF Seconds
  <2> QED
    BY <2>1, <2>2, <2>3 DEF ThreadCrash
<1> QED
  BY <1>1, <1>2

LEMMA StartsPlace ==
  ASSUME Inv, Placed, NEW t \in Threads, NEW new, Starts(t, new), Fork \/ RunDeferred
  PROVE  /\ t < args.thread_count /\ new.read_offset = StartOffset(t)
         /\ new.pc # "crashed"
<1>1. ASSUME NEW th \in ThreadType
      PROVE  Enter(th).read_offset = th.read_offset /\ Enter(th).pc # "crashed"
  BY DEF Enter, Enters, ThreadType
<1>2. CASE main = "fork"
  <2>1. t < args.thread_count /\ max_offset # 0 /\ max_offset \in Nat \cup {NoSize}
    BY <1>2 DEF Starts, Fork, RunDeferred, Main, LaunchesMore, Inv, Typed, TypeOK
  <2>2. Born(t) \in ThreadType
    BY <2>1, ThreadsAssumption, StartOffsetType, NoThreadType DEF Born
  <2>3. Born(t).read_offset = StartOffset(t)
    BY DEF Born, NoThread
  <2>4. /\ [Born(t) EXCEPT !.pc = "deferred"].read_offset = StartOffset(t)
        /\ [Born(t) EXCEPT !.pc = "deferred"].pc = "deferred"
    BY <2>2, <2>3 DEF ThreadType
  <2> QED
    BY <1>1, <1>2, <2>1, <2>2, <2>3, <2>4 DEF Starts
<1>3. CASE thread[t].pc = "deferred" /\ new = Enter(thread[t])
  BY <1>1, <1>3, SolventThreads DEF Inv, Placed
<1> QED
  BY <1>2, <1>3 DEF Starts

LEMMA EndsInit == Init => Ends /\ Placed
<1> SUFFICES ASSUME Init PROVE Ends /\ Placed
  OBVIOUS
<1>1. \A t \in Threads : thread[t].pc = "none"
  BY DEF Init, NoThread
<1> QED
  BY <1>1 DEF Init, Ends, Placed, NoSize

LEMMA EndsStep == Inv /\ Ends /\ Placed /\ [Next]_vars => Ends' /\ Placed'
<1> SUFFICES ASSUME Inv, Ends, Placed, [Next]_vars
             PROVE  Ends' /\ Placed'
  OBVIOUS
<1>0. Typed /\ thread \in [Threads -> ThreadType]
  BY DEF Inv, Typed, TypeOK
<1>1. ASSUME NEW t \in Threads, NEW new, thread' = [thread EXCEPT ![t] = new],
             UNCHANGED <<args, max_offset, argv, file, main>>,
             t < args.thread_count, new.read_offset = StartOffset(t),
             new.pc = "crashed" => ThreadCrash
      PROVE  Ends' /\ Placed'
  <2>1. thread'[t] = new /\ \A u \in Threads : u # t => thread'[u] = thread[u]
    BY <1>0, <1>1, OneThread
  <2>2. ThreadCrash' = ThreadCrash /\ \A u \in Threads : StartOffset(u)' = StartOffset(u)
    BY <1>1 DEF ThreadCrash, Stress, StartOffset
  <2>3. Ends'
    BY <1>1, <2>1, <2>2 DEF Ends
  <2> QED
    BY <1>1, <2>1, <2>2, <2>3 DEF Placed
<1>2. CASE Fork \/ RunDeferred
  <2>0. PICK t \in Threads : \E new : Starts(t, new) /\ thread' = [thread EXCEPT ![t] = new]
    BY <1>2, StartsThread
  <2>1. PICK new : Starts(t, new) /\ thread' = [thread EXCEPT ![t] = new]
    BY <2>0
  <2>2. UNCHANGED <<args, max_offset, argv, file, main>>
    BY <1>2, StartsThread
  <2> QED
    BY <1>1, <1>2, <2>1, <2>2, StartsPlace
<1>3. ASSUME NEW t \in Threads, Goes(t)
      PROVE  Ends' /\ Placed'
  <2>1. PICK new : /\ Successor(thread[t], new) \/ EngineSuccessor(thread[t], new)
                   /\ thread' = [thread EXCEPT ![t] = new]
    BY <1>3, GoesOn
  <2>2. UNCHANGED <<args, max_offset, argv, file, main>>
    BY <1>3, GoesOn DEF mainVars
  <2>3. /\ new.read_offset = thread[t].read_offset /\ thread[t].pc # "none"
        /\ new.pc = "crashed" => ThreadCrash
    BY <1>0, <2>1, SuccessorPlace DEF Inv, Kept
  <2> QED
    BY <1>1, <2>1, <2>2, <2>3 DEF Placed
<1>4. CASE MainOnly
  <2>1. UNCHANGED <<thread, args, argv, file>>
    BY <1>4 DEF MainOnly, fileNameCheck, ParseArgs, fileOpenFails, fileOpen, MessageOffset,
         RemainderByZero, StartJoin, Join, PrintTotal, Stop, vars, mainVars, Main
  <2>2. \/ max_offset' = max_offset
        \/ main = "open" /\ main' # "crashed" /\ max_offset' = getFileSize(file)
    BY <1>4 DEF MainOnly, fileNameCheck, ParseArgs, fileOpenFails, fileOpen, MessageOffset,
         RemainderByZero, StartJoin, Join, PrintTotal, Stop, vars, mainVars, Main
  <2>3. main' = "crashed" /\ main # "crashed" => ReadsNull(argv) \/ max_offset = 0
    BY <1>4 DEF MainOnly, fileNameCheck, ParseArgs, fileOpenFails, fileOpen, MessageOffset,
         RemainderByZero, StartJoin, Join, PrintTotal, Stop, vars, mainVars, Main
  <2>4. Placed'
    <3>1. CASE max_offset' = max_offset
      BY <2>1, <3>1 DEF Placed, StartOffset
    <3>2. CASE main = "open"
      BY <1>0, <2>1, <3>2 DEF Placed, Typed, Started, NotYet
    <3> QED
      BY <2>2, <3>1, <3>2
  <2>5. ThreadCrash' = ThreadCrash
    BY <2>1 DEF ThreadCrash, Stress
  <2>6. getFileSize(file) = 0 => file.kind # "char" /\ file.size = 0
    BY DEF getFileSize, NoSize
  <2> QED
    BY <2>1, <2>2, <2>3, <2>4, <2>5, <2>6 DEF Ends
<1> QED
  BY <1>2, <1>3, <1>4, NextCases

LEMMA EndsAlways == Spec => [](Ends /\ Placed)
BY EndsInit, EndsStep, Invariance, PTL DEF Spec

(* No signal ends the program but for an option without its argument, an   *)
(* empty file, a stress benchmark of no seconds, or a ring too small.      *)
THEOREM CrashCauses == Spec => []CrashesOnly
<1>1. Ends => CrashesOnly
  BY DEF Ends, CrashesOnly, Alive, ThreadCrash
<1> QED
  BY <1>1, EndsAlways, PTL

(* On a file with room for all, a thread's offsets are its own, as long as *)
(* it has not read what lies between it and the next.                      *)
LEMMA OwnPart ==
  ASSUME NEW m \in Nat \ {0}, NEW first \in Nat, NEW read \in Nat, first + read < m
  PROVE  ((first % m) + read) % m = first + read
<1>1. first % m = first
  BY RemainderOfSmall
<1>2. first + read \in 0..(m - 1)
  OBVIOUS
<1> QED
  BY <1>1, <1>2, RemainderOfSmall

LEMMA InOrder ==
  ASSUME NEW gap \in Nat, NEW i \in Nat, NEW j \in Nat, i < j
  PROVE  gap * i + gap <= gap * j
<1>1. gap * (j - (i + 1)) \in Nat
  BY j - (i + 1) \in Nat
<1>2. gap * j = gap * i + gap + gap * (j - (i + 1))
  OBVIOUS
<1> QED
  BY <1>1, <1>2

(* On a file with 100 GB for each thread, no two sequential threads read   *)
(* the same bytes before one of them has read its 100 GB.                  *)
THEOREM OwnBytes == Spec => []ThreadsApart
<1>1. ASSUME Inv, Placed
      PROVE  ThreadsApart
  <2>. DEFINE within(t) == /\ InLoop(t)
                           /\ thread[t].ops_submitted * BufferSize + Bytes <= _100GB
  <2>. SUFFICES ASSUME ~Stress, max_offset >= _100GB * args.thread_count,
                       NEW t \in Threads, NEW u \in Threads, t # u, within(t), within(u)
                PROVE  \/ thread[t].due + Bytes <= thread[u].due
                       \/ thread[u].due + Bytes <= thread[t].due
    BY DEF ThreadsApart
  <2>1. /\ BufferSize \in Nat /\ Bytes \in Nat /\ Blocks \in Nat /\ Blocks # 0
        /\ args.thread_count \in Nat /\ _100GB \in Nat
    BY <1>1, Sizes, GapAssumption DEF Inv, Typed, ArgsOK
  <2>2. Bytes = 0 => BufferSize = 0
    BY <2>1 DEF Bytes
  <2>3. max_offset \in Nat \ {0}
    <3>1. max_offset # 0 /\ max_offset \in Nat \cup {NoSize}
      BY <1>1 DEF InLoop, Inv, Typed, TypeOK, Started, Opened
    <3>2. _100GB * args.thread_count \in Nat
      BY <2>1
    <3> QED
      BY <3>1, <3>2 DEF NoSize
  <2>4. ASSUME NEW v \in Threads, within(v)
        PROVE  /\ thread[v].ops_submitted * BufferSize \in Nat
               /\ thread[v].due = _100GB * v + thread[v].ops_submitted * BufferSize
    <3>. DEFINE first == _100GB * v
                read == thread[v].ops_submitted * BufferSize
    <3>1. thread[v].ops_submitted \in Nat /\ v \in Nat
      BY <1>1, SolventThreads, ThreadsAssumption DEF Inv, ThreadType
    <3>2. v < args.thread_count /\ thread[v].read_offset = first % max_offset
      BY <1>1, <2>3, <2>4 DEF Placed, StartOffset, InLoop, NoSize
    <3>3. thread[v].due = OffsetOn(max_offset, thread[v].read_offset, BufferSize,
                                   thread[v].ops_submitted)
      BY <1>1, <2>4 DEF InLoop, Inv, Kept, Right, Follows, Base
    <3>4. first \in Nat /\ read \in Nat
      BY <2>1, <3>1
    <3>5. first + _100GB <= max_offset /\ read + Bytes <= _100GB
      <4>1. first + _100GB <= _100GB * args.thread_count
        BY <2>1, <3>1, <3>2, InOrder
      <4>2. _100GB * args.thread_count \in Nat
        BY <2>1
      <4> QED
        BY <2>1, <2>3, <2>4, <3>4, <4>1, <4>2
    <3>6. /\ Bytes = 0 => read = 0
          /\ _100GB = 0 => first = 0
      BY <2>1, <2>2, <3>1
    <3>7. thread[v].due = ((first % max_offset) + read) % max_offset
      BY <2>3, <3>2, <3>3 DEF OffsetOn, getOffset, NoSize
    <3>. HIDE DEF first, read
    <3>8. first + read < max_offset
      BY <2>1, <2>3, <3>4, <3>5, <3>6
    <3>9. thread[v].due = first + read
      BY <2>3, <3>4, <3>7, <3>8, OwnPart
    <3> QED
      BY <3>4, <3>9 DEF first, read
  <2>5. /\ thread[t].due = _100GB * t + thread[t].ops_submitted * BufferSize
        /\ thread[u].due = _100GB * u + thread[u].ops_submitted * BufferSize
        /\ thread[t].ops_submitted * BufferSize \in Nat
        /\ thread[u].ops_submitted * BufferSize \in Nat
    BY <2>4
  <2>6. t \in Nat /\ u \in Nat /\ _100GB * t \in Nat /\ _100GB * u \in Nat
    BY <2>1, ThreadsAssumption
  <2>7. CASE t < u
    BY <2>1, <2>5, <2>6, <2>7, InOrder
  <2>8. CASE u < t
    BY <2>1, <2>5, <2>6, <2>8, InOrder
  <2> QED
    BY <2>6, <2>7, <2>8
<1> QED
  BY <1>1, Invariance, EndsAlways, PTL
-----------------------------------------------------------------------------
(* The file is whole calls long, and the threads are whole calls apart.    *)
WholeCalls ==
  /\ args.operation = "READ" /\ max_offset # NoSize /\ Bytes > 0
  /\ max_offset % Bytes = 0 /\ _100GB % Bytes = 0
  /\ args.opmode = "SEQUENTIAL" \/ Blocks = 1

(* Every base and, block by block, every count of a thread is of whole     *)
(* calls, so no call reaches over the end.                                 *)
OnCalls(th) ==
  th.pc # "none" =>
    /\ MultipleOf(th.read_offset, Bytes)
    /\ MultipleOf(th.benchmark_offset, Bytes)
    /\ args.opmode = "SEQUENTIAL" => MultipleOf(th.ops_submitted, Blocks)

WholeThread(th) == WholeCalls => OnCalls(th) /\ ~th.short

LEMMA FileOfCalls ==
  ASSUME ArgsOK, max_offset \in Nat \cup {NoSize}, max_offset # 0, WholeCalls
  PROVE  /\ Bytes \in Nat \ {0} /\ max_offset \in Nat \ {0}
         /\ MultipleOf(max_offset, Bytes) /\ MultipleOf(_100GB, Bytes)
         /\ MultipleOf(0, Bytes)
<1>1. Bytes \in Nat \ {0} /\ max_offset \in Nat \ {0}
  BY Sizes DEF WholeCalls
<1>2. 0 = 0 * Bytes
  BY <1>1
<1> QED
  BY <1>1, <1>2, NoRemainder, GapAssumption DEF WholeCalls, MultipleOf

(* The offset of the n-th block, if n is of whole calls. *)
LEMMA OffsetOnCall ==
  ASSUME ArgsOK, max_offset \in Nat \cup {NoSize}, max_offset # 0, WholeCalls,
         NEW base \in Nat, NEW n \in Nat, MultipleOf(base, Bytes),
         Blocks = 1 \/ MultipleOf(n, Blocks)
  PROVE  /\ MultipleOf(OffsetOn(max_offset, base, BufferSize, n), Bytes)
         /\ OffsetOn(max_offset, base, BufferSize, n) + Bytes <= max_offset
<1>1. /\ Bytes \in Nat \ {0} /\ max_offset \in Nat \ {0}
      /\ MultipleOf(max_offset, Bytes) /\ BufferSize \in Nat /\ Blocks \in Nat
  BY FileOfCalls, Sizes
<1>2. Blocks * BufferSize > 0 /\ Bytes = Blocks * BufferSize
  BY <1>1 DEF Bytes
<1>3. MultipleOf(n, Blocks)
  BY MultipleOfOne
<1>4. OffsetOn(max_offset, base, BufferSize, n) = getOffset(max_offset, base, BufferSize, n)
  BY DEF WholeCalls, OffsetOn
<1> HIDE DEF Blocks, BufferSize
<1> QED
  BY <1>1, <1>2, <1>3, <1>4, OffsetOfWhole

LEMMA PositionOnCall ==
  ASSUME ArgsOK, max_offset \in Nat \cup {NoSize}, max_offset # 0, WholeCalls,
         NEW th \in ThreadType, OnCalls(th), th.pc = "loop", NEW offset \in Positions(th)
  PROVE  MultipleOf(offset, Bytes) /\ offset + Bytes <= max_offset
<1>1. Base(th) \in Nat /\ MultipleOf(Base(th), Bytes)
  BY DEF Base, OnCalls, ThreadType
<1>2. PICK n \in Nat : /\ offset = OffsetOn(max_offset, Base(th), BufferSize, n)
                       /\ Blocks = 1 \/ n = th.ops_submitted
  BY SyncAssumption DEF Positions, ThreadType, WholeCalls
<1>3. Blocks = 1 \/ MultipleOf(n, Blocks)
  BY <1>2 DEF OnCalls, WholeCalls
<1> QED
  BY <1>1, <1>2, <1>3, OffsetOnCall

LEMMA SuccessorWhole ==
  ASSUME ArgsOK, max_offset \in Nat \cup {NoSize}, max_offset # 0,
         NEW th \in ThreadType, WholeThread(th), NEW new, Successor(th, new)
  PROVE  WholeThread(new)
<1> SUFFICES ASSUME WholeCalls PROVE OnCalls(new) /\ ~new.short
  BY DEF WholeThread
<1>0. OnCalls(th) /\ ~th.short /\ th.pc # "none"
  BY DEF WholeThread, Successor
<1>1. Blocks \in Nat /\ Bytes \in Nat /\ MultipleOf(0, Blocks)
  <2>1. Blocks \in Nat /\ 0 = 0 * Blocks /\ Bytes \in Nat
    BY Sizes
  <2> QED
    BY <2>1 DEF MultipleOf
<1>2. CASE new = Reset(th)
  <2>1. /\ new.read_offset = th.read_offset /\ new.benchmark_offset = th.benchmark_offset
        /\ new.ops_submitted = 0 /\ new.short = th.short
    BY <1>2 DEF Reset, ThreadType
  <2> QED
    BY <1>0, <1>1, <2>1 DEF OnCalls
<1>3. CASE new = Returned(th) \/ new = [th EXCEPT !.pc = "crashed"] \/ new = [th EXCEPT !.expired = TRUE]
  <2>1. /\ new.read_offset = th.read_offset /\ new.benchmark_offset = th.benchmark_offset
        /\ new.ops_submitted = th.ops_submitted /\ new.short = th.short
    BY <1>3 DEF Returned, ThreadType
  <2> QED
    BY <1>0, <2>1 DEF OnCalls
<1>4. ASSUME NEW offset \in Positions(th), NEW moved \in Outcomes(offset), th.pc = "loop",
             new = Transferred(th, offset, moved)
      PROVE  OnCalls(new) /\ ~new.short
  <2>1. /\ new.read_offset = th.read_offset /\ new.benchmark_offset = th.benchmark_offset
        /\ new.ops_submitted = th.ops_submitted + Blocks
    BY <1>4 DEF Transferred, ThreadType, OpsOfCall
  <2>2. offset + Bytes <= max_offset
    BY <1>0, <1>4, PositionOnCall
  <2>3. moved = -1 \/ moved = Bytes
    BY <1>4, <2>2 DEF Outcomes, WholeCalls
  <2>4. moved \notin 0..(Bytes - 1)
    BY <1>1, <2>3
  <2>5. ~new.short
    <3>1. new.short = (th.short \/ moved \in 0..(Bytes - 1))
      BY <1>4 DEF Transferred, ThreadType
    <3> QED
      BY <1>0, <2>4, <3>1
  <2>6. MultipleOf(Blocks, Blocks)
    <3>1. Blocks = 1 * Blocks
      BY <1>1
    <3> QED
      BY <3>1 DEF MultipleOf
  <2>7. args.opmode = "SEQUENTIAL" => MultipleOf(new.ops_submitted, Blocks)
    BY <1>0, <1>1, <2>1, <2>6, MultipleSum DEF OnCalls
  <2> QED
    BY <1>0, <2>1, <2>5, <2>7 DEF OnCalls
<1>5. ASSUME NEW offset \in Positions(th), th.pc = "loop", new = Iterated(th, offset)
      PROVE  OnCalls(new) /\ ~new.short
  <2>1. /\ new.read_offset = th.read_offset /\ new.benchmark_offset = offset
        /\ new.ops_submitted = th.ops_submitted /\ new.short = th.short
    BY <1>5 DEF Iterated, ThreadType, NextBase
  <2>2. MultipleOf(offset, Bytes)
    BY <1>0, <1>5, PositionOnCall
  <2> QED
    BY <1>0, <2>1, <2>2 DEF OnCalls
<1> QED
  BY <1>2, <1>3, <1>4, <1>5 DEF Successor

LEMMA EngineSuccessorWhole ==
  ASSUME NEW th \in ThreadType, WholeThread(th), NEW new, EngineSuccessor(th, new)
  PROVE  WholeThread(new)
<1>1. /\ new.read_offset = th.read_offset /\ new.benchmark_offset = th.benchmark_offset
      /\ new.ops_submitted = th.ops_submitted /\ new.short = th.short /\ th.pc # "none"
  BY DEF EngineSuccessor, ThreadType
<1> QED
  BY <1>1 DEF WholeThread, OnCalls

LEMMA StartsWhole ==
  ASSUME Inv, NEW t \in Threads, WholeThread(thread[t]), NEW new, Starts(t, new)
  PROVE  WholeThread(new)
<1> SUFFICES ASSUME WholeCalls PROVE OnCalls(new) /\ ~new.short
  BY DEF WholeThread
<1>0. Typed
  BY DEF Inv
<1>1. ASSUME NEW th \in ThreadType
      PROVE  /\ Enter(th).read_offset = th.read_offset
             /\ Enter(th).benchmark_offset = th.benchmark_offset
             /\ Enter(th).ops_submitted = th.ops_submitted /\ Enter(th).short = th.short
  BY DEF Enter, Enters, ThreadType
<1>2. CASE main = "fork" /\ max_offset # 0
  <2>0. /\ max_offset \in Nat \cup {NoSize} /\ ArgsOK /\ t \in Nat /\ max_offset # 0
        /\ _100GB * t \in Nat
    BY <1>0, <1>2, ThreadsAssumption, GapAssumption DEF Typed, TypeOK
  <2>1. MultipleOf(StartOffset(t), Bytes)
    <3>1. StartOffset(t) = (_100GB * t) % max_offset
      BY DEF StartOffset, WholeCalls
    <3>2. MultipleOf(_100GB * t, Bytes)
      BY <2>0, FileOfCalls, MultipleTimes
    <3> QED
      BY <2>0, <3>1, <3>2, FileOfCalls, MultipleRemainder
  <2>2. Born(t) \in ThreadType
    BY <2>0, StartOffsetType, NoThreadType DEF Born
  <2>3. /\ Born(t).read_offset = StartOffset(t) /\ Born(t).benchmark_offset = 0
        /\ Born(t).ops_submitted = 0 /\ Born(t).short = FALSE
    BY DEF Born, NoThread
  <2>4. /\ new.read_offset = StartOffset(t) /\ new.benchmark_offset = 0
        /\ new.ops_submitted = 0 /\ new.short = FALSE
    <3>1. CASE new = Enter(Born(t))
      BY <1>1, <2>2, <2>3, <3>1
    <3>2. CASE new = [Born(t) EXCEPT !.pc = "deferred"]
      BY <2>2, <2>3, <3>2 DEF ThreadType
    <3> QED
      BY <1>2, <3>1, <3>2 DEF Starts
  <2>5. MultipleOf(0, Bytes) /\ MultipleOf(0, Blocks)
    <3>1. 0 = 0 * Blocks
      BY <2>0, Sizes
    <3> QED
      BY <2>0, <3>1, FileOfCalls DEF MultipleOf
  <2> QED
    BY <2>1, <2>4, <2>5 DEF OnCalls
<1>3. CASE thread[t].pc = "deferred" /\ new = Enter(thread[t])
  BY <1>0, <1>1, <1>3, SolventThreads DEF WholeThread, OnCalls
<1> QED
  BY <1>2, <1>3 DEF Starts

(* Nothing has been read by a thread that does not run. *)
Whole == \A t \in Threads : WholeThread(thread[t]) /\ (thread[t].pc = "none" => ~thread[t].short)

LEMMA WholeInit == Init => Whole
<1> SUFFICES ASSUME Init PROVE Whole
  OBVIOUS
<1>1. \A t \in Threads : thread[t].pc = "none" /\ thread[t].short = FALSE
  BY DEF Init, NoThread
<1> QED
  BY <1>1 DEF Whole, WholeThread, OnCalls

LEMMA WholeStep == Inv /\ Whole /\ [Next]_vars => Whole'
<1> SUFFICES ASSUME Inv, Whole, [Next]_vars
             PROVE  Whole'
  OBVIOUS
<1>0. Typed /\ thread \in [Threads -> ThreadType]
  BY DEF Inv, Typed, TypeOK
<1>1. ASSUME NEW t \in Threads, NEW new, thread' = [thread EXCEPT ![t] = new],
             UNCHANGED <<args, max_offset>>, WholeThread(new), new.pc # "none"
      PROVE  Whole'
  <2>1. thread'[t] = new /\ \A u \in Threads : u # t => thread'[u] = thread[u]
    BY <1>0, <1>1, OneThread
  <2>2. WholeCalls' = WholeCalls /\ Bytes' = Bytes /\ Blocks' = Blocks
    BY <1>1 DEF WholeCalls, Bytes, BufferSize, Blocks, Stress
  <2>3. \A u \in Threads : WholeThread(thread'[u])
    BY <1>1, <2>1 DEF Whole
  <2>4. \A u \in Threads : WholeThread(thread[u])' <=> WholeThread(thread'[u])
    BY <1>1, <2>2 DEF WholeThread, OnCalls
  <2> QED
    BY <1>1, <2>1, <2>3, <2>4 DEF Whole
<1>2. CASE Fork \/ RunDeferred
  <2>0. PICK t \in Threads : \E new : Starts(t, new) /\ thread' = [thread EXCEPT ![t] = new]
    BY <1>2, StartsThread
  <2>1. PICK new : Starts(t, new) /\ thread' = [thread EXCEPT ![t] = new]
    BY <2>0
  <2>2. UNCHANGED <<args, max_offset>>
    BY <1>2, StartsThread
  <2>3. WholeThread(new) /\ new.pc # "none"
    BY <1>0, <2>1, StartsWhole, StartsType DEF Whole
  <2> QED
    BY <1>1, <2>1, <2>2, <2>3
<1>3. ASSUME NEW t \in Threads, Goes(t)
      PROVE  Whole'
  <2>1. PICK new : /\ Successor(thread[t], new) \/ EngineSuccessor(thread[t], new)
                   /\ thread' = [thread EXCEPT ![t] = new]
    BY <1>3, GoesOn
  <2>2. UNCHANGED <<args, max_offset>>
    BY <1>3, GoesOn
  <2>3. thread[t].pc # "none" /\ Solvent(thread[t]) /\ thread[t] \in ThreadType
    BY <1>0, <2>1, SolventThreads DEF Successor, EngineSuccessor
  <2>4. max_offset # 0 /\ max_offset \in Nat \cup {NoSize} /\ ArgsOK
    BY <1>0, <2>3 DEF Typed, TypeOK, Started, Opened
  <2>5. WholeThread(new) /\ new.pc # "none"
    BY <2>1, <2>3, <2>4, SuccessorWhole, EngineSuccessorWhole,
       SuccessorType, EngineSuccessorType DEF Whole
  <2> QED
    BY <1>1, <2>1, <2>2, <2>5
<1>4. CASE MainOnly
  <2>1. UNCHANGED <<thread, args>>
    BY <1>4 DEF MainOnly, fileNameCheck, ParseArgs, fileOpenFails, fileOpen, MessageOffset,
         RemainderByZero, StartJoin, Join, PrintTotal, Stop, vars, mainVars, Main
  <2>2. max_offset' = max_offset \/ main = "open"
    BY <1>4 DEF MainOnly, fileNameCheck, ParseArgs, fileOpenFails, fileOpen, MessageOffset,
         RemainderByZero, StartJoin, Join, PrintTotal, Stop, vars, mainVars, Main
  <2>3. CASE max_offset' = max_offset
    BY <2>1, <2>3 DEF Whole, WholeThread, OnCalls, WholeCalls, Bytes, BufferSize, Blocks, Stress
  <2>4. CASE main = "open"
    <3>1. \A t \in Threads : thread[t].pc = "none"
      BY <1>0, <2>4 DEF Typed, Started, NotYet
    <3> QED
      BY <2>1, <3>1 DEF Whole, WholeThread, OnCalls
  <2> QED
    BY <2>2, <2>3, <2>4
<1> QED
  BY <1>2, <1>3, <1>4, NextCases

(* On a file of whole calls, with the threads whole calls apart, no read   *)
(* that moves anything moves a part: the count of operations is one of     *)
(* whole transfers.                                                        *)
THEOREM WholeTransfers == Spec => []TransfersWhole
<1>1. Whole => TransfersWhole
  BY DEF Whole, WholeThread, WholeCalls, TransfersWhole
<1> QED
  BY <1>1, WholeInit, WholeStep, Invariance, PTL DEF Spec

-----------------------------------------------------------------------------
(* How the total comes about: threads are launched in order, and joined in *)
(* order, each after its end.                                              *)
Launches(t) == thread[t].pc # "none"

InOrderOfThreads ==
  /\ \A t, u \in Threads : Launches(t) /\ u < t => Launches(u)
  /\ main \in {"check", "parse", "open"} => next = 0
  /\ main = "fork" => \A t \in Threads : Launches(t) <=> t < next
  /\ main = "join" => \A t \in Threads : Launches(t) /\ t < next => HasResult(t)
  /\ \A t \in Threads : thread[t].pc = "failed" => thread[t].op_count = 0

(* Nothing is printed before every thread that was launched has ended.     *)
AllJoined == main = "printed" => \A t \in Threads : Launches(t) => HasResult(t)

(* What a thread's result stands for; and a step that goes on to the next  *)
(* thread adds that, once, and no other step adds anything.                *)
Share(t) == IF thread[t].pc = "failed" THEN 0 ELSE thread[t].done \div Seconds

AddsShare ==
  IF main = "join" /\ next' # next
  THEN HasResult(next) /\ next' = next + 1 /\ totalOps' = totalOps + Share(next)
  ELSE totalOps' = totalOps

LEMMA SuccessorKeepsResult ==
  ASSUME NEW th \in ThreadType, NEW new, Successor(th, new) \/ EngineSuccessor(th, new)
  PROVE  /\ th.pc \notin {"none", "done", "failed"}
         /\ new.pc = "failed" => new.op_count = 0
<1>1. CASE Successor(th, new)
  BY <1>1 DEF Successor, Reset, Returned, Transferred, Iterated, ThreadType
<1>2. CASE EngineSuccessor(th, new)
  BY <1>2 DEF EngineSuccessor, ThreadType
<1> QED
  BY <1>1, <1>2

LEMMA StartsResult ==
  ASSUME Inv, NEW t \in Threads, NEW new, Starts(t, new)
  PROVE  /\ new.pc \notin {"none", "failed"}
         /\ main = "join" => Launches(t) /\ ~HasResult(t)
<1>0. Typed /\ thread[t] \in ThreadType
  BY SolventThreads DEF Inv
<1>1. CASE main = "fork" /\ max_offset # 0
  <2>1. max_offset \in Nat \cup {NoSize} /\ t \in Nat
    BY <1>0, ThreadsAssumption DEF Typed, TypeOK
  <2>2. Born(t) \in ThreadType
    BY <1>1, <2>1, StartOffsetType, NoThreadType DEF Born
  <2>3. Enter(Born(t)).pc \in {"iteration", "loop", "engine"}
    BY <2>2, EnterType
  <2>4. [Born(t) EXCEPT !.pc = "deferred"].pc = "deferred"
    BY <2>2 DEF ThreadType
  <2> QED
    BY <1>1, <2>3, <2>4 DEF Starts
<1>2. CASE thread[t].pc = "deferred" /\ new = Enter(thread[t])
  BY <1>0, <1>2, EnterType DEF Launches, HasResult
<1> QED
  BY <1>1, <1>2 DEF Starts

(* A thread that runs on had no result, whether it gives one or not. *)
RunsOn(t, new) ==
  /\ thread' = [thread EXCEPT ![t] = new]
  /\ Launches(t) /\ ~HasResult(t)
  /\ new.pc # "none"
  /\ new.pc = "failed" => new.op_count = 0
  /\ UNCHANGED <<main, next, totalOps>>

LEMMA ThreadRunsOn ==
  ASSUME Inv, NEW t \in Threads, Goes(t)
  PROVE  \E new : RunsOn(t, new)
<1>0. Typed
  BY DEF Inv
<1>1. PICK new : /\ Successor(thread[t], new) \/ EngineSuccessor(thread[t], new)
                 /\ thread' = [thread EXCEPT ![t] = new]
  BY GoesOn
<1>2. UNCHANGED <<main, next, totalOps>>
  BY GoesOn DEF mainVars
<1>3. Launches(t) /\ ~HasResult(t) /\ (new.pc = "failed" => new.op_count = 0)
  BY <1>0, <1>1, SuccessorKeepsResult DEF Launches, HasResult, Typed, TypeOK
<1>4. new.pc # "none"
  <2>1. Solvent(thread[t])
    BY <1>0, SolventThreads
  <2>2. max_offset # 0 /\ max_offset \in Nat \cup {NoSize} /\ ArgsOK
    BY <1>0, <1>3 DEF Typed, TypeOK, Started, Opened, Launches
  <2> QED
    BY <1>1, <2>1, <2>2, SuccessorType, EngineSuccessorType
<1> QED
  BY <1>1, <1>2, <1>3, <1>4 DEF RunsOn

(* When there is no thread left to join, all have been. *)
LEMMA AllPassed ==
  ASSUME Inv, InOrderOfThreads, ~JoinsMore
  PROVE  \A t \in Threads : Launches(t) => t < next
<1>0. next \in Nat /\ \A t \in Threads : t \in Nat
  BY ThreadsAssumption DEF Inv, Typed, TypeOK
<1> SUFFICES ASSUME NEW t \in Threads, Launches(t), next <= t
             PROVE  FALSE
  BY <1>0
<1>1. next \in Threads
  BY <1>0, ThreadsAssumption
<1>2. Launches(next)
  BY <1>0, <1>1 DEF InOrderOfThreads
<1> QED
  BY <1>1, <1>2 DEF JoinsMore, Launches

LEMMA OrderInit == Init => InOrderOfThreads /\ AllJoined
<1> SUFFICES ASSUME Init PROVE InOrderOfThreads /\ AllJoined
  OBVIOUS
<1>1. \A t \in Threads : thread[t].pc = "none"
  BY DEF Init, NoThread
<1> QED
  BY <1>1 DEF Init, InOrderOfThreads, AllJoined, Launches

LEMMA OrderStep ==
  Inv /\ InOrderOfThreads /\ AllJoined /\ [Next]_vars => InOrderOfThreads' /\ AllJoined'
<1> SUFFICES ASSUME Inv, InOrderOfThreads, AllJoined, [Next]_vars
             PROVE  InOrderOfThreads' /\ AllJoined'
  OBVIOUS
<1>0. /\ Typed /\ thread \in [Threads -> ThreadType] /\ next \in Nat
      /\ \A t \in Threads : t \in Nat
  BY ThreadsAssumption DEF Inv, Typed, TypeOK
<1>1. CASE Fork
  <2>1. PICK t \in Threads : \E new : Starts(t, new) /\ thread' = [thread EXCEPT ![t] = new]
    BY <1>1, StartsThread
  <2>2. PICK new : Starts(t, new) /\ thread' = [thread EXCEPT ![t] = new]
    BY <2>1
  <2>3. new.pc \notin {"none", "failed"}
    BY <2>2, StartsResult
  <2>4. main = "fork" /\ main' = "fork" /\ next' = next + 1 /\ t = next
    BY <1>1, <2>2 DEF Fork, Main, Starts
  <2>5. thread'[t] = new /\ \A u \in Threads : u # t => thread'[u] = thread[u]
    BY <1>0, <2>2, OneThread
  <2>6. ASSUME NEW u \in Threads
        PROVE  thread'[u].pc # "none" <=> u < next + 1
    <3>1. thread[u].pc # "none" <=> u < next
      BY <2>4 DEF InOrderOfThreads, Launches
    <3>2. CASE u = t
      BY <1>0, <2>3, <2>4, <2>5, <3>2
    <3>3. CASE u # t
      <4>1. u < next <=> u < next + 1
        BY <1>0, <2>4, <3>3
      <4> QED
        BY <2>5, <3>1, <3>3, <4>1
    <3> QED
      BY <3>2, <3>3
  <2>7. \A u \in Threads : thread'[u].pc = "failed" => thread'[u].op_count = 0
    BY <2>3, <2>5 DEF InOrderOfThreads
  <2>8. \A u, v \in Threads : Launches(u)' /\ v < u => Launches(v)'
    BY <1>0, <2>6 DEF Launches
  <2> QED
    BY <2>4, <2>6, <2>7, <2>8 DEF InOrderOfThreads, AllJoined, Launches
<1>2. ASSUME NEW t \in Threads, NEW new, thread' = [thread EXCEPT ![t] = new],
             Launches(t), ~HasResult(t), new.pc # "none",
             new.pc = "failed" => new.op_count = 0, UNCHANGED <<main, next>>
      PROVE  InOrderOfThreads' /\ AllJoined'
  <2>1. thread'[t] = new /\ \A u \in Threads : u # t => thread'[u] = thread[u]
    BY <1>0, <1>2, OneThread
  <2>2. \A u \in Threads : (Launches(u)' <=> Launches(u)) /\ (HasResult(u) => HasResult(u)')
    BY <1>2, <2>1 DEF Launches, HasResult
  <2>3. \A u \in Threads : thread'[u].pc = "failed" => thread'[u].op_count = 0
    BY <1>2, <2>1 DEF InOrderOfThreads
  <2> QED
    BY <1>2, <2>2, <2>3 DEF InOrderOfThreads, AllJoined
<1>3. CASE RunDeferred
  <2>1. PICK t \in Threads : \E new : Starts(t, new) /\ thread' = [thread EXCEPT ![t] = new]
    BY <1>3, StartsThread
  <2>2. PICK new : Starts(t, new) /\ thread' = [thread EXCEPT ![t] = new]
    BY <2>1
  <2>3. main = "join" /\ UNCHANGED <<main, next>>
    BY <1>3 DEF RunDeferred, Main
  <2>4. Launches(t) /\ ~HasResult(t) /\ new.pc \notin {"none", "failed"}
    BY <2>2, <2>3, StartsResult
  <2> QED
    BY <1>2, <2>2, <2>3, <2>4
<1>4. ASSUME NEW t \in Threads, Goes(t)
      PROVE  InOrderOfThreads' /\ AllJoined'
  <2>1. PICK new : RunsOn(t, new)
    BY <1>4, ThreadRunsOn
  <2> QED
    BY <1>2, <2>1 DEF RunsOn
<1>5. CASE MainOnly
  <2>1. UNCHANGED thread
    BY <1>5 DEF MainOnly, fileNameCheck, ParseArgs, fileOpenFails, fileOpen, MessageOffset,
         RemainderByZero, StartJoin, Join, PrintTotal, Stop, vars, mainVars, Main
  <2>2. \A u \in Threads : (Launches(u)' <=> Launches(u)) /\ (HasResult(u)' <=> HasResult(u))
    BY <2>1 DEF Launches, HasResult
  <2>3. CASE Join
    <3>1. main = "join" /\ main' = "join" /\ HasResult(next) /\ next' = next + 1
      BY <2>3 DEF Join, Main
    <3>2. \A t \in Threads : Launches(t) /\ t < next + 1 => HasResult(t)
      BY <1>0, <3>1 DEF InOrderOfThreads
    <3> QED
      BY <2>1, <2>2, <3>1, <3>2 DEF InOrderOfThreads, AllJoined
  <2>4. CASE PrintTotal
    <3>1. main = "join" /\ main' = "printed" /\ ~JoinsMore
      BY <2>4 DEF PrintTotal, Main
    <3>2. \A t \in Threads : Launches(t) => t < next
      BY <3>1, AllPassed
    <3> QED
      BY <2>1, <2>2, <3>1, <3>2 DEF InOrderOfThreads, AllJoined
  <2>5. CASE StartJoin
    <3>1. main' = "join" /\ next' = 0
      BY <2>5 DEF StartJoin, Main
    <3> QED
      BY <1>0, <2>1, <2>2, <3>1 DEF InOrderOfThreads, AllJoined
  <2>6. CASE ~Join /\ ~PrintTotal /\ ~StartJoin
    <3>1. /\ main' = "printed" => main = "printed"
          /\ main' = "join" => main = "join"
          /\ main' = "fork" => main \in {"fork", "open"}
          /\ main' \in {"check", "parse", "open"} => main \in {"check", "parse", "open"}
      BY <1>5, <2>6 DEF MainOnly, fileNameCheck, ParseArgs, fileOpenFails, fileOpen,
           MessageOffset, RemainderByZero, Stop, vars, mainVars, Main
    <3>2. next' = next
      BY <1>5, <2>6 DEF MainOnly, fileNameCheck, ParseArgs, fileOpenFails, fileOpen,
           MessageOffset, RemainderByZero, Stop, vars, mainVars, Main
    <3>3. main = "open" => \A t \in Threads : Launches(t) <=> t < next
      BY <1>0 DEF InOrderOfThreads, Launches, Typed, Started, NotYet
    <3>4. /\ \A t, u \in Threads : Launches(t)' /\ u < t => Launches(u)'
          /\ \A t \in Threads : thread'[t].pc = "failed" => thread'[t].op_count = 0
      BY <2>1, <2>2 DEF InOrderOfThreads
    <3>5. /\ main' \in {"check", "parse", "open"} => next' = 0
          /\ main' = "fork" => \A t \in Threads : Launches(t)' <=> t < next'
          /\ main' = "join" => \A t \in Threads : Launches(t)' /\ t < next' => HasResult(t)'
      BY <2>2, <3>1, <3>2, <3>3 DEF InOrderOfThreads
    <3>6. AllJoined'
      BY <2>2, <3>1 DEF AllJoined
    <3> QED
      BY <3>4, <3>5, <3>6 DEF InOrderOfThreads
  <2> QED
    BY <2>3, <2>4, <2>5, <2>6
<1> QED
  BY <1>1, <1>3, <1>4, <1>5, NextCases

LEMMA StepAddsShare == Inv /\ InOrderOfThreads /\ [Next]_vars => AddsShare
<1> SUFFICES ASSUME Inv, InOrderOfThreads, [Next]_vars
             PROVE  AddsShare
  OBVIOUS
<1>0. Typed /\ next \in Nat
  BY DEF Inv, Typed, TypeOK
<1>1. CASE Join
  <2>1. /\ main = "join" /\ next' = next + 1 /\ next' # next /\ next \in Threads
        /\ HasResult(next) /\ totalOps' = totalOps + thread[next].op_count
    BY <1>0, <1>1 DEF Join, Main, JoinsMore
  <2>2. thread[next].op_count = Share(next)
    BY <2>1 DEF HasResult, Share, InOrderOfThreads, Inv, Kept, Right, Accounted
  <2> QED
    BY <2>1, <2>2 DEF AddsShare
<1>2. CASE ~Join /\ MainOnly
  <2>1. totalOps' = totalOps /\ ~(main = "join" /\ next' # next)
    BY <1>2 DEF MainOnly, fileNameCheck, ParseArgs, fileOpenFails, fileOpen, MessageOffset,
         RemainderByZero, StartJoin, PrintTotal, Stop, vars, mainVars, Main
  <2> QED
    BY <2>1 DEF AddsShare
<1>3. CASE Fork \/ RunDeferred
  BY <1>3 DEF Fork, RunDeferred, Main, AddsShare
<1>4. ASSUME NEW t \in Threads, Goes(t)
      PROVE  AddsShare
  BY <1>4, GoesOn DEF mainVars, AddsShare
<1> QED
  BY <1>1, <1>2, <1>3, <1>4, NextCases

(* OP_CNT, but for the sum itself: when it is printed every thread that    *)
(* was launched, in get or before, has ended and been joined, and the      *)
(* steps of the second loop add what each has done, one after the other.   *)
THEOREM JoinedInOrder == Spec => []AllJoined /\ [][AddsShare]_vars
<1>1. Inv /\ InOrderOfThreads /\ [Next]_vars => [AddsShare]_vars
  BY StepAddsShare
<1> QED
  BY <1>1, OrderInit, OrderStep, Invariance, PTL DEF Spec

-----------------------------------------------------------------------------
(* The sum of the results of the threads T in closed form: as many         *)
(* elements as they have counted operations together.                      *)
Units(result, T) == UNION {{t} \X (1..result[t]) : t \in T}

LEMMA AddUnits ==
  ASSUME NEW result, NEW T, IsFiniteSet(T), NEW u, u \notin T,
         \A t \in T \cup {u} : result[t] \in Nat
  PROVE  /\ IsFiniteSet(Units(result, T))
         /\ Cardinality(Units(result, T)) \in Nat
         /\ Cardinality(Units(result, T \cup {u})) = Cardinality(Units(result, T)) + result[u]
<1>1. ASSUME NEW t \in T \cup {u}
      PROVE  IsFiniteSet({t} \X (1..result[t])) /\ Cardinality({t} \X (1..result[t])) = result[t]
  <2>1. IsFiniteSet(1..result[t]) /\ Cardinality(1..result[t]) = result[t]
    <3>1. result[t] \in Nat /\ result[t] \in Int /\ 1 \in Int
      OBVIOUS
    <3>2. Cardinality(1..result[t]) = IF 1 > result[t] THEN 0 ELSE result[t] - 1 + 1
      BY <3>1, FS_Interval
    <3>3. IsFiniteSet(1..result[t])
      BY <3>1, FS_Interval
    <3> QED
      BY <3>1, <3>2, <3>3
  <2>2. IsFiniteSet({t}) /\ Cardinality({t}) = 1
    BY FS_Singleton
  <2>3. IsFiniteSet({t} \X (1..result[t]))
    BY <2>1, <2>2, FS_Product
  <2>4. Cardinality({t} \X (1..result[t])) = Cardinality({t}) * Cardinality(1..result[t])
    BY <2>1, <2>2, FS_Product
  <2>5. result[t] \in Nat /\ 1 * result[t] = result[t]
    OBVIOUS
  <2> QED
    BY <2>1, <2>2, <2>3, <2>4, <2>5
<1>2. IsFiniteSet(Units(result, T))
  <2> DEFINE parts == {{t} \X (1..result[t]) : t \in T}
             part == [t \in T |-> {t} \X (1..result[t])]
  <2>1. part \in Surjection(T, parts)
    BY DEF Surjection
  <2>2. IsFiniteSet(parts)
    <3> HIDE DEF parts, part
    <3> QED
      BY <2>1, FS_Surjection
  <2>3. \A p \in parts : IsFiniteSet(p)
    BY <1>1
  <2> QED
    <3> HIDE DEF parts
    <3>1. IsFiniteSet(UNION parts)
      BY <2>2, <2>3, FS_UNION
    <3> QED
      BY <3>1 DEF Units, parts
<1> DEFINE own == {u} \X (1..result[u])
           both == Units(result, T) \cap own
<1>3. Units(result, T \cup {u}) = Units(result, T) \cup own
  BY DEF Units
<1>4. both = {}
  BY DEF Units
<1>5. IsFiniteSet(own) /\ Cardinality(own) = result[u]
  BY <1>1
<1>6. Cardinality(Units(result, T) \cup own) = Cardinality(Units(result, T)) + Cardinality(own) - 0
  <2> HIDE DEF own
  <2>1. Cardinality(both) = 0
    BY <1>4, FS_EmptySet
  <2> QED
    BY <1>2, <1>5, <2>1, FS_Union
<1>7. Cardinality(Units(result, T)) \in Nat
  BY <1>2, FS_CardinalityType
<1>8. result[u] \in Nat
  OBVIOUS
<1> HIDE DEF own, both
<1>9. Cardinality(Units(result, T \cup {u})) = Cardinality(Units(result, T)) + result[u]
  <2>1. Cardinality(Units(result, T \cup {u})) = Cardinality(Units(result, T) \cup own)
    BY <1>3, Zenon
  <2>2. Cardinality(Units(result, T)) + result[u] - 0 = Cardinality(Units(result, T)) + result[u]
    BY <1>7, <1>8
  <2> QED
    BY <1>5, <1>6, <2>1, <2>2, Zenon
<1> QED
  BY <1>2, <1>7, <1>9

(* Whatever the order in which they are added. *)
LEMMA SumIsUnits ==
  ASSUME NEW T, IsFiniteSet(T), NEW result, \A t \in T : result[t] \in Nat, NEW it,
         \A s \in SUBSET T : it[s] = IF s = {} THEN 0
                                     ELSE LET t == CHOOSE t \in s : TRUE
                                          IN result[t] + it[s \ {t}]
  PROVE  it[T] = Cardinality(Units(result, T))
<1> DEFINE units == [s \in SUBSET T |-> Cardinality(Units(result, s))]
<1>1. ASSUME NEW s \in SUBSET T, \A r \in SUBSET s : r # s => it[r] = units[r]
      PROVE  it[s] = units[s]
  <2>1. CASE s = {}
    <3>1. Units(result, {}) = {}
      BY DEF Units
    <3> QED
      BY <2>1, <3>1, FS_EmptySet
  <2>2. CASE s # {}
    <3>1. PICK t \in s : it[s] = result[t] + it[s \ {t}]
      BY <2>2
    <3>2. s \ {t} \in SUBSET s /\ s \ {t} # s /\ t \notin s \ {t} /\ (s \ {t}) \cup {t} = s
      OBVIOUS
    <3>3. IsFiniteSet(s \ {t})
      BY FS_Subset
    <3>4. /\ Cardinality(Units(result, s)) = Cardinality(Units(result, s \ {t})) + result[t]
          /\ Cardinality(Units(result, s \ {t})) \in Nat
      BY <3>2, <3>3, AddUnits
    <3>5. it[s \ {t}] = Cardinality(Units(result, s \ {t}))
      BY <1>1, <3>2
    <3>6. result[t] \in Nat
      OBVIOUS
    <3> QED
      BY <3>1, <3>4, <3>5, <3>6
  <2> QED
    BY <2>1, <2>2
<1>2. \A s \in SUBSET T : it[s] = units[s]
  <2> HIDE DEF units
  <2> QED
    BY <1>1, SameOnSubsets
<1> QED
  BY <1>2

(* The total is the sum of the results joined so far. *)
OpCount == [t \in Threads |-> thread[t].op_count]
Joined == {t \in Threads : Launches(t) /\ t < next}

Added ==
  /\ main \in {"check", "parse", "open", "fork"} => totalOps = 0
  /\ main \in {"join", "printed"} => totalOps = Cardinality(Units(OpCount, Joined))
  /\ main = "printed" => \A t \in Threads : Launches(t) => t < next

LEMMA JoinedFinite ==
  ASSUME Inv, InOrderOfThreads, AllJoined, main \in {"join", "printed"}
  PROVE  /\ IsFiniteSet(Joined)
         /\ \A t \in Joined : HasResult(t) /\ OpCount[t] \in Nat
<1>1. next \in Nat
  BY DEF Inv, Typed, TypeOK
<1>2. IsFiniteSet(Joined)
  <2>1. ASSUME NEW t \in Joined
        PROVE  t \in Nat /\ t <= next
    BY <1>1, ThreadsAssumption DEF Joined
  <2> HIDE DEF Joined
  <2>2. Joined \in SUBSET Nat
    BY <2>1
  <2> QED
    BY <1>1, <2>1, <2>2, FS_BoundedSetOfNaturals
<1>3. ASSUME NEW t \in Joined
      PROVE  HasResult(t) /\ OpCount[t] \in Nat
  <2>1. t \in Threads /\ HasResult(t)
    BY DEF Joined, InOrderOfThreads, AllJoined
  <2> QED
    BY <2>1 DEF OpCount, Inv, Typed, Started, Results
<1> QED
  BY <1>2, <1>3

LEMMA AddedStep ==
  Inv /\ InOrderOfThreads /\ AllJoined /\ Added /\ [Next]_vars => Added'
<1> SUFFICES ASSUME Inv, InOrderOfThreads, AllJoined, Added, [Next]_vars
             PROVE  Added'
  OBVIOUS
<1>0. /\ Typed /\ thread \in [Threads -> ThreadType] /\ next \in Nat
      /\ \A t \in Threads : t \in Nat
  BY ThreadsAssumption DEF Inv, Typed, TypeOK
<1>1. ASSUME \A t \in Threads : HasResult(t) => thread'[t] = thread[t],
             \A t \in Threads : Launches(t)' <=> Launches(t),
             UNCHANGED <<main, next, totalOps>>
      PROVE  Added'
  <2>1. Joined' = Joined
    BY <1>1 DEF Joined
  <2>2. ASSUME main \in {"join", "printed"}
        PROVE  Units(OpCount, Joined)' = Units(OpCount, Joined)
    <3>1. \A t \in Joined : OpCount'[t] = OpCount[t]
      BY <1>1, <2>2, JoinedFinite DEF OpCount, Joined
    <3> QED
      BY <2>1, <3>1 DEF Units
  <2> QED
    BY <1>1, <2>1, <2>2 DEF Added
<1>2. CASE Fork
  <2>1. main = "fork" /\ main' = "fork" /\ totalOps' = totalOps
    BY <1>2 DEF Fork, Main
  <2> QED
    BY <2>1 DEF Added
<1>3. CASE RunDeferred
  <2>1. PICK t \in Threads : \E new : Starts(t, new) /\ thread' = [thread EXCEPT ![t] = new]
    BY <1>3, StartsThread
  <2>2. PICK new : Starts(t, new) /\ thread' = [thread EXCEPT ![t] = new]
    BY <2>1
  <2>3. main = "join" /\ UNCHANGED <<main, next, totalOps>>
    BY <1>3 DEF RunDeferred, Main
  <2>4. Launches(t) /\ ~HasResult(t) /\ new.pc \notin {"none", "failed"}
    BY <2>2, <2>3, StartsResult
  <2>5. thread'[t] = new /\ \A u \in Threads : u # t => thread'[u] = thread[u]
    BY <1>0, <2>2, OneThread
  <2> QED
    BY <1>1, <2>3, <2>4, <2>5 DEF Launches
<1>4. ASSUME NEW t \in Threads, Goes(t)
      PROVE  Added'
  <2>1. PICK new : RunsOn(t, new)
    BY <1>4, ThreadRunsOn
  <2>2. thread'[t] = new /\ \A u \in Threads : u # t => thread'[u] = thread[u]
    BY <1>0, <2>1, OneThread DEF RunsOn
  <2> QED
    BY <1>1, <2>1, <2>2 DEF RunsOn, Launches
<1>5. CASE MainOnly
  <2>1. UNCHANGED thread
    BY <1>5 DEF MainOnly, fileNameCheck, ParseArgs, fileOpenFails, fileOpen, MessageOffset,
         RemainderByZero, StartJoin, Join, PrintTotal, Stop, vars, mainVars, Main
  <2>2. /\ OpCount' = OpCount
        /\ \A u \in Threads : Launches(u)' <=> Launches(u)
    BY <2>1 DEF Launches, OpCount
  <2>3. CASE Join
    <3>1. /\ main = "join" /\ main' = "join" /\ HasResult(next) /\ next' = next + 1
          /\ next \in Threads /\ totalOps' = totalOps + OpCount[next]
      BY <2>3 DEF Join, Main, JoinsMore, OpCount
    <3>2. Launches(next) /\ next \notin Joined /\ OpCount[next] \in Nat
      BY <1>0, <3>1 DEF HasResult, Launches, Joined, OpCount, Typed, Started, Results
    <3>3. Joined' = Joined \cup {next}
      <4>1. ASSUME NEW t \in Threads
            PROVE  t < next + 1 <=> t < next \/ t = next
        BY <1>0
      <4> QED
        BY <2>2, <3>1, <3>2, <4>1 DEF Joined
    <3>4. Cardinality(Units(OpCount, Joined \cup {next})) =
            Cardinality(Units(OpCount, Joined)) + OpCount[next]
      BY <3>1, <3>2, JoinedFinite, AddUnits
    <3> QED
      BY <2>2, <3>1, <3>3, <3>4 DEF Added
  <2>4. CASE PrintTotal
    <3>1. main = "join" /\ main' = "printed" /\ ~JoinsMore /\ UNCHANGED <<next, totalOps>>
      BY <2>4 DEF PrintTotal, Main
    <3>2. \A t \in Threads : Launches(t) => t < next
      BY <3>1, AllPassed
    <3>3. Joined' = Joined
      BY <2>2, <3>1 DEF Joined
    <3> QED
      BY <2>2, <3>1, <3>2, <3>3 DEF Added
  <2>5. CASE StartJoin
    <3>1. main = "fork" /\ main' = "join" /\ next' = 0 /\ totalOps' = totalOps
      BY <2>5 DEF StartJoin, Main
    <3>2. Joined' = {}
      BY <1>0, <3>1 DEF Joined
    <3>3. Units(OpCount, {}) = {}
      BY DEF Units
    <3> QED
      BY <2>2, <3>1, <3>2, <3>3, FS_EmptySet DEF Added
  <2>6. CASE ~Join /\ ~PrintTotal /\ ~StartJoin
    <3>1. /\ main' = "printed" => main = "printed"
          /\ main' = "join" => main = "join"
          /\ main' \in {"check", "parse", "open", "fork"} =>
               main \in {"check", "parse", "open", "fork"}
      BY <1>5, <2>6 DEF MainOnly, fileNameCheck, ParseArgs, fileOpenFails, fileOpen,
           MessageOffset, RemainderByZero, Stop, vars, mainVars, Main
    <3>2. next' = next /\ totalOps' = totalOps
      BY <1>5, <2>6 DEF MainOnly, fileNameCheck, ParseArgs, fileOpenFails, fileOpen,
           MessageOffset, RemainderByZero, Stop, vars, mainVars, Main
    <3>3. Joined' = Joined
      BY <2>2, <3>2 DEF Joined
    <3> QED
      BY <2>2, <3>1, <3>2, <3>3 DEF Added
  <2> QED
    BY <2>3, <2>4, <2>5, <2>6
<1> QED
  BY <1>2, <1>3, <1>4, <1>5, NextCases

(* The sum of what the threads have done, in the order MapThenSumSet adds  *)
(* it, is the sum of the results, in the order of the threads.             *)
LEMMA TotalOfAdded ==
  Inv /\ InOrderOfThreads /\ AllJoined /\ Added => TotalIsDone
<1> SUFFICES ASSUME Inv, InOrderOfThreads, AllJoined, Added, main = "printed"
             PROVE  TotalIsDone
  BY DEF TotalIsDone
<1>1. \A t \in Threads : Launches(t) => HasResult(t) /\ t < next
  BY DEF AllJoined, Added
<1>2. {t \in Threads : thread[t].pc # "none"} = Joined
  BY <1>1 DEF Joined, Launches
<1>3. /\ IsFiniteSet(Joined)
      /\ \A t \in Joined : HasResult(t) /\ OpCount[t] \in Nat
  BY JoinedFinite
<1>4. \A t \in Joined : OpCount[t] = Share(t)
  BY <1>3 DEF HasResult, Joined, OpCount, Share, InOrderOfThreads, Inv, Kept, Right, Accounted
<1> DEFINE IsSum(it) == it = [s \in SUBSET Joined |->
                                IF s = {} THEN 0
                                ELSE LET t == CHOOSE t \in s : TRUE IN Share(t) + it[s \ {t}]]
           it == CHOOSE it : IsSum(it)
           units == [s \in SUBSET Joined |-> Cardinality(Units(OpCount, s))]
<1>5. MapThenSumSet(Share, Joined) = it[Joined]
  BY Zenon DEF MapThenSumSet, MapThenFoldSet, Share
<1>6. IsSum(units)
  <2>1. ASSUME NEW s \in SUBSET Joined
        PROVE  units[s] = IF s = {} THEN 0
                          ELSE LET t == CHOOSE t \in s : TRUE IN Share(t) + units[s \ {t}]
    <3>1. CASE s = {}
      <4>1. Units(OpCount, {}) = {}
        BY DEF Units
      <4> QED
        BY <3>1, <4>1, FS_EmptySet
    <3>2. CASE s # {}
      <4> DEFINE t == CHOOSE t \in s : TRUE
      <4>1. t \in s
        BY <3>2
      <4> HIDE DEF t
      <4>2. t \notin s \ {t} /\ (s \ {t}) \cup {t} = s
        BY <4>1
      <4>3. IsFiniteSet(s \ {t})
        BY <1>3, FS_Subset
      <4>4. /\ Cardinality(Units(OpCount, s)) = Cardinality(Units(OpCount, s \ {t})) + OpCount[t]
            /\ Cardinality(Units(OpCount, s \ {t})) \in Nat
        BY <1>3, <4>2, <4>3, AddUnits
      <4>5. OpCount[t] \in Nat /\ OpCount[t] = Share(t)
        BY <1>3, <1>4, <4>1
      <4>6. units[s] = Share(t) + units[s \ {t}]
        BY <4>4, <4>5
      <4> QED
        BY <3>2, <4>6 DEF t
    <3> QED
      BY <3>1, <3>2
  <2> QED
    BY <2>1, Zenon
<1>7. IsSum(it)
  BY <1>6, Zenon
<1> HIDE DEF it
<1>8. it[Joined] = Cardinality(Units(OpCount, Joined))
  <2>1. ASSUME NEW s \in SUBSET Joined
        PROVE  it[s] = IF s = {} THEN 0
                       ELSE LET t == CHOOSE t \in s : TRUE IN OpCount[t] + it[s \ {t}]
    BY <1>4, <1>7
  <2> QED
    BY <1>3, <2>1, SumIsUnits
<1>9. totalOps = MapThenSumSet(Share, Joined)
  BY <1>5, <1>8 DEF Added
<1> QED
  BY <1>1, <1>2, <1>9, Zenon DEF TotalIsDone, Share, MapThenSumSet, MapThenFoldSet, Launches

(* OP_CNT is what was done: the loop over the futures adds the results one *)
(* by one, and when it is printed their sum is that of what all threads    *)
(* that were launched have done, in any order.                             *)
THEOREM TotalsAreDone == Spec => []TotalIsDone
<1>1. Init => Added
  BY DEF Init, Added
<1> QED
  BY <1>1, OrderInit, OrderStep, AddedStep, TotalOfAdded, Invariance, PTL DEF Spec
=============================================================================
