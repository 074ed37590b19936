----------------------------- MODULE Benchmark -----------------------------
(***************************************************************************)
(* The program from its command line to the line it prints                 *)
(* (src/src/benchmark.cpp): main, and runBenchmark, which starts a thread  *)
(* with std::async for each of thread_count, gets the results in order and *)
(* adds them up.  A thread runs the synchronous engine (SyncIo); of the    *)
(* two others, which have modules of their own, it shows how they end.     *)
(***************************************************************************)
EXTENDS CommandLine, SyncIo

CONSTANTS CommandLines, \* the argv, without the program's name
          Files,        \* [opens, kind, size]: what --file may name
          _100GB,
          RingDepth     \* slots of an io_uring, 1024 in the code

(* The arguments are a function of argv. *)
ParsedArgs(a) == IF ReadsNull(a) THEN getDefaultArgs ELSE mapUserArgsToRuntimeArgs(a)

ASSUME ArgvAssumption == CommandLines \subseteq Seq(STRING)
ASSUME FilesAssumption ==
  Files \subseteq [opens : BOOLEAN, kind : {"regular", "block", "char"}, size : Nat]
ASSUME ThreadsAssumption == Threads \subseteq Nat /\ \A t \in Threads : 0..t \subseteq Threads
ASSUME GapAssumption == _100GB \in Nat /\ RingDepth \in Nat

VARIABLES argv, file,
          main,     \* where the main thread is, or how the process ended
          next,     \* of its loops over the threads
          totalOps

mainVars == <<main, next, totalOps>>
vars == <<args, max_offset, thread, argv, file, mainVars>>

(* One thread as runBenchmark sees it.  What the asynchronous engines have *)
(* done is what they count, see VectoredCountExact and Done of theirs.     *)
Stage(t) == CASE thread[t].pc = "done"   -> "returned"
              [] thread[t].pc = "failed" -> "failed"
              [] OTHER                   -> "working"
E(t) == INSTANCE Engine WITH stage <- Stage(t), done <- thread[t].done,
                             seconds <- Seconds, op_count <- thread[t].op_count

(* Nothing reads the arguments before main has parsed argv. *)
Init ==
  /\ argv \in CommandLines
  /\ file \in Files
  /\ args = ParsedArgs(argv)
  /\ max_offset = NoSize
  /\ thread = [t \in Threads |-> NoThread]
  /\ main = "check"
  /\ next = 0
  /\ totalOps = 0

(* A signal ends the process with all its threads. *)
Alive == main # "crashed" /\ \A t \in Threads : thread[t].pc # "crashed"

Main(from, to) == Alive /\ main = from /\ main' = to

-----------------------------------------------------------------------------
fileNameCheck ==
  /\ Main("check", IF HasFileName(argv) THEN "parse" ELSE "exited")
  /\ UNCHANGED <<args, max_offset, thread, argv, file, next, totalOps>>

ParseArgs ==
  /\ Main("parse", IF ReadsNull(argv) THEN "crashed" ELSE "open")
  /\ UNCHANGED <<args, max_offset, thread, argv, file, next, totalOps>>

ZeroIfOther(f) == IF f.kind \in {"regular", "block"} THEN f.size ELSE 0  \* mutant
getFileSize(f) == IF f.kind \in {"regular", "block"} THEN f.size ELSE NoSize

fileOpenFails ==
  /\ Main("open", "exited")
  /\ ~file.opens
  /\ UNCHANGED <<args, max_offset, thread, argv, file, next, totalOps>>

(* Opened, and sized: a file that open creates is empty. *)
fileOpen ==
  /\ Main("open", IF args.benchmark_type = "MSG_RATE" THEN "message" ELSE "fork")
  /\ file.opens
  /\ max_offset' = getFileSize(file)
  /\ UNCHANGED <<args, thread, argv, file, next, totalOps>>

(* runMessageRateBenchmark is MsgRate's, but for the producer's remainder  *)
(* by an empty file's size.                                                *)
MessageOffset ==
  /\ Main("message", "crashed")
  /\ max_offset = 0 /\ args.runtime > 0
  /\ UNCHANGED <<args, max_offset, thread, argv, file, next, totalOps>>

-----------------------------------------------------------------------------
(* Threads of the process are bounded by the model, too. *)
LaunchesMore == next < args.thread_count /\ next \in Threads

StartsTogether(i) == IF max_offset = NoSize THEN 0 ELSE _100GB % max_offset  \* mutant
StartOffset(i) == IF max_offset = NoSize THEN 0 ELSE (_100GB * i) % max_offset

Enter(th) == IF args.lib = "SYNCIO" THEN Enters(th) ELSE [th EXCEPT !.pc = "engine"]

(* Without a launch policy std::async may put the call off until get.      *)
Fork ==
  /\ Main("fork", "fork")
  /\ LaunchesMore
  /\ max_offset # 0
  /\ LET th == [NoThread EXCEPT !.read_offset = StartOffset(next)] IN
       \/ thread' = [thread EXCEPT ![next] = Enter(th)]
       \/ thread' = [thread EXCEPT ![next] = [th EXCEPT !.pc = "deferred"]]
  /\ next' = next + 1
  /\ UNCHANGED <<args, max_offset, argv, file, totalOps>>

RemainderByZero ==
  /\ Main("fork", "crashed")
  /\ LaunchesMore
  /\ max_offset = 0
  /\ UNCHANGED <<args, max_offset, thread, argv, file, next, totalOps>>

StartJoin ==
  /\ Main("fork", "join")
  /\ ~LaunchesMore
  /\ next' = 0
  /\ UNCHANGED <<args, max_offset, thread, argv, file, totalOps>>

JoinsMore == next \in Threads /\ thread[next].pc # "none"

RunDeferred ==
  /\ Main("join", "join")
  /\ JoinsMore
  /\ thread[next].pc = "deferred"
  /\ thread' = [thread EXCEPT ![next] = Enter(thread[next])]
  /\ UNCHANGED <<args, max_offset, argv, file, next, totalOps>>

Launched(t) == thread[t].pc # "deferred"  \* mutant: not waited for
HasResult(t) == thread[t].pc \in {"done", "failed"}

Join ==
  /\ Main("join", "join")
  /\ JoinsMore
  /\ HasResult(next)
  /\ totalOps' = totalOps + thread[next].op_count
  /\ next' = next + 1
  /\ UNCHANGED <<args, max_offset, thread, argv, file>>

PrintTotal ==
  /\ Main("join", "printed")
  /\ ~JoinsMore
  /\ UNCHANGED <<args, max_offset, thread, argv, file, next, totalOps>>

-----------------------------------------------------------------------------
(* AsyncLibaio and AsyncLiburing, from outside. *)
EngineWorks(t) ==
  /\ thread[t].pc = "engine"
  /\ Seconds # 0
  /\ thread[t].done < MaxTransfers
  /\ Becomes(t, [thread[t] EXCEPT !.done = @ + 1])

EngineReturns(t) ==
  /\ thread[t].pc = "engine"
  /\ Seconds # 0
  /\ Becomes(t, [thread[t] EXCEPT !.pc = "done", !.op_count = thread[t].done \div Seconds])

EngineFails(t) ==
  /\ thread[t].pc = "engine"
  /\ Becomes(t, [thread[t] EXCEPT !.pc = "failed", !.op_count = 0])

(* ReturnsUnlessStuck of the two modules says when. *)
EngineHangs(t) ==
  /\ thread[t].pc = "engine"
  /\ Seconds # 0
  /\ Becomes(t, [thread[t] EXCEPT !.pc = "stuck"])

(* The stress functions divide by the runtime, and an io_uring may be too  *)
(* small, see CrashOnlyAboveDepth.                                         *)
EngineCrashes(t) ==
  /\ thread[t].pc = "engine"
  /\ Seconds = 0 \/ (args.lib = "IOURING" /\ 2 * args.oio > RingDepth)
  /\ Becomes(t, [thread[t] EXCEPT !.pc = "crashed"])

EngineStep(t) ==
  EngineWorks(t) \/ EngineReturns(t) \/ EngineFails(t) \/ EngineHangs(t) \/ EngineCrashes(t)

MainStep ==
  \/ fileNameCheck \/ ParseArgs \/ fileOpenFails \/ fileOpen \/ MessageOffset
  \/ Fork \/ RemainderByZero \/ StartJoin \/ RunDeferred \/ Join \/ PrintTotal

ThreadStep(t) == Alive /\ (SyncStep(t) \/ EngineStep(t)) /\ UNCHANGED <<argv, file, mainVars>>
Clock(t) == Alive /\ Expire(t) /\ UNCHANGED <<argv, file, mainVars>>

(* main has returned or the process has died; or a get waits for ever.     *)
Ended == ~Alive \/ main \in {"exited", "printed", "message"}
Hangs == main = "join" /\ \E t \in Threads : thread[t].pc = "stuck"
Stop == (Ended \/ Hangs) /\ UNCHANGED vars

Next == MainStep \/ Stop \/ \E t \in Threads : ThreadStep(t) \/ Clock(t)

Spec == Init /\ [][Next]_vars

(* The scheduler runs every thread that can run, and time passes.          *)
FairSpec ==
  /\ Spec
  /\ WF_vars(MainStep)
  /\ \A t \in Threads : WF_vars(ThreadStep(t)) /\ WF_vars(Clock(t))

-----------------------------------------------------------------------------
ThreadType ==
  [pc : {"none", "deferred", "iteration", "loop", "engine", "done", "failed", "stuck",
         "crashed"},
   read_offset : Nat, ops_submitted : Nat, ops_returned : Nat, ops_failed : Nat,
   benchmark_iteration : Nat, benchmark_opcount : Nat, benchmark_offset : Nat,
   expired : BOOLEAN, op_count : Nat \cup {-1},
   transfers : Nat, done : Nat, short : BOOLEAN, due : Nat]

(* Types; in particular the unsigned ops_returned - ops_failed of a result *)
(* and of an iteration does not wrap, and only results are added up.       *)
TypeOK ==
  /\ argv \in CommandLines /\ file \in Files
  /\ max_offset \in Nat \cup {NoSize}
  /\ thread \in [Threads -> ThreadType]
  /\ \A t \in Threads : thread[t].ops_failed <= thread[t].ops_returned
  /\ main \in {"check", "parse", "open", "message", "fork", "join",
               "exited", "printed", "crashed"}
  /\ next \in Nat
  /\ totalOps \in Nat

(* The arguments are those meant, whatever the order and the repetitions.  *)
ParsedAsGiven == WellFormed(argv) => Meant(argv, args)

(* OP_CNT is the sum of what the threads have done, for each second in a   *)
(* stress benchmark, each thread counted once and after its end, whether   *)
(* it ran beside the others or in get; a thread that failed adds nothing.  *)
TotalIsDone ==
  main = "printed" =>
    LET launched == {t \in Threads : thread[t].pc # "none"}
        share(t) == IF thread[t].pc = "failed" THEN 0 ELSE thread[t].done \div Seconds
    IN /\ \A t \in launched : HasResult(t)
       /\ totalOps = MapThenSumSet(share, launched)

InLoop(t) == thread[t].pc = "loop" /\ args.opmode = "SEQUENTIAL"

(* A sequential thread goes on where its last transfer ended, and from one *)
(* iteration of the stress benchmark to the next, over the end of the file *)
(* too.                                                                    *)
SequentialWithoutGaps ==
  \A t \in Threads : InLoop(t) => Positions(thread[t]) = {thread[t].due}

(* The code counts a transfer that moved a part as a whole one.  There is  *)
(* none when a file, and the distance between the threads, are a multiple  *)
(* of what a call reads; or of one block where calls go block by block.    *)
TransfersWhole ==
  LET regular == /\ max_offset # NoSize /\ Bytes > 0
                 /\ max_offset % Bytes = 0 /\ _100GB % Bytes = 0
      aligned == args.opmode = "SEQUENTIAL" \/ Blocks = 1
  IN args.operation = "READ" /\ regular /\ aligned => \A t \in Threads : ~thread[t].short

(* On a file with 100 GB for each thread, sequential threads do not read   *)
(* the same bytes before one has read its 100 GB.  (Not so for the stress  *)
(* benchmark, where every thread starts at 0.)                             *)
ThreadsApart ==
  LET within(t) == /\ InLoop(t)
                   /\ thread[t].ops_submitted * BufferSize + Bytes <= _100GB
  IN ~Stress /\ max_offset >= _100GB * args.thread_count =>
       \A t, u \in Threads :
         t # u /\ within(t) /\ within(u) =>
           thread[t].due + Bytes <= thread[u].due \/ thread[u].due + Bytes <= thread[t].due

(* What ends the process with a signal: an option without its argument, an *)
(* empty file, a stress benchmark of no seconds, more operations than the  *)
(* ring has room for.                                                      *)
CrashesOnly ==
  ~Alive => \/ ReadsNull(argv)
            \/ file.kind # "char" /\ file.size = 0
            \/ Stress /\ args.runtime = 0
            \/ args.lib = "IOURING" /\ 2 * args.oio > RingDepth

(* Each thread gives one result, as its Engine: \A t : E(t)!Spec, with the *)
(* quantifier where TLC takes it.                                          *)
ImplementsEngine ==
  /\ \A t \in Threads : E(t)!Init
  /\ [][\A t \in Threads : [E(t)!Next]_(E(t)!vars)]_vars

(* The program ends, unless an asynchronous engine hangs. *)
EndsUnlessStuck == <>(Ended \/ \E t \in Threads : thread[t].pc = "stuck")
=============================================================================
