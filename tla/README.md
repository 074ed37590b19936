# TLA+ models of async-io-bench

The program under `src/` measures how many I/O operations per second a file or
a device gives through three interfaces: `pread`/`pwrite`, Linux AIO (libaio)
and io_uring. This directory models what the program counts, which buffers and
offsets it uses and when it ends; it says nothing of how fast the I/O is.

## The system

| part | source | state | operations |
|---|---|---|---|
| driver | `src/src/benchmark.cpp` | the user's arguments, a copy of them and a future for each thread | `main`, `fileNameCheck`, `mapUserArgsToRuntimeArgs`, `getFileSize`, `runBenchmark` |
| helpers | `src/src/helper.cpp`, `helper.h` | none | `getOffset`, `getTime`, `fileOpen`, `return_error`, conversions, printing |
| synchronous engine | `src/src/sync_io.cpp` | counters, offset, buffers | `_syncio`, `_syncio_vectored`, `_syncio_stress`, `syncio` |
| libaio engine | `src/src/async_libaio.cpp` | counters, offsets, `oio` buffers and iocbs, an AIO context | `_async_libaio`, `_async_libaio_vectored`, `_async_libaio_stress`, `async_libaio` |
| io_uring engine | `src/src/async_liburing.cpp` | counters, offsets, `oio` buffers, a ring | plain vectored, fixed buffers, each also with submission-queue polling, stress, `async_liburing` |
| work queue | `src/src/msg_rate.cpp:19-61` | queue, mutex, condition variable | `push_work`, `wait_and_pop` |
| message-rate benchmark | `src/src/msg_rate.cpp:63-207` | the two threads' locals, a ring | `_io_request_producer`, `_io_request_handler`, `runMessageRateBenchmark` |
| scripts | `src/benchmark.py`, `src/Makefile` | none | run the program over a grid of arguments |

How they interact:

- `main` parses the arguments and calls `runBenchmark`, which starts one
  asynchronous call of an engine per thread, joins them all and adds up their
  `op_count`s; or, for `--btype msg`, `runMessageRateBenchmark`, which starts a
  producer and a handler and joins both. Benchmark threads share only the file
  and `rand()`.
- An engine's thread and the kernel communicate through a context or a ring:
  the thread hands over operations that refer to its buffers, the kernel
  completes them in any order.
- Producer and handler share one `WorkQueue`. Nothing tells the handler that
  the producer is done: it stops by its own clock or when `wait_and_pop`, after
  one second without a request, makes up one with offset -1.

What is hard, and what makes each part correct:

- *Work queue.* `push_work` tests for emptiness before it pushes, and notifies
  after it unlocked, and only if the queue was empty. `wait_and_pop` waits with a
  limit, can wake up for nothing, and gives up by a clock it looks at only when
  the queue is empty. Correct is: a FIFO that loses, repeats and reorders
  nothing, gives up only on an empty queue, and leaves no handler asleep beside
  a request.
- *Message-rate benchmark.* Two clocks started by two threads in any order, a
  batch that is submitted only when complete, buffers selected by a counter
  reset per batch, results of the submission that are not looked at. Correct is:
  requests are handled once and in order, the reported count is of operations
  done with the library chosen, no buffer is used twice at once, both threads end.
- *Asynchronous engines.* A submission may be cut short, an operation may fail,
  a wait may time out with operations in flight; the code goes on in each case,
  and each function counts differently. Correct is: each operation is counted
  once, unsigned subtractions do not wrap, no buffer is used by two
  operations, sequential offsets have no gap, and the function returns.
- *Driver and synchronous engine.* Options in any order, repeated or without their
  argument; the offsets where threads start; threads that run at once or only when
  their result is asked for; arithmetic at sizes zero and -1 and at runtime zero;
  files that end in the middle of a block. Correct is: the arguments are those
  given, threads read parts of their own and without gaps, the total is what was
  done, each thread counted once, and no signal ends the program.

`PROJECT.json` lists the hazards one by one, with the line of each and the
properties that cover it.

## The modules

| module | models | notes |
|---|---|---|
| `FifoQueue` | what a `WorkQueue` promises | the abstract specification |
| `WorkQueue` | class `WorkQueue` | one producer and one handler, as `runMessageRateBenchmark` starts |
| `IoUring` | a ring, as the code uses it | external: kernel and liburing are not in the repository |
| `MsgRate` | the two threads of the message-rate benchmark | uses `WorkQueue` and `IoUring` through `INSTANCE` |
| `AioContext` | an AIO context, as the code uses it | external |
| `Offsets` | `getOffset` | as a remainder of numbers, and in words of a given width |
| `AsyncLibaio` | one thread of the libaio engine | the three functions share one loop, so one module; uses `AioContext`, `Offsets`; implements `Engine` |
| `AsyncLiburing` | one thread of the io_uring engine, with the kernel's polling thread | the five functions share one loop; uses `IoUring`, `Offsets` |
| `Engine` | what `runBenchmark` expects of a thread | the second abstract specification |
| `CommandLine` | `fileNameCheck`, `mapUserArgsToRuntimeArgs` | functions of `argv` |
| `SyncIo` | a thread of the synchronous engine | the three functions share one loop; uses `Offsets` |
| `Benchmark` | `main`, `getFileSize`, `runBenchmark` | extends `CommandLine` and `SyncIo`: the whole program with that engine |
| `IoUringLemmas` | | how many completions failed, and what is left of a queue; lemmas of both users of a ring |
| `WorkQueueProofs`, `MsgRateProofs`, `OffsetsProofs`, `AsyncLibaioProofs`, `AsyncLiburingProofs`, `CommandLineProofs`, `BenchmarkProofs` | | theorems and proofs |
| `MCWorkQueue`, `MCMsgRate`, `MCAsyncLibaio`, `MCAsyncLiburing`, `MCBenchmark` | | the arguments TLC uses |

Variables have the names of the code's variables where it has any. Variables
that stand for a program counter (`push`, `pop`, `producer`, `handler`, `pc`)
hold the name of the place the thread has reached. Some operators have a variant
commented as a mutant next to them: it is the same code with a plausible slip,
and shows that the property listed with it in `PROJECT.json` would notice.

### WorkQueue

An action is the code between two points where another thread can interfere,
or one test under the mutex. `PushLock`, `PushTest`, `PushAppend` (push and unlock),
`PushNotify` are the lines of `push_work`. `PopLock`, `PopTake`, `PopFindEmpty`,
`PopGiveUp`, `PopWait`, the three ways to wake up and `PopRelock` are those of
`wait_and_pop`; `wait_for` releases the mutex and begins to wait in one step and
re-acquires the mutex before it returns, as the standard says. A notification
without a waiter is lost. `waited` is `getTime() - start` and `blocked` is the
time since `wait_for` began, in ticks of which a second has `SECOND`; both stop where
the code's comparison has stopped telling values apart. `getTime()` is taken to
go only forward.

### MsgRate

The producer's actions wrap the queue's push actions, the handler's wrap
the pop actions. A request is the number of the producer's iteration; its offset
(random) and its contents are left out. The cases of the handler's `switch` are
`HandleSync`, `HandleLibaio` (the empty case) and, for io_uring, `HandleSetupFails`,
`HandlePrepare`, `HandlePrepareNull` (`io_uring_get_sqe` returns NULL and the
code writes through it), `HandleSubmit`, `HandleReap`, `HandleWaitFails`. The end
of the loop's body is `CountRequest`, part of each of them. The kernel may take
fewer entries than were prepared, completes in any order, and may fail any
operation. `args_set` says whether the handler's copy of the arguments is one the
user gave: the request made up by `wait_and_pop` carries uninitialised ones, and
what is printed from them is any of the possible values.

### AsyncLibaio

`args` selects the function. `Setup` to `Destroy` are the calls of the loop in
the code's order. `Submit(k)` is `io_submit` taking `k` of the `oio` iocbs, with the
computation of the next offsets that follows it; `GetEvents` is a wait that found
`oio` events, `GetEventsTimesOut` one that did not; `CallFails` is any call that
returns an error. The shared loop is right because the functions differ only in
what an iocb stands for (`Blocks`), what they add to the counters (`SubmittedBy`,
`ReturnedBy`, `FailedBy`), the base of their offsets and the outer loop of the stress
benchmark. `timeout.tv_nsec` is never initialised, so a wait's limit may be any
the kernel makes of it: `wait_limit` is chosen once, and a finite one may end any wait.
The variables `rounds`, `taken`, `short_submit`, `short_wait`, `succeeded` and `due` are history,
used by properties; `rounds` also bounds the model.

### AsyncLiburing

`args` selects the function: `Vectored` and fixed buffers, each with `Polling` when the
program runs as root, and `Stress`. One round of the loop is `StartRound`, `PrepareEntry`
for each of the `oio` entries (`PrepareNull` when no slot is free), `Submit` with
the computation of the next offsets, and `Reap`, which is the wait, the look at the results
and the advance of the completion queue. `Submit` leaves any part of the queue
untaken and counts all of it, as the code does. What differs between the functions is
`Blocks`, the base of the offsets, the outer loop of the stress benchmark and the
polling thread. That thread is a process: `SqThreadTakes` takes entries the code
has made visible, `SqThreadFrees` moves the queue's head, which is when their slots
become free. The kernel does not say that the head moves before the entries
complete, so the model lets a slot stay taken (`held`) after its completion was
collected.

The ring's head and tail count modulo 2^32 and the `head` of the loop over the
completions is a `size_t`; `CqWrap` stands for 2^32. Four ways to end: `done`,
`failed` (an error return), `crashed` (a write through NULL) and `spinning` (that loop has
missed the tail and goes on for ever). The message-rate handler has the same loop; it
serves for one second, in which 2^32 completions are out of reach, so `MsgRate` has no
wrap. `rounds`, `succeeded`, `failed` and `due` are history.

### Engine

What `runBenchmark` relies on in the function it starts in a thread: it works for a
while, and then gives one result, which is the blocks done, for the stress benchmark
divided by its seconds; or it fails and gives zero. `SyncIo` in the threads of
`Benchmark` implements it, thread by thread, and so does `AsyncLiburing`, where done is
what the completions stand for (`liburing_vector` shows how that differs from the blocks for
a vectored operation that failed). In `AsyncLibaio` done is what the events collected stand for: an
operation that completes is done for the engine only when its event is taken, and what is left in the
context at the end counts for nothing. Two of its functions implement `Engine` whatever
happens; the vectored one does as long as no submission was cut short and no wait came back early, because it
counts what it asked for, see `VectoredCountExact`. That is the condition in its `ImplementsEngine`.

### CommandLine

The parser looks at every argument, also one that an option has taken, so it is a fold
over `argv`; an option writes the field `FieldOf` gives it. Options are names without
dashes; the strings that are numbers have values in `Numerals` and `atoi` makes 0 of all others.
An option at the end reads the null pointer `argv[argc]` (`ReadsNull`). `Meant` says what
the arguments should be without going through `argv` in order, and `ParsedAsGiven` compares.

### SyncIo

A thread is a record of the locals of `_syncio`, `_syncio_vectored` or `_syncio_stress`, which
differ in the blocks of a call, the base of their offsets and the outer loop. A call
is one `Transfer`: it may fail, move all it was asked for, at the end of a file what is
left, and to or from a device nothing (what it does in between differs in nothing
the properties see). `Expire` is the clock of the loop, which can run out between any two
steps. Stress with a runtime of zero divides by it (`DivideByZero`). `transfers`, `done`, `short` and
`due` are history.

### Benchmark

`main` goes through `fileNameCheck`, `ParseArgs`, `fileOpen` and then `Fork` for each thread, `Join` for each result
and `PrintTotal`, or ends early. `Fork` starts a thread or puts the call off: `std::async` is given no
policy, so the standard allows both; `RunDeferred` is the `get` that runs such a call.
The remainder of the start offset by an empty file's size is `RemainderByZero`. A thread
of the other two engines is seen from outside: it works, returns, fails, hangs or crashes (`EngineStep`); when,
their modules say. `MSG_RATE` ends in `message`, where `MsgRate` begins, but for the producer's
remainder by an empty file's size (`MessageOffset`). A signal ends all threads: `Alive`.

### Offsets

`getOffset` is a remainder of numbers, `OffsetOn` adds the files without a size. `fstat` and the
`ioctl` that cannot fail on an open file are taken to succeed, so only character devices
have the size -1, which as an unsigned number is the largest there is: the remainder by it changes
nothing. `OffsetInWords` is the same expression with the code's conversions, in words of `W` values
(2^64). The theorems about it say how far the two agree, and that -1 is never an offset; nothing
is assumed there of where the sum starts, because the message-rate producer's `read_offset` is
never set.

## What the runs show

| run | expect | what it shows |
|---|---|---|
| `workqueue` | pass | the queue implements `FifoQueue`; nothing read under the mutex is stale when used; no wake-up is lost, and a sleeping handler is woken by the notification, not by its time limit |
| `msg_rate` | pass | requests are handled once, in order; the count of SYNCIO is of the operations done and that of io_uring up to one incomplete batch more (LIBAIO, which performs nothing of what it counts, is exempt); registered buffers are not shared; only `oio` above the ring's depth crashes; both threads end unless a submission is cut short |
| `msg_runtime` | violation | the handler serves for one second whatever `--runtime` says |
| `msg_report` | violation | a handler that gave up waiting prints arguments nobody set |
| `msg_opcount` | violation | requests of the last, incomplete batch are counted and never submitted |
| `libaio` | pass | the plain and stress counters count each success once; no wrap; buffers and offsets; on a file of whole operations none reaches over the end, where it would be cut short and counted whole; it implements `Engine` while what it counts is right; the function returns unless a short submission meets an endless wait |
| `libaio_wait` | violation | after a wait that timed out the loop goes on with operations in flight, on the same buffers |
| `libaio_stress_seq` | violation | the sequential stress benchmark jumps ahead within an iteration |
| `liburing` | pass | each wait collects its own round and all of it; buffers are exclusive; each completion is counted once over rounds and stress iterations, and the result says so; it implements `Engine`; offsets have no gap; only `oio` above the depth, or above half of it with polling, crashes; the function returns unless a submission is cut short or the completion counter wraps |
| `liburing_vector` | violation | a failed vectored operation counts as `vec_size - 1` blocks done |
| `liburing_wrap` | violation | the loop over the completions spins for ever in the round in which the ring's tail wraps |
| `benchmark` | pass | the arguments are those given, in any order and repeated; each thread implements `Engine`, so the total printed is what the threads did, each once, a failed one as nothing; sequential threads leave no gap and stay apart; transfers are whole on files of whole calls; four causes, and no others, end the program with a signal; it ends unless an asynchronous engine hangs |

Every violation is one disagreement between the code and its documentation or a
comment, recorded under `findings` with both lines.

Some properties carry a condition that is itself a result. `BuffersExclusive` of the
libaio engine needs that no wait returned less than the round submitted;
`CrashOnlyAboveDepth` of the io_uring engine says that a depth of 1024 is not enough for
`--oio 1024` as root (`benchmark.py` goes up to 1024): 512 is;
`VectoredCountExact` needs neither cut submissions nor short waits, because the
vectored function counts what it asked for; `EndsUnlessCutShort` and
`ReturnsUnlessStuck` name the ways in which each loop can hang. `ThreadsApart` needs a file of 100 GB
for each thread and is not of the stress functions, which start every thread at 0;
`TransfersWhole` of both engines needs a file that is a multiple of what a call reads, and says nothing of vectored
random reads, which start at any block. It is not stated of io_uring. `ReportWithinBatch` is of `SYNCIO` and `IOURING`: with
`LIBAIO` the whole count is of nothing done, so no bound on the difference holds (`msg_rate.cpp:148-149` and `182`).
`CountsEachOnce` and `ImplementsEngine` of the io_uring engine take its own count of a failed
vectored operation (one block) as given, so that they show nothing is lost or repeated over rounds and iterations;
that this count is wrong is what `liburing_vector` shows. In the same way `TotalIsDone` takes a failed
thread's share to be the zero it returns: no document says what it should be. `CrashesOnly` lists what the program does not
look at: an option without argument, an empty file, `--runtime 0` with `--btype stress`, too large an `--oio`.

Bounds:

- `SECOND = 2`: time before, at and after a limit differ, and a time limit can run
  out between any two actions.
- Work queue: three requests queued and two different requests. The refinement and
  the invariants are proved without the bound.
- `Entries = 2` (1024 in the code) with batches of 1, 2 and 3: below, at and above
  the ring's depth. `MaxIter = 4` requests: two full batches of two, an incomplete
  one of three, and a producer that is ahead of and behind the handler. All the
  run's invariants are proved without these bounds.
- libaio: one and two operations at once, vectors of two buffers, one and two
  stress iterations, `MaxRounds = 3` submissions: a short wait, the round that
  reuses its buffers, and one that collects the late events. A buffer has 2
  bytes and the file 13, so that offsets wrap in mid-block, or 12, which is whole operations of two and of four.
  All the run's invariants are proved without these bounds.
- io_uring: one to three entries a round in a ring of two slots, vectors of two and three
  buffers, one and two stress iterations, `MaxRounds = 4` and `CqWrap = 8`: the completion
  counter wraps in the fourth round of two entries, where it meets 8 exactly and stops at
  0. All safety invariants are proved without the bounds.

- Driver: three thread identifiers, `MaxTransfers = 3` calls a thread, 17 command lines and five files (12
  and 9 bytes, empty, without a size, not to be opened). Blocks have 1, 2 or 4 bytes (`KB = 1`), so
  that calls end at, before and after the end of the file; `_100GB = 6` bytes makes 12 a file with
  room for two threads and 9 one without; `rand()` gives 0 or 5; three calls go over the end of a
  file. Each command line is there for a function, a library or a way to give options.
  All but `EndsUnlessStuck` are proved without the bounds.

At the bounds the producer and the loops of the engines wait for their clock to
run out instead of issuing more requests.

Fairness:

- `WorkQueue`: a thread inside `push_work` goes on, and a notified handler wakes up.
  There is none on the clock or on an expired wait, so that
  `WokenByNotification` holds by the notification alone.
- `MsgRate`: each thread runs when it can (the scheduler), the kernel completes
  what it took, the clock advances. None on spurious wake-ups, failures of calls
  or cut submissions, which may or may not happen. The mutex needs no strong
  fairness here: the other thread holds it for a bounded number of steps and a
  thread that was starved for the whole run would only reach its time limit.
- `AsyncLibaio`: the thread, the kernel and the clock; a wait with a finite limit
  ends. None on `CallFails`.
- `AsyncLiburing`: the thread; the kernel, which completes what it took and whose polling
  thread takes what was submitted (`IORING_SETUP_SQPOLL`); the clock. None on
  `CallFails`, nor on taking more of a submission that was cut short: nothing in the
  code submits it again.
- `Benchmark`: the main thread, each thread and each thread's clock. A thread that may work on, return,
  fail or hang has fairness on the choice, not on one of them.

## What is proved

The constants are assumed only to have their types (`ArgsAssumption`, `BoundAssumption`,
`SentinelAssumption`, `SecondAssumption`, `MaxWorkAssumption`, `SyncAssumption`, `FilesAssumption`,
`ThreadsAssumption`, `GapAssumption`, `ArgvAssumption`: sizes and counts are positive, the sentinel is no
request, thread identifiers start at 0, an `argv` is a sequence of strings). `NumeralsAssumption` says that no
number on a command line is negative.

Two facts are about folds, of `argv` and of the set of threads. The library's induction theorems take
an operator as parameter, which the provers cannot instantiate; that the subsets of a finite set
are well-founded is a first-order fact, and so `SmallestSubset` and `SameOnSubsets` of `CommandLineProofs` serve
as induction: two functions that are computed alike from smaller subsets are the same. Each fold is
given a closed form, which is shown to be a solution of the fold's recursion, and then the only one.

- `WorkQueueProofs`. `NoLostWakeup` is not inductive: that a handler goes to sleep
  only on an empty queue needs `TestsStillHold`, which needs that nobody else pushes
  between test and action, `OwnerInside`. Each is proved from the ones before;
  their conjunction `Inv` and `TypeOK` give `RefinesFifo`, where `PushAppend`, `PopTake` and
  `PopGiveUp` are the steps of the FIFO and all others stutter. What `PopGiveUp`
  answers is right because `TestsStillHold` makes the queue empty there.
- `MsgRateProofs`. First the queue: each step of the benchmark is a step of `WorkQueue` or leaves its
  variables alone, and the assumptions `WorkQueue` makes of its constants hold for the ones given to it here
  (`RefinesWorkQueue`). So the theorems of `WorkQueueProofs` hold of the benchmark's own queue: its types, and
  that it is a FIFO (`RefinesFifo`). Then one inductive invariant, `Inv`, for the rest. `HandledInOrderOnce` is not
  inductive: a push appends the request the producer holds and a request the handler took is counted as
  handled only later, so `InHand` says which numbers those two are. `BatchBound` places `outstanding_requests`
  in `0..oio` at each point of the handler's loop: the counter is what selects buffers and what a batch is
  submitted on. `RingInv` says that the ring holds, while a batch is filled, its entries in their order, the
  i-th with buffer i, and in the wait all of its `oio` in one of three places, however few the kernel took; the wait
  ends only when they are all completed, so that a filling starts with an empty ring. `BuffersApart` and
  `CrashOnlyAboveDepth` follow in it, and `Counts` relates the two counters: they differ by what is
  prepared, and by one less than a batch from its last entry until it is reaped. `LoopAccounting` and
  `ReportIsClose` are read off, the latter for `SYNCIO` and `IOURING` alone.
- `OffsetsProofs`. An offset is inside the file (`OffsetInFile`), and the offset some
  blocks on from an offset is the one of as many more iterations, over the end of
  the file too (`OffsetAdvances`), from a lemma about remainders of sums. `OffsetFitsWord` and `OffsetIsNoSentinel` are about words: the
  latter needs only that a remainder by `maxOffset` as an unsigned number is below it, so that -1, the
  largest of all, can be no remainder. `OffsetOfWhole` is what the whole transfers of both engines rest on: the remainder
  of a multiple by a multiple is one, and below the end there is room for one more.
- `AsyncLibaioProofs`. `TypeCorrect` carries `NoUnderflow`, which needs that failures are
  never more than what returned, per event (`NeverUnderflows` is that alone). `SuccessesCountedOnce` needs that only
  the stress benchmark iterates (`StressOnly`) and that its counters are closed when it
  does. `PlainAccounting` and `BuffersStayExclusive` rest on `OnlyPastRounds`: an operation
  in flight is of a round already begun, so a new round's operations are new.
  Exclusive buffers then need that a round begun without a short wait
  finds nothing left in flight. `SequentialOffsets` keeps that the offsets follow from
  `ops_submitted` and `due` from the last of the round, and uses `OffsetAdvances`. `VectoredAccounting`
  needs that a wait not preceded by a cut submission is for all `oio` operations (`RoundTaken`): then a wait
  that is not short either returns `oio` events, and counting `oio * vec_size` is right. `ResultsAreDone` follows from
  the accounting of each function, and for the stress benchmark from the division's rounding down. `RefinesEngine`
  maps a collection of events to `Work`, `Destroy` to `Return`, an error to `Fail` and everything else, completions
  too, to stuttering; it needs that no more events wait than operations succeeded (`EventsBelow`).
  `WholeTransfers` keeps that offsets and the stress benchmark's base are at whole operations and that `ops_submitted` is
  of whole ones (`OnOperations`), whatever `io_submit` took.
- `AsyncLiburingProofs`. One invariant carries the rest, `Invariance`: with the types and
  `Solvent` (failures are not more than what returned), `RingInv` says what the ring holds
  at each place of the loop. `Prepared`: while a round is prepared, the submission queue holds
  its entries so far, one a buffer, and nothing else is under way. `Balanced`: in the wait,
  the entries in the submission queue, with the kernel and completed are together
  `oio`, because nothing is lost however little was taken. So `oio` completions are
  all there are, and `Emptied`: between rounds nothing is left. `RoundsStaySeparate`,
  `BuffersStayExclusive` and `CrashNeedsDepth` (with `HeldOfRound`: the polling thread holds the slots
  of one round) follow. `OperationsCountedOnce` adds `Tally`, which takes
  away the completions not yet collected, and `SequentialOffsets` adds how far the
  entries prepared so far go (`Ahead`). `RefinesEngine` finds `Tally`
  in the result (`ResultComputed`) and maps the completion of an operation to `Work`, the end to `Return` or `Fail`, and the
  rest to stuttering.
- `CommandLineProofs`. `Looked` is the closed form: what the arguments are when those at a set of positions
  have been looked at, each field from the last of them that sets it. `LastLooked` shows that looking at one argument
  more leads from one to the next, `Folded` that the fold over `argv` is `Looked` at all positions, and
  `ParsedIsMeant` reads `Meant` off it. It holds of every `argv`; that the program reads a null pointer, or takes a
  value for an option, is excluded only in `ParsedAsGiven`.
- `BenchmarkProofs`. What a step makes of a thread's record is one of a few functions of it (`Successor`,
  `EngineSuccessor`, `Starts`), so that each fact is shown for records and then carried to all threads
  at once. `Right` is what a thread keeps: its counters stand for what it has done (`Accounted`, from which
  the result is right), and where it goes on follows from its base and `ops_submitted` (`Follows`). `Unborn`,
  that threads not yet started are untouched, makes a start the beginning of an `Engine`.
  `SequentialOffsets` and `RefinesEngine` follow. `CrashCauses` adds that a size of zero
  is a file's that is empty (`Ends`), and `OwnBytes` that a thread's base is where runBenchmark put it
  (`Placed`), from where offsets do not reach the end of a file with room for all. `WholeTransfers` keeps that every
  base, and block by block every count, is a multiple of what a call moves (`OnCalls`), and uses `OffsetOfWhole`. `ParsesAsGiven` follows from `ParsedIsMeant`,
  as nothing writes the arguments again. `JoinedInOrder` is how the total comes about: threads are launched and
  joined in order (`InOrderOfThreads`), nothing is printed before the last has ended, and each step of the second
  loop adds the next thread's share, no other step anything.
  For `TotalsAreDone` the closed form of a sum is the size of a set with one element for each operation counted
  (`Units`). `Added` keeps that the total is that of the threads joined so far, whose results no step changes any
  more, and `SumIsUnits` that the sum is the same in whichever order it is taken.

Only model-checked: all liveness (`WokenByNotification`, `EndsUnlessCutShort`, `ReturnsUnlessStuck` of both
engines, `EndsUnlessStuck`), because the prover does not do fairness or `ENABLED`; and what the violation runs
show. Every invariant and every refinement that a run checks is proved.

## What is not modelled

- Negative numbers on the command line (`--threads -1` runs no thread; a negative size or runtime is
  converted to an unsigned or compared with a time), and values that `atoi` overflows on.
- Random offsets in the asynchronous engines, whose properties hold of every offset or are
  about the sequential mode; the contents of buffers; how many bytes an
  asynchronous operation moved (those engines look only at whether a result is negative).
- The overflow of `1024 * args.blk_size`, a product of ints, from `--bsize 2097152` on.
- Sums of offsets past 2^63 in the modules other than `Offsets`.
- That the vectored libaio function implements `Engine` after a cut submission or a short wait: it does not, see there.
- A clock that is set back: `getTime` reads the wall clock.
- Memory: allocation failures, and what is not freed on error returns.
- Formatting and printing, the throughput (a `double` computed from the count), `fileOpen`'s flags, the
  scripts: one-line conversions and pure I/O.

## Plan

1. `WorkQueue` and its refinement, `MsgRate`, `AsyncLibaio`, `Offsets`: done.
2. `AsyncLiburing` with its theorems: done.
3. `Engine`, `SyncIo`, `CommandLine`, `Benchmark` with the driver's theorems, `Offsets` in words: done.
4. Proofs: `MsgRate` on top of its queue, the remaining invariants of `AsyncLibaio`, whole transfers
   and the joining loop of `Benchmark`: done.
5. Proofs: the command line and the total, as folds with a closed form, and the libaio engine as an `Engine`: done.
