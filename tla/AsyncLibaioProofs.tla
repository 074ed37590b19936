------------------------- MODULE AsyncLibaioProofs -------------------------
(***************************************************************************)
(* Theorems about a thread of the libaio engine, for every number of       *)
(* outstanding operations, vector size, runtime, buffer and file size, and *)
(* for every submission cut short and wait that times out.                 *)
(***************************************************************************)
EXTENDS AsyncLibaio, OffsetsProofs, FiniteSetTheorems

-----------------------------------------------------------------------------
(* The offset after some blocks from initial, as a number. *)
OffsetAt(initial, iteration) == getOffset(args.max_offset, initial, BufferSize, iteration)

LEMMA OffsetType ==
  ASSUME args \in Args, NEW initial \in Nat, NEW iteration \in Nat
  PROVE  OffsetAt(initial, iteration) \in Nat
<1>1. OffsetAt(initial, iteration) \in 0..(args.max_offset - 1)
  BY ArgsAssumption, BoundAssumption, OffsetInFile DEF OffsetAt
<1> QED
  BY <1>1, ArgsAssumption

LEMMA OffsetGoesOn ==
  ASSUME args \in Args, NEW initial \in Nat, NEW iteration \in Nat, NEW blocks \in Nat
  PROVE  OffsetAt(OffsetAt(initial, iteration), blocks) = OffsetAt(initial, iteration + blocks)
<1>1. BufferSize \in Nat /\ args.max_offset \in Nat \ {0}
  BY ArgsAssumption, BoundAssumption
<1>2. \A m \in Nat \ {0}, i, b, n, k \in Nat :
        getOffset(m, getOffset(m, i, b, n), b, k) = getOffset(m, i, b, n + k)
  <2> HIDE DEF getOffset
  <2> QED
    BY OffsetAdvances
<1>3. ASSUME NEW m \in Nat \ {0}, m = args.max_offset
      PROVE  getOffset(m, getOffset(m, initial, BufferSize, iteration), BufferSize, blocks)
               = getOffset(m, initial, BufferSize, iteration + blocks)
  <2> HIDE DEF getOffset
  <2> QED
    BY <1>1, <1>2
<1> QED
  BY <1>1, <1>3 DEF OffsetAt

LEMMA BlocksType ==
  ASSUME TypeOK
  PROVE  Blocks \in Nat \ {0}
BY ArgsAssumption DEF TypeOK, Blocks, Vectored

LEMMA OffsetsType ==
  ASSUME TypeOK, NEW initial \in Nat, NEW submitted \in Nat
  PROVE  OffsetsFrom(initial, submitted) \in [Slots -> Nat]
<1>1. args.oio \in Nat
  BY ArgsAssumption DEF TypeOK
<1>2. ASSUME NEW i \in Slots
      PROVE  OffsetAt(initial, submitted + i * Blocks) \in Nat
  <2>1. i \in Nat /\ Blocks \in Nat
    BY <1>1, BlocksType DEF Slots
  <2>2. submitted + i * Blocks \in Nat
    BY <2>1
  <2> QED
    BY <2>2, OffsetType DEF TypeOK
<1> QED
  BY <1>2 DEF OffsetsFrom, OffsetAt

(* The operations of a round that takes k iocbs: k of them, one a slot.    *)
RoundOps(k, r) == {[slot |-> i, round |-> r] : i \in 0..(k - 1)}

LEMMA RoundOpsCount ==
  ASSUME NEW k \in Nat, NEW r \in Nat
  PROVE  IsFiniteSet(RoundOps(k, r)) /\ Cardinality(RoundOps(k, r)) = k
<1>1. IsFiniteSet(0..(k - 1)) /\ Cardinality(0..(k - 1)) = k
  BY FS_Interval
<1>2. [i \in 0..(k - 1) |-> [slot |-> i, round |-> r]]
        \in Bijection(0..(k - 1), RoundOps(k, r))
  BY DEF RoundOps, Bijection, Injection, Surjection, IsInjective
<1> QED
  BY <1>1, <1>2, FS_Bijection DEF ExistsBijection

-----------------------------------------------------------------------------
(* Every variable keeps its type; in particular the operations in flight   *)
(* are finitely many and no counter goes below zero.                       *)
THEOREM TypeCorrect == Spec => [](TypeOK /\ NoUnderflow)
<1>1. Init => TypeOK /\ NoUnderflow
  <2> SUFFICES ASSUME Init
               PROVE  TypeOK /\ NoUnderflow
    OBVIOUS
  <2>1. args \in Args /\ args.oio \in Nat \ {0} /\ args.read_offset \in Nat
    BY ArgsAssumption DEF Init
  <2>2. Blocks \in Nat
    BY <2>1, ArgsAssumption DEF Blocks, Vectored
  <2>3. \A i \in Slots : OffsetAt(args.read_offset, 0 + i * Blocks) \in Nat
    <3>1. \A i \in Slots : 0 + i * Blocks \in Nat
      BY <2>1, <2>2 DEF Slots
    <3> QED
      BY <2>1, <3>1, OffsetType, Zenon
  <2>4. offsets \in [Slots -> Nat]
    BY <2>3 DEF Init, OffsetsFrom, OffsetAt
  <2>5. due \in Nat
    BY <2>1, <2>4 DEF Init, Slots
  <2>6. IsFiniteSet(inflight) /\ inflight \subseteq Op
    BY FS_EmptySet DEF Init, Ctx!CtxInit
  <2>7. events \in [ok : Nat, failed : Nat] /\ taken \in 0..args.oio
    BY <2>1 DEF Init, Ctx!CtxInit
  <2>8. NoUnderflow /\ op_count \in Nat \cup {-1}
    BY DEF Init, NoUnderflow
  <2> QED
    BY <2>1, <2>4, <2>5, <2>6, <2>7, <2>8 DEF Init, TypeOK
<1>2. TypeOK /\ NoUnderflow /\ [Next]_vars => TypeOK' /\ NoUnderflow'
  <2> SUFFICES ASSUME TypeOK, NoUnderflow, [Next]_vars
               PROVE  TypeOK' /\ NoUnderflow'
    OBVIOUS
  <2>0. /\ args.oio \in Nat \ {0} /\ args.vec_size \in Nat
        /\ args.runtime \in Nat \ {0} /\ args.read_offset \in Nat
        /\ Blocks \in Nat \ {0}
        /\ ops_returned - ops_failed \in Nat
    BY ArgsAssumption, BlocksType DEF TypeOK, NoUnderflow
  <2> USE DEF counters, benchVars, ctxVars, history
  <2>1. CASE Setup \/ CallFails \/ EndIterations \/ Expire
    <3>1. CASE Setup
      BY <3>1 DEF TypeOK, NoUnderflow, Slots, Setup
    <3>2. CASE CallFails
      BY <3>2 DEF TypeOK, NoUnderflow, Slots, CallFails
    <3>3. CASE EndIterations
      BY <3>3 DEF TypeOK, NoUnderflow, Slots, EndIterations
    <3>4. CASE Expire
      BY <3>4 DEF TypeOK, NoUnderflow, Slots, Expire
    <3> QED
      BY <2>1, <3>1, <3>2, <3>3, <3>4
  <2>2. CASE StartIteration
    <3>1. offsets[args.oio - 1] \in Nat
      BY <2>0 DEF TypeOK, Slots
    <3>2. benchmark_offset' \in Nat
      BY <2>2, <3>1 DEF StartIteration
    <3>3. offsets' \in [Slots' -> Nat]
      BY <2>2 DEF StartIteration, TypeOK, Slots
    <3>4. NoUnderflow' /\ ops_submitted' \in Nat /\ ops_returned' \in Nat /\ ops_failed' \in Nat
      BY <2>2 DEF NoUnderflow, StartIteration
    <3>5. expired' \in BOOLEAN /\ pc' = "loop"
      BY <2>2 DEF StartIteration
    <3> QED
      BY <2>2, <3>2, <3>3, <3>4, <3>5 DEF TypeOK, StartIteration
  <2>3. ASSUME NEW k \in 1..args.oio, Submit(k)
        PROVE  TypeOK' /\ NoUnderflow'
    <3>1. ops_submitted' \in Nat
      <4>1. args.oio * args.vec_size \in Nat
        BY <2>0
      <4> QED
        BY <2>0, <2>3, <4>1 DEF Submit, SubmitRound, TypeOK, SubmittedBy
    <3>2. offsets' \in [Slots -> Nat]
      BY <2>0, <2>3, <3>1, OffsetsType DEF Submit, SubmitRound, TypeOK
    <3>3. inflight' = inflight \cup RoundOps(k, rounds)
      BY <2>3 DEF Submit, SubmitRound, Ctx!Take, RoundOps
    <3>4. RoundOps(k, rounds) \subseteq Op
      BY <2>0 DEF RoundOps, Op, TypeOK
    <3>5. IsFiniteSet(inflight')
      <4>1. k \in Nat /\ rounds \in Nat /\ IsFiniteSet(inflight)
        BY <2>0 DEF TypeOK
      <4>2. IsFiniteSet(RoundOps(k, rounds))
        BY <4>1, RoundOpsCount
      <4> QED
        BY <3>3, <4>1, <4>2, FS_Union
    <3>6. due' \in Nat
      <4>1. offsets[k - 1] \in Nat
        BY <2>0 DEF TypeOK, Slots
      <4> QED
        <5>1. OffsetAt(offsets[k - 1], Blocks) \in Nat
          BY <2>0, <4>1, OffsetType DEF TypeOK
        <5> QED
          BY <2>3, <5>1 DEF Submit, SubmitRound, OffsetAt
    <3>7. Slots' = Slots /\ inflight' \subseteq Op
      BY <2>3, <3>3, <3>4 DEF Slots, Submit, SubmitRound, TypeOK
    <3>8. taken' \in 0..args.oio /\ rounds' \in Nat
      BY <2>0, <2>3, <3>1 DEF Submit, SubmitRound, TypeOK, NoUnderflow
    <3> QED
      BY <2>3, <3>1, <3>2, <3>5, <3>6, <3>7, <3>8
         DEF TypeOK, NoUnderflow, Submit, SubmitRound, Ctx!Take
  <2>4. ASSUME NEW good, NEW bad, Count(good, bad), good + bad <= args.oio
        PROVE  TypeOK' /\ NoUnderflow'
    <3>1. good \in Nat /\ bad \in Nat /\ events' \in [ok : Nat, failed : Nat]
      BY <2>4 DEF Count, Ctx!Collect, TypeOK
    <3>2. /\ ops_returned' \in Nat /\ ops_failed' \in Nat
          /\ ops_failed' <= ops_returned'
      <4>1. CASE Vectored
        <5>1. Blocks = args.vec_size
          BY <4>1 DEF Blocks
        <5>2. bad * args.vec_size \in Nat /\ args.oio * args.vec_size \in Nat
          BY <2>0, <3>1
        <5>3. bad * args.vec_size <= args.oio * args.vec_size
          <6>1. bad <= args.oio
            BY <2>0, <2>4, <3>1
          <6> QED
            BY <2>0, <3>1, <6>1
        <5> QED
          BY <2>4, <4>1, <5>1, <5>2, <5>3 DEF Count, TypeOK, NoUnderflow, ReturnedBy, FailedBy
      <4>2. CASE ~Vectored
        BY <2>0, <2>4, <3>1, <4>2 DEF Count, TypeOK, NoUnderflow, Blocks, ReturnedBy, FailedBy
      <4> QED
        BY <4>1, <4>2
    <3> QED
      BY <2>4, <3>1, <3>2 DEF Count, Ctx!Collect, TypeOK, NoUnderflow, Slots
  <2>5. ASSUME NEW good \in 0..args.oio, NEW bad \in 0..args.oio, GetEvents(good, bad)
        PROVE  TypeOK' /\ NoUnderflow'
    BY <2>0, <2>4, <2>5 DEF GetEvents
  <2>6. CASE GetEventsTimesOut
    <3>1. Count(events.ok, events.failed) /\ events.ok + events.failed <= args.oio
      BY <2>0, <2>6 DEF GetEventsTimesOut, Ctx!Pending, TypeOK
    <3> QED
      BY <2>4, <3>1
  <2>7. CASE LoopEnd
    BY <2>0, <2>7 DEF TypeOK, NoUnderflow, Slots, LoopEnd
  <2>8. CASE Destroy
    <3>1. benchmark_opcount \div args.runtime \in Nat
      BY <2>0 DEF TypeOK
    <3> QED
      BY <2>0, <2>8, <3>1 DEF TypeOK, NoUnderflow, Slots, Destroy, ResultCount
  <2>9. ASSUME NEW op \in inflight, NEW ok \in BOOLEAN, KernelCompletes(op, ok)
        PROVE  TypeOK' /\ NoUnderflow'
    <3>1. inflight' \subseteq Op /\ IsFiniteSet(inflight')
      BY <2>9, FS_RemoveElement DEF KernelCompletes, Ctx!Complete, TypeOK
    <3>2. events' \in [ok : Nat, failed : Nat] /\ succeeded' \in Nat
      BY <2>9 DEF KernelCompletes, Ctx!Complete, TypeOK
    <3>3. offsets' \in [Slots' -> Nat]
      BY <2>9 DEF KernelCompletes, TypeOK, Slots
    <3> QED
      BY <2>9, <3>1, <3>2, <3>3 DEF KernelCompletes, TypeOK, NoUnderflow
  <2>10. CASE Return \/ UNCHANGED vars
    BY <2>10 DEF Return, vars, TypeOK, NoUnderflow, Slots
  <2> QED
    BY <2>1, <2>2, <2>3, <2>5, <2>6, <2>7, <2>8, <2>9, <2>10 DEF Next, Step, Kernel
<1> QED
  BY <1>1, <1>2, PTL DEF Spec

(* So no subtraction of the unsigned counters wraps, whatever the stress   *)
(* resets and the vectored way of counting do to them.                     *)
THEOREM NeverUnderflows == Spec => []NoUnderflow
BY TypeCorrect, PTL

-----------------------------------------------------------------------------
(* Only the stress function has iterations. *)
IterationsAreStress == pc = "iteration" => Stress

LEMMA StressOnly == Spec => []IterationsAreStress
<1>1. Init => IterationsAreStress
  BY DEF Init, IterationsAreStress
<1>2. IterationsAreStress /\ [Next]_vars => IterationsAreStress'
  BY DEF IterationsAreStress, Stress, Next, Step, Kernel, vars, Setup, StartIteration,
         EndIterations, Submit, SubmitRound, Count, GetEvents, GetEventsTimesOut, LoopEnd, Destroy,
         CallFails, KernelCompletes, Expire, Return
<1> QED
  BY <1>1, <1>2, PTL DEF Spec

(* Across cut submissions, timeouts and resets of the stress counters no   *)
(* successful operation is lost or counted twice (plain and stress).       *)
THEOREM SuccessesCountedOnce == Spec => []CountsEachSuccessOnce
<1>1. Init => CountsEachSuccessOnce
  BY DEF Init, Ctx!CtxInit, CountsEachSuccessOnce, Counted
<1>2. TypeOK /\ IterationsAreStress /\ CountsEachSuccessOnce /\ [Next]_vars
        => CountsEachSuccessOnce'
  <2> SUFFICES ASSUME TypeOK, IterationsAreStress, CountsEachSuccessOnce, [Next]_vars
               PROVE  CountsEachSuccessOnce'
    OBVIOUS
  <2> USE DEF CountsEachSuccessOnce, Counted, Stress, Vectored, counters, benchVars,
              ctxVars, history
  <2>0. /\ ops_returned \in Nat /\ ops_failed \in Nat /\ benchmark_opcount \in Nat
        /\ succeeded \in Nat /\ events \in [ok : Nat, failed : Nat]
    BY DEF TypeOK
  <2>1. CASE Setup \/ EndIterations \/ CallFails \/ Expire
    <3>1. CASE Setup
      BY <2>0, <3>1 DEF Setup, TypeOK
    <3>2. CASE EndIterations \/ CallFails \/ Expire
      BY <2>0, <3>2 DEF EndIterations, CallFails, Expire
    <3> QED
      BY <2>1, <3>1, <3>2
  <2>2. CASE StartIteration
    <3>1. /\ Stress /\ UNCHANGED <<args, benchmark_opcount, succeeded, events>>
          /\ pc = "iteration" /\ pc' = "loop" /\ ops_returned' - ops_failed' = 0
      BY <2>2 DEF StartIteration, IterationsAreStress
    <3> QED
      BY <2>0, <3>1
  <2>3. ASSUME NEW k \in 1..args.oio, Submit(k)
        PROVE  CountsEachSuccessOnce'
    <3>1. /\ UNCHANGED <<args, ops_returned, ops_failed, benchmark_opcount, succeeded, events>>
          /\ pc = "loop" /\ pc' = "wait"
      BY <2>3 DEF Submit, SubmitRound, Ctx!Take
    <3> QED
      BY <3>1
  <2>4. ASSUME NEW good, NEW bad, Count(good, bad), pc = "wait"
        PROVE  CountsEachSuccessOnce'
    <3>1. /\ good \in Nat /\ bad \in Nat /\ events'.ok = events.ok - good
          /\ UNCHANGED <<args, benchmark_opcount, succeeded>> /\ pc' = "loop"
      BY <2>0, <2>4 DEF Count, Ctx!Collect
    <3>2. CASE ~Vectored
      <4>1. ops_returned' = ops_returned + (good + bad) /\ ops_failed' = ops_failed + bad
        BY <2>0, <2>4, <3>1, <3>2 DEF Count, Blocks, ReturnedBy, FailedBy
      <4> QED
        BY <2>0, <2>4, <3>1, <3>2, <4>1
    <3> QED
      BY <3>1, <3>2
  <2>5. ASSUME NEW good \in 0..args.oio, NEW bad \in 0..args.oio, GetEvents(good, bad)
        PROVE  CountsEachSuccessOnce'
    BY <2>4, <2>5 DEF GetEvents
  <2>6. CASE GetEventsTimesOut
    BY <2>4, <2>6 DEF GetEventsTimesOut
  <2>7. CASE LoopEnd
    BY <2>0, <2>7 DEF LoopEnd
  <2>8. CASE Destroy
    BY <2>0, <2>8 DEF Destroy
  <2>9. ASSUME NEW op \in inflight, NEW ok \in BOOLEAN, KernelCompletes(op, ok)
        PROVE  CountsEachSuccessOnce'
    <3>1. CASE ok
      <4>1. succeeded' = succeeded + 1 /\ events'.ok = events.ok + 1
        BY <2>0, <2>9, <3>1 DEF KernelCompletes, Ctx!Complete
      <4> QED
        BY <2>0, <2>9, <4>1 DEF KernelCompletes
    <3>2. CASE ~ok
      <4>1. succeeded' = succeeded /\ events'.ok = events.ok
        BY <2>0, <2>9, <3>2 DEF KernelCompletes, Ctx!Complete
      <4> QED
        BY <2>0, <2>9, <4>1 DEF KernelCompletes
    <3> QED
      BY <3>1, <3>2
  <2>10. CASE Return \/ UNCHANGED vars
    BY <2>10 DEF Return, vars
  <2> QED
    BY <2>1, <2>2, <2>3, <2>5, <2>6, <2>7, <2>8, <2>9, <2>10 DEF Next, Step, Kernel
<1> QED
  BY <1>1, <1>2, TypeCorrect, StressOnly, PTL DEF Spec

-----------------------------------------------------------------------------
(* What is out of the thread's hands: with the kernel, or to be collected. *)
Outstanding == Cardinality(inflight) + Ctx!Pending

(* Operations in flight belong to rounds already begun.                    *)
RoundsPast == \A op \in inflight : op.round < rounds

(* As long as no wait fell short, a wait starts with what the submission   *)
(* took outstanding, and ends with nothing.                                *)
RoundsClosed ==
  ~short_wait /\ pc # "failed" => Outstanding = (IF pc = "wait" THEN taken ELSE 0)

LEMMA OutstandingType ==
  ASSUME TypeOK
  PROVE  Cardinality(inflight) \in Nat /\ Ctx!Pending \in Nat
BY FS_CardinalityType DEF TypeOK, Ctx!Pending

LEMMA SubmitCount ==
  ASSUME TypeOK, RoundsPast, NEW k \in 1..args.oio, Submit(k)
  PROVE  Outstanding' = Outstanding + k
<1>1. k \in Nat /\ rounds \in Nat /\ IsFiniteSet(inflight)
  BY ArgsAssumption DEF TypeOK
<1>2. inflight' = inflight \cup RoundOps(k, rounds)
  BY DEF Submit, SubmitRound, Ctx!Take, RoundOps
<1>3. inflight \cap RoundOps(k, rounds) = {}
  BY <1>1 DEF RoundsPast, RoundOps
<1>4. Cardinality(inflight') = Cardinality(inflight) + k
  <2>1. /\ Cardinality(inflight) \in Nat
        /\ IsFiniteSet(RoundOps(k, rounds)) /\ Cardinality(RoundOps(k, rounds)) = k
    BY <1>1, RoundOpsCount, FS_CardinalityType
  <2>2. Cardinality(inflight') = Cardinality(inflight) + k - Cardinality({})
    BY <1>1, <1>2, <1>3, <2>1, FS_Union
  <2> QED
    BY <1>1, <2>1, <2>2, FS_EmptySet
<1>5. Ctx!Pending' = Ctx!Pending
  BY DEF Submit, SubmitRound, Ctx!Take, Ctx!Pending
<1> QED
  BY <1>1, <1>4, <1>5, OutstandingType DEF Outstanding

LEMMA CountCount ==
  ASSUME TypeOK, NEW good, NEW bad, Count(good, bad)
  PROVE  /\ good \in Nat /\ bad \in Nat /\ good + bad <= Ctx!Pending
         /\ Outstanding' = Outstanding - (good + bad)
<1>1. /\ good \in 0..events.ok /\ bad \in 0..events.failed /\ inflight' = inflight
      /\ events' = [ok |-> events.ok - good, failed |-> events.failed - bad]
  BY DEF Count, Ctx!Collect
<1>2. events.ok \in Nat /\ events.failed \in Nat
  BY DEF TypeOK
<1>3. Ctx!Pending' = Ctx!Pending - (good + bad)
  BY <1>1, <1>2 DEF Ctx!Pending
<1> QED
  BY <1>1, <1>2, <1>3, OutstandingType DEF Outstanding, Ctx!Pending

LEMMA CompleteCount ==
  ASSUME TypeOK, NEW op \in inflight, NEW ok \in BOOLEAN, KernelCompletes(op, ok)
  PROVE  Outstanding' = Outstanding
<1>1. Cardinality(inflight') = Cardinality(inflight) - 1
  BY FS_RemoveElement DEF TypeOK, KernelCompletes, Ctx!Complete
<1>2. Ctx!Pending' = Ctx!Pending + 1
  BY DEF TypeOK, KernelCompletes, Ctx!Complete, Ctx!Pending
<1> QED
  BY <1>1, <1>2, OutstandingType DEF Outstanding

LEMMA KeptCount ==
  ASSUME UNCHANGED ctxVars
  PROVE  Outstanding' = Outstanding
BY DEF ctxVars, Outstanding, Ctx!Pending

(* Every step that is neither a submission, a collection nor a completion. *)
Quiet ==
  Setup \/ StartIteration \/ EndIterations \/ LoopEnd \/ Destroy \/ CallFails
  \/ Expire \/ Return \/ UNCHANGED vars

LEMMA QuietKeeps ==
  ASSUME Quiet
  PROVE  /\ UNCHANGED <<args, inflight, events, rounds, taken, short_wait>>
         /\ Outstanding' = Outstanding
         /\ pc' # "wait"
              \/ UNCHANGED <<pc, counters>>
         /\ pc = "wait" => pc' \in {"wait", "failed"}
         /\ pc = "failed" => pc' = "failed"
         /\ UNCHANGED counters \/ StartIteration
<1>1. UNCHANGED <<args, inflight, events, rounds, taken, short_wait>>
  BY DEF Quiet, Setup, StartIteration, EndIterations, LoopEnd, Destroy, CallFails,
         Expire, Return, vars, ctxVars, history
<1>2. /\ pc' # "wait" \/ UNCHANGED <<pc, counters>>
      /\ pc = "wait" => pc' \in {"wait", "failed"}
      /\ pc = "failed" => pc' = "failed"
  BY DEF Quiet, Setup, StartIteration, EndIterations, LoopEnd, Destroy, CallFails,
         Expire, Return, vars
<1>3. UNCHANGED counters \/ StartIteration
  BY DEF Quiet, Setup, EndIterations, LoopEnd, Destroy, CallFails, Expire, Return, vars
<1> QED
  BY <1>1, <1>2, <1>3, KeptCount DEF ctxVars

LEMMA NextCases ==
  ASSUME TypeOK, [Next]_vars
  PROVE  \/ Quiet
         \/ \E k \in 1..args.oio : Submit(k)
         \/ \E good, bad : pc = "wait" /\ Count(good, bad) /\ good + bad <= args.oio
         \/ \E op \in inflight, ok \in BOOLEAN : KernelCompletes(op, ok)
<1>1. args.oio \in Nat
  BY ArgsAssumption DEF TypeOK
<1>2. ASSUME NEW good \in 0..args.oio, NEW bad \in 0..args.oio, GetEvents(good, bad)
      PROVE  pc = "wait" /\ Count(good, bad) /\ good + bad <= args.oio
  BY <1>1, <1>2 DEF GetEvents
<1>3. ASSUME GetEventsTimesOut
      PROVE  /\ pc = "wait" /\ Count(events.ok, events.failed)
             /\ events.ok + events.failed <= args.oio
  BY <1>1, <1>3 DEF GetEventsTimesOut, Ctx!Pending, TypeOK
<1> QED
  BY <1>2, <1>3 DEF Next, Step, Kernel, Quiet

-----------------------------------------------------------------------------
(* The kernel is never handed an operation of a round still to come.       *)
THEOREM OnlyPastRounds == Spec => []RoundsPast
<1>1. Init => RoundsPast
  BY DEF Init, Ctx!CtxInit, RoundsPast
<1>2. TypeOK /\ RoundsPast /\ [Next]_vars => RoundsPast'
  <2> SUFFICES ASSUME TypeOK, RoundsPast, [Next]_vars
               PROVE  RoundsPast'
    OBVIOUS
  <2>0. rounds \in Nat /\ inflight \subseteq Op
    BY DEF TypeOK
  <2>1. CASE Quiet
    BY <2>1, QuietKeeps DEF RoundsPast
  <2>2. ASSUME NEW k \in 1..args.oio, Submit(k)
        PROVE  RoundsPast'
    BY <2>0, <2>2 DEF Submit, SubmitRound, Ctx!Take, RoundsPast, Op
  <2>3. ASSUME NEW good, NEW bad, Count(good, bad)
        PROVE  RoundsPast'
    BY <2>3 DEF Count, Ctx!Collect, RoundsPast
  <2>4. ASSUME NEW op \in inflight, NEW ok \in BOOLEAN, KernelCompletes(op, ok)
        PROVE  RoundsPast'
    BY <2>4 DEF KernelCompletes, Ctx!Complete, RoundsPast, history
  <2> QED
    BY <2>1, <2>2, <2>3, <2>4, NextCases
<1> QED
  BY <1>1, <1>2, TypeCorrect, PTL DEF Spec

(* Plain: every operation io_submit accepted has returned, waits to be     *)
(* collected, or is with the kernel, however rounds and waits are cut.     *)
THEOREM PlainAccounting == Spec => []SubmittedIsReturnedOrPending
<1>. DEFINE Plain == ~Vectored /\ ~Stress
            Balance == Plain => ops_submitted = ops_returned + Outstanding
<1>1. Init => Balance
  BY FS_EmptySet DEF Init, Ctx!CtxInit, Ctx!Pending, Outstanding
<1>2. TypeOK /\ RoundsPast /\ IterationsAreStress /\ Balance /\ [Next]_vars => Balance'
  <2> SUFFICES ASSUME TypeOK, RoundsPast, IterationsAreStress, Balance, [Next]_vars
               PROVE  Balance'
    OBVIOUS
  <2>0. ops_submitted \in Nat /\ ops_returned \in Nat /\ Outstanding \in Nat
    BY OutstandingType DEF TypeOK, Outstanding
  <2>1. CASE Quiet
    <3>1. CASE StartIteration
      <4>1. Stress /\ args' = args
        BY <3>1 DEF StartIteration, IterationsAreStress
      <4> QED
        BY <4>1 DEF Stress
    <3>2. CASE UNCHANGED counters
      BY <2>1, <3>2, QuietKeeps DEF counters, Vectored, Stress
    <3> QED
      BY <2>1, <3>1, <3>2, QuietKeeps
  <2>2. ASSUME NEW k \in 1..args.oio, Submit(k)
        PROVE  Balance'
    <3>1. Outstanding' = Outstanding + k
      BY <2>2, SubmitCount
    <3>2. args' = args /\ ops_returned' = ops_returned
      BY <2>2 DEF Submit, SubmitRound
    <3>3. ~Vectored => ops_submitted' = ops_submitted + k
      BY <2>2 DEF Submit, SubmitRound, SubmittedBy
    <3>4. k \in Nat
      BY ArgsAssumption DEF TypeOK
    <3> QED
      BY <2>0, <3>1, <3>2, <3>3, <3>4 DEF Vectored, Stress
  <2>3. ASSUME NEW good, NEW bad, Count(good, bad)
        PROVE  Balance'
    <3>1. good \in Nat /\ bad \in Nat /\ Outstanding' = Outstanding - (good + bad)
      BY <2>3, CountCount
    <3>2. args' = args /\ ops_submitted' = ops_submitted
      BY <2>3 DEF Count
    <3>3. ~Vectored => ops_returned' = ops_returned + (good + bad)
      BY <2>3 DEF Count, ReturnedBy
    <3> QED
      BY <2>0, <3>1, <3>2, <3>3 DEF Vectored, Stress
  <2>4. ASSUME NEW op \in inflight, NEW ok \in BOOLEAN, KernelCompletes(op, ok)
        PROVE  Balance'
    <3>1. UNCHANGED <<args, counters>>
      BY <2>4 DEF KernelCompletes, counters
    <3> QED
      BY <2>4, <3>1, CompleteCount DEF counters, Vectored, Stress
  <2> QED
    BY <2>1, <2>2, <2>3, <2>4, NextCases
<1>3. TypeOK /\ Balance => SubmittedIsReturnedOrPending
  <2> SUFFICES ASSUME TypeOK, Balance, Plain
               PROVE  ops_submitted = ops_returned + Cardinality(inflight) + Ctx!Pending
    BY DEF SubmittedIsReturnedOrPending
  <2> QED
    BY OutstandingType DEF TypeOK, Outstanding
<1> QED
  BY <1>1, <1>2, <1>3, TypeCorrect, OnlyPastRounds, StressOnly, PTL DEF Spec

-----------------------------------------------------------------------------
(* A buffer is never handed to the kernel while another operation uses it, *)
(* unless a wait timed out with operations of its round outstanding: even  *)
(* submissions cut short do no harm.  The invariant behind it is that a    *)
(* round which ends with all it took leaves nothing outstanding.           *)
THEOREM BuffersStayExclusive == Spec => []BuffersExclusive
<1>1. Init => RoundsClosed /\ BuffersExclusive
  BY FS_EmptySet
     DEF Init, Ctx!CtxInit, Ctx!Pending, Outstanding, RoundsClosed, BuffersExclusive
<1>2. TypeOK /\ RoundsPast /\ RoundsClosed /\ BuffersExclusive /\ [Next]_vars
        => RoundsClosed' /\ BuffersExclusive'
  <2> SUFFICES ASSUME TypeOK, RoundsPast, RoundsClosed, BuffersExclusive, [Next]_vars
               PROVE  RoundsClosed' /\ BuffersExclusive'
    OBVIOUS
  <2>0. /\ Outstanding \in Nat /\ taken \in Nat /\ args.oio \in Nat
        /\ IsFiniteSet(inflight) /\ short_wait \in BOOLEAN
    BY OutstandingType, ArgsAssumption DEF TypeOK, Outstanding
  <2>1. CASE Quiet
    <3>1. RoundsClosed'
      BY <2>1, QuietKeeps DEF RoundsClosed
    <3>2. BuffersExclusive'
      BY <2>1, QuietKeeps DEF BuffersExclusive
    <3> QED
      BY <3>1, <3>2
  <2>2. ASSUME NEW k \in 1..args.oio, Submit(k)
        PROVE  RoundsClosed' /\ BuffersExclusive'
    <3>0. pc = "loop" /\ pc' = "wait" /\ taken' = k /\ short_wait' = short_wait
      BY <2>2 DEF Submit, SubmitRound
    <3>1. ~short_wait => Outstanding = 0
      BY <3>0 DEF RoundsClosed
    <3>2. RoundsClosed'
      BY <2>0, <2>2, <3>0, <3>1, SubmitCount DEF RoundsClosed
    <3>3. BuffersExclusive'
      <4> SUFFICES ASSUME ~short_wait
                   PROVE  \A a, b \in inflight' : a.slot = b.slot => a = b
        BY <3>0 DEF BuffersExclusive
      <4>1. Cardinality(inflight) = 0
        BY <3>1, OutstandingType DEF Outstanding
      <4>2. inflight = {}
        BY <2>0, <4>1, FS_EmptySet
      <4>3. inflight' = RoundOps(k, rounds)
        BY <2>2, <4>2 DEF Submit, SubmitRound, Ctx!Take, RoundOps
      <4> QED
        BY <4>3 DEF RoundOps
    <3> QED
      BY <3>2, <3>3
  <2>3. ASSUME NEW good, NEW bad, pc = "wait", Count(good, bad)
        PROVE  RoundsClosed' /\ BuffersExclusive'
    <3>1. /\ pc' = "loop" /\ inflight' = inflight
          /\ ~short_wait' => ~short_wait /\ ~(good + bad < taken)
      BY <2>3 DEF Count, Ctx!Collect
    <3>2. /\ good \in Nat /\ bad \in Nat /\ good + bad <= Outstanding
          /\ Outstanding' = Outstanding - (good + bad)
      BY <2>3, CountCount, OutstandingType DEF Outstanding
    <3>3. RoundsClosed'
      BY <2>0, <2>3, <3>1, <3>2 DEF RoundsClosed
    <3>4. BuffersExclusive'
      BY <3>1 DEF BuffersExclusive
    <3> QED
      BY <3>3, <3>4
  <2>4. ASSUME NEW op \in inflight, NEW ok \in BOOLEAN, KernelCompletes(op, ok)
        PROVE  RoundsClosed' /\ BuffersExclusive'
    <3>1. /\ inflight' \subseteq inflight
          /\ UNCHANGED <<pc, taken, short_wait>>
      BY <2>4 DEF KernelCompletes, Ctx!Complete, history
    <3>2. RoundsClosed'
      BY <2>4, <3>1, CompleteCount DEF RoundsClosed
    <3>3. BuffersExclusive'
      BY <3>1 DEF BuffersExclusive
    <3> QED
      BY <3>2, <3>3
  <2> QED
    BY <2>1, <2>2, <2>3, <2>4, NextCases
<1> QED
  BY <1>1, <1>2, TypeCorrect, OnlyPastRounds, PTL DEF Spec

-----------------------------------------------------------------------------
(* NORMAL mode: each submission goes on in the file where the one before   *)
(* ended, over the end of the file and, in the plain function, also when   *)
(* that one was cut short.                                                 *)
THEOREM SequentialOffsets == Spec => []SequentialWithoutGaps
<1>. DEFINE Follows ==
       ~Stress => offsets = OffsetsFrom(args.read_offset, ops_submitted)
     Goes ==
       ~Stress /\ (Vectored => ~short_submit) => due = offsets[0]
<1>1. Init => Follows /\ Goes
  BY DEF Init
<1>2. TypeOK /\ IterationsAreStress /\ Follows /\ Goes /\ [Next]_vars
        => Follows' /\ Goes'
  <2> SUFFICES ASSUME TypeOK, IterationsAreStress, Follows, Goes, [Next]_vars
               PROVE  Follows' /\ Goes'
    OBVIOUS
  <2> USE DEF OffsetsFrom, Slots, Blocks, Vectored, Stress
  <2>1. CASE StartIteration
    BY <2>1 DEF StartIteration, IterationsAreStress
  <2>2. ASSUME UNCHANGED <<args, offsets, ops_submitted, due, short_submit>>
        PROVE  Follows' /\ Goes'
    BY <2>2
  <2>3. ASSUME NEW k \in 1..args.oio, Submit(k)
        PROVE  Follows' /\ Goes'
    <3>1. Follows'
      BY <2>3 DEF Submit, SubmitRound
    <3>2. ASSUME ~Stress, Vectored => ~short_submit'
          PROVE  due' = offsets'[0]
      <4> HIDE DEF OffsetsFrom, Slots, Blocks, Vectored, Stress
      <4>0. /\ args.oio \in Nat \ {0} /\ args.read_offset \in Nat /\ k \in Nat \ {0}
            /\ ops_submitted \in Nat /\ Blocks \in Nat \ {0}
        BY ArgsAssumption, BlocksType DEF TypeOK
      <4>1. ops_submitted' = ops_submitted + k * Blocks
        <5>1. CASE Vectored
          <6>1. ops_submitted' = ops_submitted + args.oio * args.vec_size
            BY <2>3, <5>1 DEF Submit, SubmitRound, SubmittedBy
          <6>2. args' = args /\ (short_submit' = (short_submit \/ k < args.oio))
            BY <2>3 DEF Submit, SubmitRound
          <6>3. ~(k < args.oio)
            BY <3>2, <5>1, <6>2 DEF Vectored
          <6>4. k = args.oio
            BY <4>0, <6>3
          <6> QED
            BY <5>1, <6>1, <6>4 DEF Blocks
        <5>2. CASE ~Vectored
          BY <2>3, <4>0, <5>2 DEF Submit, SubmitRound, Blocks, SubmittedBy
        <5> QED
          BY <5>1, <5>2
      <4>2. /\ (k - 1) * Blocks \in Nat
            /\ (k - 1) * Blocks + Blocks = k * Blocks
        BY <4>0
      <4> DEFINE last == ops_submitted + (k - 1) * Blocks
      <4>3. last \in Nat /\ last + Blocks = ops_submitted'
        BY <4>0, <4>1, <4>2
      <4>4. offsets[k - 1] = OffsetAt(args.read_offset, last)
        BY <3>2, <4>0 DEF OffsetsFrom, Slots, OffsetAt
      <4>5. offsets'[0] = OffsetAt(args.read_offset, ops_submitted')
        <5>1. offsets' = OffsetsFrom(args.read_offset, ops_submitted')
          BY <2>3, <3>2 DEF Submit, SubmitRound
        <5>2. 0 \in Slots /\ ops_submitted' + 0 * Blocks = ops_submitted'
          BY <4>0, <4>3 DEF Slots
        <5> QED
          BY <5>1, <5>2 DEF OffsetsFrom, OffsetAt
      <4>6. due' = OffsetAt(OffsetAt(args.read_offset, last), Blocks)
        BY <2>3, <4>4 DEF Submit, SubmitRound, OffsetAt
      <4> HIDE DEF last
      <4>7. OffsetAt(OffsetAt(args.read_offset, last), Blocks)
              = OffsetAt(args.read_offset, last + Blocks)
        <5>1. args \in Args
          BY DEF TypeOK
        <5>2. /\ args.read_offset \in Nat /\ last \in Nat /\ Blocks \in Nat
          BY <4>0, <4>3
        <5> HIDE DEF OffsetAt, Blocks
        <5> QED
          BY <5>1, <5>2, OffsetGoesOn
      <4> QED
        BY <4>3, <4>5, <4>6, <4>7
    <3>3. UNCHANGED args
      BY <2>3 DEF Submit, SubmitRound
    <3> QED
      BY <3>1, <3>2, <3>3
  <2>4. ASSUME NEW good, NEW bad, Count(good, bad)
        PROVE  Follows' /\ Goes'
    BY <2>2, <2>4 DEF Count
  <2>5. ASSUME NEW op \in inflight, NEW ok \in BOOLEAN, KernelCompletes(op, ok)
        PROVE  Follows' /\ Goes'
    BY <2>2, <2>5 DEF KernelCompletes, counters, history
  <2>6. CASE Quiet /\ ~StartIteration
    <3>1. UNCHANGED <<args, offsets, ops_submitted, due, short_submit>>
      BY <2>6 DEF Quiet, Setup, EndIterations, LoopEnd, Destroy, CallFails, Expire,
       Return, vars, counters, history
    <3> QED
      BY <2>2, <3>1
  <2> QED
    BY <2>1, <2>3, <2>4, <2>5, <2>6, NextCases
<1>3. Goes => SequentialWithoutGaps
  BY DEF SequentialWithoutGaps
<1> QED
  BY <1>1, <1>2, <1>3, TypeCorrect, StressOnly, PTL DEF Spec

-----------------------------------------------------------------------------
(* The file is whole operations long, and the thread begins at one. *)
WholeOperations == args.max_offset % Bytes = 0 /\ args.read_offset % Bytes = 0

(* An operation begins, and all of it is in the file, at the offset. *)
WholeAt(offset) == MultipleOf(offset, Bytes) /\ offset + Bytes <= args.max_offset

(* Offsets and bases are at operations, counts of blocks are of whole ones. *)
OnOperations ==
  WholeOperations => /\ \A i \in Slots : WholeAt(offsets[i])
                     /\ MultipleOf(benchmark_offset, Bytes)
                     /\ MultipleOf(ops_submitted, Blocks)

LEMMA FileOfOperations ==
  ASSUME TypeOK, WholeOperations
  PROVE  /\ Bytes \in Nat \ {0} /\ Bytes = Blocks * BufferSize
         /\ MultipleOf(args.max_offset, Bytes) /\ MultipleOf(args.read_offset, Bytes)
         /\ MultipleOf(0, Bytes) /\ MultipleOf(0, Blocks)
<1>1. /\ Blocks \in Nat \ {0} /\ BufferSize \in Nat \ {0}
      /\ args.max_offset \in Nat /\ args.read_offset \in Nat
  BY BlocksType, ArgsAssumption, BoundAssumption DEF TypeOK
<1>2. Bytes \in Nat \ {0}
  BY <1>1 DEF Bytes
<1>3. 0 = 0 * Bytes /\ 0 = 0 * Blocks
  BY <1>1, <1>2
<1>4. MultipleOf(0, Bytes) /\ MultipleOf(0, Blocks)
  BY <1>3 DEF MultipleOf
<1>5. MultipleOf(args.max_offset, Bytes) /\ MultipleOf(args.read_offset, Bytes)
  BY <1>1, <1>2, NoRemainder DEF WholeOperations
<1> QED
  BY <1>2, <1>4, <1>5 DEF Bytes

LEMMA OffsetsWhole ==
  ASSUME TypeOK, WholeOperations, NEW initial \in Nat, NEW submitted \in Nat,
         MultipleOf(initial, Bytes), MultipleOf(submitted, Blocks), NEW i \in Slots
  PROVE  WholeAt(OffsetsFrom(initial, submitted)[i])
<1>1. /\ Blocks \in Nat \ {0} /\ BufferSize \in Nat /\ args.max_offset \in Nat \ {0} /\ i \in Nat
  BY BlocksType, ArgsAssumption, BoundAssumption DEF TypeOK, Slots
<1>2. MultipleOf(submitted + i * Blocks, Blocks) /\ submitted + i * Blocks \in Nat
  <2>1. MultipleOf(i * Blocks, Blocks)
    BY <1>1 DEF MultipleOf
  <2>2. submitted + i * Blocks \in Nat
    BY <1>1
  <2> HIDE DEF Blocks
  <2>3. Blocks \in Nat
    BY <1>1
  <2>4. MultipleOf(submitted + i * Blocks, Blocks)
    BY <2>1, <2>3, MultipleSum
  <2> QED
    BY <2>2, <2>4
<1>3. Blocks * BufferSize > 0
  BY FileOfOperations
<1>4. WholeAt(getOffset(args.max_offset, initial, BufferSize, submitted + i * Blocks))
  <2> DEFINE iteration == submitted + i * Blocks
  <2>1. /\ MultipleOf(args.max_offset, Blocks * BufferSize)
        /\ MultipleOf(initial, Blocks * BufferSize)
        /\ Bytes = Blocks * BufferSize
    BY FileOfOperations
  <2>2. /\ Blocks \in Nat /\ BufferSize \in Nat /\ args.max_offset \in Nat \ {0}
        /\ iteration \in Nat /\ MultipleOf(iteration, Blocks)
    BY <1>1, <1>2
  <2> HIDE DEF getOffset, Blocks, iteration
  <2>3. /\ MultipleOf(getOffset(args.max_offset, initial, BufferSize, iteration),
                      Blocks * BufferSize)
        /\ getOffset(args.max_offset, initial, BufferSize, iteration)
             + Blocks * BufferSize <= args.max_offset
    BY <1>3, <2>1, <2>2, OffsetOfWhole
  <2> QED
    BY <2>1, <2>3 DEF WholeAt, iteration
<1> QED
  BY <1>4 DEF OffsetsFrom

(* On a file of whole operations all operations are whole, vectored ones   *)
(* too, wherever submissions were cut and iterations ended.                *)
THEOREM WholeTransfers == Spec => []TransfersWhole
<1>1. Init /\ TypeOK => OnOperations
  <2> SUFFICES ASSUME Init, TypeOK, WholeOperations
               PROVE  /\ \A i \in Slots : WholeAt(offsets[i])
                      /\ MultipleOf(benchmark_offset, Bytes)
                      /\ MultipleOf(ops_submitted, Blocks)
    BY DEF OnOperations
  <2>1. args.read_offset \in Nat
    BY ArgsAssumption DEF TypeOK
  <2> QED
    BY <2>1, FileOfOperations, OffsetsWhole DEF Init
<1>2. TypeOK /\ OnOperations /\ [Next]_vars => OnOperations'
  <2> SUFFICES ASSUME TypeOK, OnOperations, [Next]_vars
               PROVE  OnOperations'
    OBVIOUS
  <2>1. ASSUME UNCHANGED <<args, offsets, benchmark_offset, ops_submitted>>
        PROVE  OnOperations'
    BY <2>1 DEF OnOperations, WholeOperations, WholeAt, Bytes, Blocks, Vectored, Slots
  <2>2. ASSUME UNCHANGED args, WholeOperations' =>
                 /\ \A i \in Slots : WholeAt(offsets'[i])
                 /\ MultipleOf(benchmark_offset', Bytes)
                 /\ MultipleOf(ops_submitted', Blocks)
        PROVE  OnOperations'
    BY <2>2 DEF OnOperations, WholeOperations, WholeAt, Bytes, Blocks, Vectored, Slots
  <2>3. CASE StartIteration
    <3>1. args.oio - 1 \in Slots
      BY ArgsAssumption DEF TypeOK, Slots
    <3>2. /\ UNCHANGED <<args, offsets>> /\ ops_submitted' = 0
          /\ benchmark_offset' = offsets[args.oio - 1]
      BY <2>3 DEF StartIteration
    <3>3. WholeOperations' => WholeOperations
      BY <3>2 DEF WholeOperations, Bytes, Blocks, Vectored
    <3> QED
      BY <2>2, <3>1, <3>2, <3>3, FileOfOperations DEF OnOperations, WholeAt
  <2>4. ASSUME NEW k \in 1..args.oio, Submit(k)
        PROVE  OnOperations'
    <3> DEFINE base == IF Stress THEN benchmark_offset ELSE args.read_offset
    <3>1. /\ UNCHANGED <<args, benchmark_offset>>
          /\ ops_submitted' = ops_submitted + SubmittedBy(k)
          /\ offsets' = OffsetsFrom(base, ops_submitted')
      BY <2>4 DEF Submit, SubmitRound, benchVars
    <3>2. /\ args.oio \in Nat /\ args.vec_size \in Nat /\ k \in Nat
          /\ ops_submitted \in Nat /\ base \in Nat /\ Blocks \in Nat
      BY ArgsAssumption, BlocksType DEF TypeOK
    <3>3. SubmittedBy(k) \in Nat /\ MultipleOf(SubmittedBy(k), Blocks)
      <4>1. CASE Vectored
        BY <3>2, <4>1 DEF SubmittedBy, Blocks, MultipleOf
      <4>2. CASE ~Vectored
        BY <3>2, <4>2, MultipleOfOne DEF SubmittedBy, Blocks
      <4> QED
        BY <4>1, <4>2
    <3>4. ops_submitted' \in Nat
      BY <3>1, <3>2, <3>3
    <3>5. WholeOperations' => WholeOperations
      BY <3>1 DEF WholeOperations, Bytes, Blocks, Vectored
    <3>6. ASSUME WholeOperations
          PROVE  /\ \A i \in Slots : WholeAt(offsets'[i])
                 /\ MultipleOf(benchmark_offset', Bytes)
                 /\ MultipleOf(ops_submitted', Blocks)
      <4>1. MultipleOf(base, Bytes) /\ MultipleOf(benchmark_offset', Bytes)
        BY <3>1, <3>6, FileOfOperations DEF OnOperations
      <4>2. MultipleOf(ops_submitted', Blocks)
        BY <3>1, <3>2, <3>3, <3>6, MultipleSum DEF OnOperations
      <4> HIDE DEF base
      <4> QED
        BY <3>1, <3>2, <3>4, <3>6, <4>1, <4>2, OffsetsWhole
    <3> QED
      BY <2>2, <3>1, <3>5, <3>6
  <2>5. ASSUME NEW good, NEW bad, Count(good, bad)
        PROVE  OnOperations'
    BY <2>1, <2>5 DEF Count, benchVars
  <2>6. ASSUME NEW op \in inflight, NEW ok \in BOOLEAN, KernelCompletes(op, ok)
        PROVE  OnOperations'
    BY <2>1, <2>6 DEF KernelCompletes, counters, benchVars
  <2>7. CASE Quiet /\ ~StartIteration
    <3>1. UNCHANGED <<args, offsets, benchmark_offset, ops_submitted>>
      BY <2>7 DEF Quiet, Setup, EndIterations, LoopEnd, Destroy, CallFails, Expire,
         Return, vars, counters, benchVars
    <3> QED
      BY <2>1, <3>1
  <2> QED
    BY <2>3, <2>4, <2>5, <2>6, <2>7, NextCases
<1>3. OnOperations => TransfersWhole
  BY DEF OnOperations, WholeOperations, WholeAt, TransfersWhole
<1> QED
  BY <1>1, <1>2, <1>3, TypeCorrect, PTL DEF Spec

-----------------------------------------------------------------------------
(* A wait is for a whole round unless the submission before it was cut. *)
RoundTaken == pc = "wait" /\ ~short_submit => taken = args.oio

(* Vectored: counting oio operations of vec_size blocks a round is right   *)
(* as long as no submission and no wait came back with less.               *)
THEOREM VectoredAccounting == Spec => []VectoredCountExact
<1>1. Init => VectoredCountExact /\ RoundTaken
  <2> SUFFICES ASSUME Init
               PROVE  VectoredCountExact /\ RoundTaken
    OBVIOUS
  <2>1. args.vec_size \in Nat
    BY ArgsAssumption DEF Init
  <2> QED
    BY <2>1 DEF Init, Ctx!CtxInit, VectoredCountExact, RoundTaken
<1>2. TypeOK /\ IterationsAreStress /\ VectoredCountExact /\ RoundTaken /\ [Next]_vars
        => VectoredCountExact' /\ RoundTaken'
  <2> SUFFICES ASSUME TypeOK, IterationsAreStress, VectoredCountExact, RoundTaken,
                      [Next]_vars
               PROVE  VectoredCountExact' /\ RoundTaken'
    OBVIOUS
  <2> USE DEF VectoredCountExact, RoundTaken, history, ctxVars, counters
  <2>0. /\ args.oio \in Nat /\ args.vec_size \in Nat
        /\ ops_returned \in Nat /\ ops_failed \in Nat /\ succeeded \in Nat
        /\ events.ok \in Nat /\ events.failed \in Nat
        /\ short_submit \in BOOLEAN /\ short_wait \in BOOLEAN
    BY ArgsAssumption DEF TypeOK
  <2>1. CASE StartIteration
    <3>1. Stress /\ args' = args /\ pc' = "loop"
      BY <2>1 DEF StartIteration, IterationsAreStress
    <3> QED
      BY <3>1 DEF Stress, Vectored
  <2>2. ASSUME UNCHANGED <<args, counters, events, succeeded, short_submit, short_wait>>,
               pc' # "wait" \/ UNCHANGED <<pc, taken>>
        PROVE  VectoredCountExact' /\ RoundTaken'
    BY <2>2 DEF Vectored
  <2>3. CASE Quiet /\ ~StartIteration
    <3>1. UNCHANGED <<args, counters, events, succeeded, short_submit, short_wait, taken>>
      BY <2>3 DEF Quiet, Setup, EndIterations, LoopEnd, Destroy, CallFails, Expire,
                  Return, vars
    <3>2. pc' # "wait" \/ pc' = pc
      BY <2>3, QuietKeeps
    <3> QED
      BY <2>2, <3>1, <3>2
  <2>4. ASSUME NEW k \in 1..args.oio, Submit(k)
        PROVE  VectoredCountExact' /\ RoundTaken'
    <3>1. /\ UNCHANGED <<args, ops_returned, ops_failed, events, succeeded, short_wait>>
          /\ taken' = k /\ short_submit' = (short_submit \/ k < args.oio)
      BY <2>4 DEF Submit, SubmitRound, Ctx!Take
    <3>2. ~short_submit' => ~short_submit /\ ~(k < args.oio)
      BY <3>1
    <3>3. ~(k < args.oio) => k = args.oio
      BY <2>0
    <3> QED
      BY <3>1, <3>2, <3>3 DEF Vectored
  <2>5. ASSUME NEW good, NEW bad, pc = "wait", Count(good, bad), good + bad <= args.oio
        PROVE  VectoredCountExact' /\ RoundTaken'
    <3>0. /\ pc' = "loop" /\ UNCHANGED <<args, succeeded, taken, short_submit>>
          /\ short_wait' = (short_wait \/ good + bad < taken)
          /\ good \in Nat /\ bad \in Nat /\ events'.ok = events.ok - good
      BY <2>0, <2>5 DEF Count, Ctx!Collect
    <3>1. ASSUME Vectored, ~short_submit, ~short_wait'
          PROVE  ops_returned' - ops_failed' = args.vec_size * (succeeded' - events'.ok)
      <4> DEFINE done == succeeded - events.ok
                 was == args.vec_size * done
                 now == args.vec_size * good
                 lost == args.vec_size * bad
      <4>1. good + bad = args.oio /\ ~short_wait
        <5>1. ~short_wait /\ ~(good + bad < taken)
          BY <3>0, <3>1
        <5>2. taken = args.oio
          BY <2>5, <3>1
        <5> QED
          BY <2>0, <2>5, <3>0, <5>1, <5>2
      <4>2. ops_returned - ops_failed = was
        BY <3>1, <4>1
      <4>3. done \in Int /\ was \in Int /\ now \in Int /\ lost \in Int
        BY <2>0, <3>0
      <4>4. args.oio * args.vec_size = now + lost
        BY <2>0, <3>0, <4>1
      <4>5. ops_returned' = ops_returned + args.oio * args.vec_size
        BY <2>5, <3>1 DEF Count, ReturnedBy
      <4>6. ops_failed' = ops_failed + lost
        <5>1. bad * args.vec_size = lost
          BY <2>0, <3>0
        <5> QED
          BY <2>5, <3>1, <5>1 DEF Count, FailedBy, Blocks
      <4>7. args.vec_size * (succeeded' - events'.ok) = was + now
        <5>1. succeeded' - events'.ok = done + good
          BY <2>0, <3>0
        <5>2. args.vec_size * (done + good) = was + now
          BY <2>0, <3>0, <4>3
        <5> QED
          BY <5>1, <5>2
      <4> HIDE DEF was, now, lost
      <4> QED
        BY <2>0, <4>2, <4>3, <4>4, <4>5, <4>6, <4>7
    <3> QED
      BY <3>0, <3>1 DEF Vectored
  <2>6. ASSUME NEW op \in inflight, NEW ok \in BOOLEAN, KernelCompletes(op, ok)
        PROVE  VectoredCountExact' /\ RoundTaken'
    <3>1. UNCHANGED <<args, pc, ops_returned, ops_failed, taken, short_submit, short_wait>>
      BY <2>6 DEF KernelCompletes
    <3>2. succeeded' - events'.ok = succeeded - events.ok
      <4>1. CASE ok
        BY <2>0, <2>6, <4>1 DEF KernelCompletes, Ctx!Complete, TypeOK
      <4>2. CASE ~ok
        BY <2>0, <2>6, <4>2 DEF KernelCompletes, Ctx!Complete, TypeOK
      <4> QED
        BY <4>1, <4>2
    <3> QED
      BY <3>1, <3>2 DEF Vectored
  <2> QED
    BY <2>1, <2>3, <2>4, <2>5, <2>6, NextCases
<1> QED
  BY <1>1, <1>2, TypeCorrect, StressOnly, PTL DEF Spec

-----------------------------------------------------------------------------
LEMMA QuotientTimes ==
  ASSUME NEW n \in Nat, NEW d \in Nat \ {0}
  PROVE  (n \div d) * d <= n
<1>1. n \div d \in Nat /\ n = d * (n \div d) + (n % d) /\ n % d \in 0..(d - 1)
  OBVIOUS
<1>2. d * (n \div d) = (n \div d) * d /\ d * (n \div d) \in Nat
  BY <1>1
<1> QED
  BY <1>1, <1>2

LEMMA ProductGrows ==
  ASSUME NEW a \in Nat, NEW b \in Nat, NEW c \in Nat, a <= b
  PROVE  a * c <= b * c
<1>1. b - a \in Nat
  OBVIOUS
<1>2. (b - a) * c \in Nat /\ b * c = a * c + (b - a) * c /\ a * c \in Nat
  BY <1>1
<1> QED
  BY <1>2

(* The result never counts more than was done; for the stress benchmark,   *)
(* neither does a second's average times the seconds.                      *)
THEOREM ResultsAreDone == Spec => []ResultIsDone
<1> DEFINE Bounded ==
       op_count * (IF Stress THEN args.runtime ELSE 1) <= succeeded * Blocks
<1>1. Init => ResultIsDone
  BY DEF Init, ResultIsDone
<1>2. TypeOK /\ NoUnderflow /\ IterationsAreStress /\ CountsEachSuccessOnce
        /\ VectoredCountExact /\ ResultIsDone /\ [Next]_vars
        => ResultIsDone'
  <2> SUFFICES ASSUME TypeOK, NoUnderflow, IterationsAreStress, CountsEachSuccessOnce,
                      VectoredCountExact, ResultIsDone, [Next]_vars
               PROVE  ResultIsDone'
    OBVIOUS
  <2> SUFFICES ASSUME pc' = "done", Vectored' => ~short_submit' /\ ~short_wait'
               PROVE  Bounded'
    BY DEF ResultIsDone
  <2>0. /\ args.runtime \in Nat \ {0} /\ args.vec_size \in Nat
        /\ Blocks \in Nat \ {0}
        /\ ops_returned \in Nat /\ ops_failed \in Nat
        /\ ops_returned - ops_failed \in Nat
        /\ succeeded \in Nat /\ benchmark_opcount \in Nat
        /\ events.ok \in Nat
    BY ArgsAssumption, BlocksType DEF TypeOK, NoUnderflow
  <2>1. CASE Destroy
    <3>1. /\ pc = "destroy" /\ op_count' = ResultCount
          /\ UNCHANGED <<args, succeeded, short_submit, short_wait>>
      BY <2>1 DEF Destroy, history
    <3>2. Blocks' = Blocks /\ (Stress' <=> Stress) /\ (Vectored' <=> Vectored)
      BY <3>1 DEF Blocks, Vectored, Stress
    <3>3. CASE Stress
      <4>1. ~Vectored /\ Blocks = 1
        BY <3>3 DEF Stress, Vectored, Blocks
      <4>2. succeeded = benchmark_opcount + events.ok
        BY <2>0, <3>1, <3>3, <4>1 DEF CountsEachSuccessOnce, Counted
      <4>3. op_count' = benchmark_opcount \div args.runtime
        BY <3>1, <3>3 DEF ResultCount
      <4>4. op_count' * args.runtime <= benchmark_opcount
        BY <2>0, <4>3, QuotientTimes
      <4>5. op_count' * args.runtime <= succeeded
        <5>1. op_count' \in Nat
          BY <2>0, <4>3
        <5>2. op_count' * args.runtime \in Nat
          BY <2>0, <5>1
        <5> QED
          BY <2>0, <4>2, <4>4, <5>2
      <4> QED
        BY <2>0, <3>1, <3>2, <3>3, <4>1, <4>5
    <3>4. CASE ~Stress
      <4>1. op_count' = ops_returned - ops_failed
        BY <3>1, <3>4 DEF ResultCount
      <4>2. op_count' <= succeeded * Blocks
        <5>1. CASE Vectored
          <6>1. op_count' = args.vec_size * (succeeded - events.ok)
            BY <3>1, <3>2, <4>1, <5>1 DEF VectoredCountExact
          <6>2. Blocks = args.vec_size
            BY <5>1 DEF Blocks
          <6>3. /\ args.vec_size * (succeeded - events.ok)
                     = succeeded * args.vec_size - args.vec_size * events.ok
                /\ args.vec_size * events.ok \in Nat
                /\ succeeded * args.vec_size \in Nat
            BY <2>0
          <6> QED
            BY <6>1, <6>2, <6>3
        <5>2. CASE ~Vectored
          <6>1. succeeded = op_count' + events.ok
            BY <3>1, <3>4, <4>1, <5>2, <2>0 DEF CountsEachSuccessOnce, Counted
          <6>2. Blocks = 1
            BY <5>2 DEF Blocks
          <6> QED
            BY <2>0, <4>1, <6>1, <6>2
        <5> QED
          BY <5>1, <5>2
      <4>3. op_count' \in Nat
        BY <2>0, <4>1
      <4> QED
        BY <3>1, <3>2, <3>4, <4>2, <4>3
    <3> QED
      BY <3>3, <3>4
  <2>2. ASSUME pc = "done", UNCHANGED <<args, op_count, short_submit, short_wait>>,
               succeeded' \in Nat, succeeded <= succeeded'
        PROVE  Bounded'
    <3>1. Blocks' = Blocks /\ (Stress' <=> Stress) /\ (Vectored' <=> Vectored)
      BY <2>2 DEF Blocks, Vectored, Stress
    <3> DEFINE count == op_count * (IF Stress THEN args.runtime ELSE 1)
    <3>2. count <= succeeded * Blocks
      BY <2>2, <3>1 DEF ResultIsDone
    <3>3. succeeded * Blocks <= succeeded' * Blocks
      <4>1. succeeded \in Nat /\ succeeded' \in Nat /\ Blocks \in Nat
        BY <2>0, <2>2
      <4>2. succeeded <= succeeded'
        BY <2>2
      <4> QED
        BY <4>1, <4>2, ProductGrows
    <3>4. count \in Int /\ succeeded * Blocks \in Int /\ succeeded' * Blocks \in Int
      <4>1. op_count \in Int
        BY DEF TypeOK
      <4> QED
        BY <2>0, <2>2, <4>1
    <3>5. (op_count * (IF Stress THEN args.runtime ELSE 1))' = count
      BY <2>2, <3>1
    <3> HIDE DEF count
    <3> QED
      BY <3>1, <3>2, <3>3, <3>4, <3>5
  <2>3. CASE Quiet /\ ~Destroy
    <3>1. pc = "done" /\ UNCHANGED <<args, op_count, short_submit, short_wait, succeeded>>
      BY <2>3 DEF Quiet, Setup, StartIteration, EndIterations, LoopEnd, CallFails,
                  Expire, Return, vars, history
    <3> QED
      BY <2>0, <2>2, <3>1
  <2>4. ASSUME NEW op \in inflight, NEW ok \in BOOLEAN, KernelCompletes(op, ok)
        PROVE  Bounded'
    BY <2>0, <2>2, <2>4 DEF KernelCompletes, history
  <2>5. ASSUME NEW k \in 1..args.oio
        PROVE  ~Submit(k)
    BY DEF Submit
  <2>6. ASSUME NEW good, NEW bad
        PROVE  ~Count(good, bad)
    BY DEF Count
  <2> QED
    BY <2>1, <2>3, <2>4, <2>5, <2>6, NextCases
<1> QED
  BY <1>1, <1>2, TypeCorrect, StressOnly, SuccessesCountedOnce, VectoredAccounting, PTL
     DEF Spec

-----------------------------------------------------------------------------
(* An event waits to be collected for each success not counted yet.        *)
EventsSucceeded == events.ok <= succeeded

LEMMA EventsBelow == Spec => []EventsSucceeded
<1>1. Init => EventsSucceeded
  BY DEF Init, EventsSucceeded, Ctx!CtxInit
<1>2. TypeOK /\ EventsSucceeded /\ [Next]_vars => EventsSucceeded'
  <2> SUFFICES ASSUME TypeOK, EventsSucceeded, [Next]_vars
               PROVE  EventsSucceeded'
    OBVIOUS
  <2>0. events \in [ok : Nat, failed : Nat] /\ succeeded \in Nat
    BY DEF TypeOK
  <2>1. CASE Quiet
    BY <2>1 DEF Quiet, Setup, StartIteration, EndIterations, LoopEnd, Destroy, CallFails,
         Expire, Return, vars, ctxVars, EventsSucceeded
  <2>2. ASSUME NEW k \in 1..args.oio, Submit(k)
        PROVE  EventsSucceeded'
    BY <2>2 DEF Submit, SubmitRound, Ctx!Take, EventsSucceeded
  <2>3. ASSUME NEW good, NEW bad, Count(good, bad)
        PROVE  EventsSucceeded'
    BY <2>0, <2>3 DEF Count, Ctx!Collect, EventsSucceeded
  <2>4. ASSUME NEW op \in inflight, NEW ok \in BOOLEAN, KernelCompletes(op, ok)
        PROVE  EventsSucceeded'
    <3>1. CASE ok
      BY <2>0, <2>4, <3>1 DEF KernelCompletes, Ctx!Complete, EventsSucceeded
    <3>2. CASE ~ok
      BY <2>0, <2>4, <3>2 DEF KernelCompletes, Ctx!Complete, EventsSucceeded
    <3> QED
      BY <3>1, <3>2
  <2> QED
    BY <2>1, <2>2, <2>3, <2>4, NextCases
<1> QED
  BY <1>1, <1>2, TypeCorrect, PTL DEF Spec

ResultSeconds == IF Stress THEN args.runtime ELSE 1
NothingCut == Vectored => ~short_submit /\ ~short_wait

LEMMA DoneType ==
  ASSUME TypeOK, EventsSucceeded
  PROVE  Done \in Nat /\ ResultSeconds \in Nat /\ ResultSeconds # 0
<1>1. /\ Blocks \in Nat /\ events.ok \in Nat /\ succeeded \in Nat
      /\ args.runtime \in Nat \ {0}
  BY ArgsAssumption, BlocksType DEF TypeOK
<1>2. succeeded - events.ok \in Nat
  BY <1>1 DEF EventsSucceeded
<1> QED
  BY <1>1, <1>2 DEF Done, ResultSeconds

(* A function that comes to its end computes its result from what is done. *)
LEMMA ResultComputed ==
  ASSUME TypeOK, EventsSucceeded, CountsEachSuccessOnce, VectoredCountExact, NothingCut,
         pc = "destroy"
  PROVE  ResultCount = Done \div ResultSeconds
<1>0. /\ ops_returned \in Nat /\ ops_failed \in Nat /\ succeeded \in Nat
      /\ benchmark_opcount \in Nat /\ events.ok \in Nat
  BY DEF TypeOK
<1>1. CASE Vectored
  <2>1. ~Stress /\ Blocks = args.vec_size
    BY <1>1 DEF Vectored, Stress, Blocks
  <2>2. ops_returned - ops_failed = Done
    BY <1>1, <2>1 DEF VectoredCountExact, NothingCut, Done
  <2>3. Done \div 1 = Done
    BY DoneType
  <2> QED
    BY <2>1, <2>2, <2>3 DEF ResultCount, ResultSeconds
<1>2. CASE ~Vectored
  <2>1. Done = succeeded - events.ok
    BY <1>0, <1>2 DEF Done, Blocks
  <2>2. succeeded = Counted + events.ok
    BY <1>2 DEF CountsEachSuccessOnce
  <2>3. CASE Stress
    <3>1. Counted = benchmark_opcount
      BY <1>0, <2>3 DEF Counted
    <3>2. Done = benchmark_opcount
      BY <1>0, <2>1, <2>2, <3>1
    <3> QED
      BY <2>3, <3>2 DEF ResultCount, ResultSeconds
  <2>4. CASE ~Stress
    <3>1. Counted = ops_returned - ops_failed
      BY <1>0, <2>4 DEF Counted
    <3>2. Done = ops_returned - ops_failed
      BY <1>0, <2>1, <2>2, <3>1
    <3>3. Done \div 1 = Done
      BY DoneType
    <3> QED
      BY <2>4, <3>2, <3>3 DEF ResultCount, ResultSeconds
  <2> QED
    BY <2>3, <2>4
<1> QED
  BY <1>1, <1>2

LEMMA SecondsStay ==
  ASSUME [Next]_vars
  PROVE  UNCHANGED <<Blocks, ResultSeconds>>
<1>1. args' = args
  BY DEF Next, Step, Kernel, vars, Setup, StartIteration, EndIterations, Submit, SubmitRound,
         GetEvents, GetEventsTimesOut, Count, LoopEnd, Destroy, CallFails, KernelCompletes,
         Expire, Return
<1> QED
  BY <1>1 DEF Blocks, Vectored, ResultSeconds, Stress

(* Events collected are blocks done, and nothing else is: not even an      *)
(* operation that completes, before its event is collected.                *)
LEMMA CollectionAdds ==
  ASSUME TypeOK, EventsSucceeded, [Next]_vars, NEW good, NEW bad, Count(good, bad)
  PROVE  Done' = Done \/ (Done' \in Nat /\ Done' > Done)
<1>1. /\ good \in 0..events.ok /\ events'.ok = events.ok - good /\ succeeded' = succeeded
  BY DEF Count, Ctx!Collect
<1>2. Blocks \in Nat /\ events.ok \in Nat /\ succeeded \in Nat /\ Blocks' = Blocks
  BY BlocksType, SecondsStay DEF TypeOK
<1>3. PICK n \in Nat : n = succeeded - events.ok
  BY <1>2 DEF EventsSucceeded
<1>4. succeeded' - events'.ok = n + good /\ good \in Nat
  BY <1>1, <1>2, <1>3
<1>5. \A b, m, k \in Nat : b * (m + k) = b * m + b * k /\ b * m \in Nat /\ b * k \in Nat
  OBVIOUS
<1>6. Done = Blocks * n /\ Done' = Blocks * (n + good)
  BY <1>2, <1>3, <1>4 DEF Done
<1>7. Done \in Nat /\ Blocks * good \in Nat /\ Done' = Done + Blocks * good
  BY <1>2, <1>4, <1>5, <1>6
<1> DEFINE more == Blocks * good
<1> HIDE DEF more
<1>8. Done \in Nat /\ more \in Nat /\ Done' = Done + more
  BY <1>7 DEF more
<1> HIDE DEF Done
<1> QED
  BY <1>8

LEMMA OthersKeepDone ==
  ASSUME TypeOK, [Next]_vars,
         \/ Quiet
         \/ \E k \in 1..args.oio : Submit(k)
         \/ \E op \in inflight, ok \in BOOLEAN : KernelCompletes(op, ok)
  PROVE  Done' = Done
<1>0. events \in [ok : Nat, failed : Nat] /\ succeeded \in Nat
  BY DEF TypeOK
<1>1. CASE Quiet
  <2>1. UNCHANGED <<events, succeeded>>
    BY <1>1 DEF Quiet, Setup, StartIteration, EndIterations, LoopEnd, Destroy, CallFails,
         Expire, Return, vars, ctxVars
  <2> QED
    BY <2>1, SecondsStay DEF Done
<1>2. ASSUME NEW k \in 1..args.oio, Submit(k)
      PROVE  Done' = Done
  <2>1. UNCHANGED <<events, succeeded>>
    BY <1>2 DEF Submit, SubmitRound, Ctx!Take
  <2> QED
    BY <2>1, SecondsStay DEF Done
<1>3. ASSUME NEW op \in inflight, NEW ok \in BOOLEAN, KernelCompletes(op, ok)
      PROVE  Done' = Done
  <2>1. succeeded' - events'.ok = succeeded - events.ok
    <3>1. CASE ok
      BY <1>0, <1>3, <3>1 DEF KernelCompletes, Ctx!Complete
    <3>2. CASE ~ok
      BY <1>0, <1>3, <3>2 DEF KernelCompletes, Ctx!Complete
    <3> QED
      BY <3>1, <3>2
  <2> QED
    BY <2>1, SecondsStay DEF Done
<1> QED
  BY <1>1, <1>2, <1>3

(* The libaio engine is an engine as the driver expects it, and the same   *)
(* as the io_uring engine: one result, that is what the events collected   *)
(* said, or zero after an error.                                           *)
THEOREM RefinesEngine == Spec => ImplementsEngine
<1>1. Init => E!Init
  <2> SUFFICES ASSUME Init PROVE E!Init
    OBVIOUS
  <2>1. args \in Args /\ succeeded = 0 /\ events.ok = 0 /\ pc = "setup" /\ op_count = -1
    BY DEF Init, Ctx!CtxInit
  <2>2. Done = 0
    <3>1. Blocks \in Nat
      BY <2>1, ArgsAssumption DEF Blocks, Vectored
    <3> QED
      BY <2>1, <3>1 DEF Done
  <2>3. (IF Stress THEN args.runtime ELSE 1) \in Nat
    BY <2>1, ArgsAssumption
  <2> QED
    BY <2>1, <2>2, <2>3 DEF E!Init, Stage
<1>2. TypeOK /\ EventsSucceeded /\ CountsEachSuccessOnce /\ VectoredCountExact /\ [Next]_vars
        => [NothingCut => [E!Next]_(E!vars)]_vars
  <2> SUFFICES ASSUME TypeOK, EventsSucceeded, CountsEachSuccessOnce, VectoredCountExact,
                      [Next]_vars, NothingCut
               PROVE  [E!Next]_(E!vars)
    OBVIOUS
  <2>1. CASE Quiet /\ ~Destroy /\ ~CallFails
    <3>1. UNCHANGED <<Stage, op_count>>
      BY <2>1 DEF Quiet, Setup, StartIteration, EndIterations, LoopEnd, Expire, Return, vars,
           Stage
    <3> QED
      BY <2>1, <3>1, OthersKeepDone, SecondsStay DEF E!vars, ResultSeconds
  <2>2. CASE Destroy
    <3>1. Stage = "working" /\ Stage' = "returned" /\ op_count' = Done \div ResultSeconds
      BY <2>2, ResultComputed DEF Destroy, Stage
    <3>2. UNCHANGED <<Done, ResultSeconds>>
      BY <2>2, OthersKeepDone, SecondsStay DEF Quiet
    <3> QED
      BY <3>1, <3>2, DoneType DEF E!Next, E!Return, ResultSeconds
  <2>3. CASE CallFails
    <3>1. Stage = "working" /\ Stage' = "failed" /\ op_count' = 0
      BY <2>3 DEF CallFails, Stage
    <3>2. UNCHANGED <<Done, ResultSeconds>>
      BY <2>3, OthersKeepDone, SecondsStay DEF Quiet
    <3> QED
      BY <3>1, <3>2 DEF E!Next, E!Fail, ResultSeconds
  <2>4. ASSUME NEW k \in 1..args.oio, Submit(k)
        PROVE  [E!Next]_(E!vars)
    <3>1. UNCHANGED <<Stage, op_count>>
      BY <2>4 DEF Submit, SubmitRound, Stage
    <3> QED
      BY <2>4, <3>1, OthersKeepDone, SecondsStay DEF E!vars, ResultSeconds
  <2>5. ASSUME NEW op \in inflight, NEW ok \in BOOLEAN, KernelCompletes(op, ok)
        PROVE  [E!Next]_(E!vars)
    <3>1. UNCHANGED <<Stage, op_count>>
      BY <2>5 DEF KernelCompletes, Stage
    <3> QED
      BY <2>5, <3>1, OthersKeepDone, SecondsStay DEF E!vars, ResultSeconds
  <2>6. ASSUME NEW good, NEW bad, pc = "wait", Count(good, bad)
        PROVE  [E!Next]_(E!vars)
    <3>1. Stage = "working" /\ UNCHANGED <<Stage, op_count>>
      BY <2>6 DEF Count, Stage
    <3>2. Done' = Done \/ (Done' \in Nat /\ Done' > Done)
      BY <2>6, CollectionAdds
    <3>3. UNCHANGED ResultSeconds
      BY SecondsStay
    <3> QED
      BY <3>1, <3>2, <3>3 DEF E!Next, E!Work, E!vars, ResultSeconds
  <2> QED
    BY <2>1, <2>2, <2>3, <2>4, <2>5, <2>6, NextCases
<1> QED
  BY <1>1, <1>2, TypeCorrect, EventsBelow, SuccessesCountedOnce, VectoredAccounting, PTL
     DEF Spec, ImplementsEngine, NothingCut
=============================================================================
