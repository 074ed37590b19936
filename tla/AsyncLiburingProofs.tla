------------------------ MODULE AsyncLiburingProofs ------------------------
(***************************************************************************)
(* Theorems about a thread of the io_uring engine, for every number of     *)
(* outstanding operations, vector size, runtime, ring, buffer and file     *)
(* size, for every submission cut short and with a polling kernel thread.  *)
(***************************************************************************)
EXTENDS AsyncLiburing, OffsetsProofs, IoUringLemmas

-----------------------------------------------------------------------------
(* The offset after some blocks from initial, as a number. *)
OffsetAt(initial, iteration) == getOffset(MaxOffset, initial, BufferSize, iteration)

LEMMA OffsetType ==
  ASSUME NEW initial \in Nat, NEW iteration \in Nat
  PROVE  OffsetAt(initial, iteration) \in Nat
<1>1. OffsetAt(initial, iteration) \in 0..(MaxOffset - 1)
  BY BoundAssumption, OffsetInFile DEF OffsetAt
<1> QED
  BY <1>1, BoundAssumption

LEMMA OffsetGoesOn ==
  ASSUME NEW initial \in Nat, NEW iteration \in Nat, NEW blocks \in Nat
  PROVE  OffsetAt(OffsetAt(initial, iteration), blocks) = OffsetAt(initial, iteration + blocks)
<1>1. BufferSize \in Nat /\ MaxOffset \in Nat \ {0}
  BY BoundAssumption
<1>2. \A m \in Nat \ {0}, f, b, n, k \in Nat :
        getOffset(m, getOffset(m, f, b, n), b, k) = getOffset(m, f, b, n + k)
  <2> HIDE DEF getOffset
  <2> QED
    BY OffsetAdvances
<1> QED
  BY <1>1, <1>2 DEF OffsetAt

LEMMA ArgsType ==
  ASSUME TypeOK
  PROVE  /\ args.oio \in Nat \ {0} /\ args.vec_size \in Nat
         /\ args.runtime \in Nat \ {0} /\ args.read_offset \in Nat
         /\ Blocks \in Nat \ {0} /\ OpsOfRound \in Nat
<1>1. /\ args.oio \in Nat \ {0} /\ args.vec_size \in Nat
      /\ args.runtime \in Nat \ {0} /\ args.read_offset \in Nat
  BY ArgsAssumption DEF TypeOK
<1>2. Blocks \in Nat \ {0}
  BY <1>1 DEF Blocks, Vectored
<1> QED
  BY <1>1, <1>2 DEF OpsOfRound

LEMMA OffsetsType ==
  ASSUME TypeOK, NEW initial \in Nat, NEW submitted \in Nat
  PROVE  OffsetsFrom(initial, submitted) \in [Slots -> Nat]
<1>1. ASSUME NEW s \in Slots
      PROVE  OffsetAt(initial, submitted + s * Blocks) \in Nat
  <2>1. s \in Nat /\ Blocks \in Nat
    BY ArgsType DEF Slots
  <2>2. submitted + s * Blocks \in Nat
    BY <2>1
  <2> QED
    BY <2>2, OffsetType
<1> QED
  BY <1>1 DEF OffsetsFrom, OffsetAt

-----------------------------------------------------------------------------
(* Entries in the submission queue, with the kernel, and completed.        *)
Live == Len(sq) + Cardinality(inflight) + Len(cq)

(* The submission queue holds the entries prepared so far, one a buffer.   *)
Prepared ==
  pc \in {"prepare", "crashed"} =>
    /\ Len(sq) = i /\ inflight = {} /\ cq = <<>>
    /\ \A s \in 1..Len(sq) : sq[s].buf < i

Emptied ==
  pc \in {"setup", "loop", "iteration", "done"} => sq = <<>> /\ inflight = {} /\ cq = <<>>

Balanced == pc \in {"wait", "spinning"} => Live = args.oio

RingInv == Prepared /\ Emptied /\ Balanced /\ BuffersExclusive

(* Steps that leave the ring as it is and do not enter or pass the wait.   *)
Quiet ==
  \/ Setup \/ StartIteration \/ EndIterations \/ StartRound \/ PrepareNull
  \/ LoopEnd \/ CallFails \/ Expire \/ Return \/ ReapForever
  \/ UNCHANGED vars

LEMMA NextCases ==
  ASSUME [Next]_vars
  PROVE  \/ Quiet
         \/ PrepareEntry
         \/ Submit
         \/ Reap
         \/ SqThreadTakes
         \/ SqThreadFrees
         \/ \E e \in inflight, ok \in BOOLEAN : KernelCompletes(e, ok)
BY DEF Next, Step, Kernel, Quiet

LEMMA TakeType ==
  ASSUME TypeOK, NEW n \in 0..Len(sq), R!Submit(n)
  PROVE  /\ sq' \in Seq(Sqe) /\ Len(sq') = Len(sq) - n
         /\ \A s \in 1..Len(sq') : sq'[s] = sq[n + s]
         /\ inflight' = inflight \cup FirstOf(sq, n)
         /\ inflight' \subseteq Sqe /\ IsFiniteSet(inflight')
         /\ cq' = cq
<1>1. sq \in Seq(Sqe) /\ n \in Nat /\ inflight \subseteq Sqe /\ IsFiniteSet(inflight)
  BY DEF TypeOK
<1>2. /\ sq' = SubSeq(sq, n + 1, Len(sq)) /\ cq' = cq
      /\ inflight' = inflight \cup FirstOf(sq, n)
  BY DEF R!Submit, FirstOf
<1>3. FirstOf(sq, n) \subseteq Sqe
  BY <1>1 DEF FirstOf
<1>4. IsFiniteSet(FirstOf(sq, n))
  <2>1. IsFiniteSet(1..n)
    BY <1>1, FS_Interval
  <2>2. [a \in 1..n |-> sq[a]] \in Surjection(1..n, FirstOf(sq, n))
    BY DEF Surjection, FirstOf
  <2> QED
    BY <2>1, <2>2, FS_Surjection
<1>5. IsFiniteSet(inflight')
  BY <1>1, <1>2, <1>4, FS_Union
<1> QED
  BY <1>1, <1>2, <1>3, <1>5, RestOf

LEMMA AdvanceType ==
  ASSUME TypeOK, R!Advance(WaitNr), Len(cq) >= WaitNr
  PROVE  /\ cq' \in Seq([sqe : Sqe, ok : BOOLEAN])
         /\ Len(cq') = Len(cq) - args.oio
         /\ UNCHANGED <<sq, inflight>>
<1>. DEFINE C == [sqe : Sqe, ok : BOOLEAN]
            n == args.oio
<1>1. cq \in Seq(C) /\ n \in 0..Len(cq)
  BY ArgsType DEF TypeOK, WaitNr
<1>2. cq' = SubSeq(cq, n + 1, Len(cq)) /\ UNCHANGED <<sq, inflight>>
  BY DEF R!Advance, WaitNr
<1> HIDE DEF C, n
<1>3. cq' \in Seq(C) /\ Len(cq') = Len(cq) - n
  BY <1>1, <1>2, RestOf
<1> QED
  BY <1>2, <1>3 DEF C, n

LEMMA FailuresType ==
  ASSUME TypeOK
  PROVE  FailuresSeen = Cardinality(FailedIn(cq)) /\ FailuresSeen \in 0..Len(cq)
<1>1. cq \in Seq([sqe : Sqe, ok : BOOLEAN])
  BY DEF TypeOK
<1>2. FailuresSeen = Cardinality(FailedIn(cq))
  BY DEF FailuresSeen, R!FailedCqes, FailedIn
<1> QED
  BY <1>1, <1>2, FailedType

-----------------------------------------------------------------------------
(* The unsigned subtractions of the result and of the iterations never     *)
(* wrap: at most one failure was counted for each entry collected.         *)
Solvent == ops_failed <= ops_returned

(* What the entries being collected leave of their failures.               *)
LEMMA ReapCounts ==
  ASSUME TypeOK, Balanced, Reap
  PROVE  /\ Len(cq) = args.oio /\ sq = <<>> /\ inflight = {}
         /\ sq' = <<>> /\ inflight' = {} /\ cq' = <<>>
         /\ FailuresSeen \in 0..args.oio
<1>1. pc = "wait" /\ Len(cq) >= args.oio /\ R!Advance(WaitNr)
  BY DEF Reap, WaitNr
<1>2. /\ Len(sq) + Cardinality(inflight) + Len(cq) = args.oio
      /\ sq \in Seq(Sqe) /\ cq \in Seq([sqe : Sqe, ok : BOOLEAN])
      /\ args.oio \in Nat
      /\ Cardinality(inflight) \in Nat /\ IsFiniteSet(inflight)
  BY <1>1, ArgsType, FS_CardinalityType DEF TypeOK, Balanced, Live
<1>3. Len(cq) = args.oio /\ Len(sq) = 0 /\ Cardinality(inflight) = 0
  BY <1>1, <1>2
<1>4. sq = <<>> /\ inflight = {}
  BY <1>2, <1>3, FS_EmptySet
<1>5. cq' \in Seq([sqe : Sqe, ok : BOOLEAN]) /\ Len(cq') = 0 /\ UNCHANGED <<sq, inflight>>
  BY <1>1, <1>2, <1>3, AdvanceType DEF WaitNr
<1>6. cq' = <<>>
  BY <1>5
<1>7. FailuresSeen \in 0..args.oio
  BY <1>3, FailuresType
<1> QED
  BY <1>3, <1>4, <1>5, <1>6, <1>7

LEMMA TypeInit == Init => TypeOK /\ Solvent
<1> SUFFICES ASSUME Init
             PROVE  TypeOK /\ Solvent
  OBVIOUS
<1>1. args \in Args /\ args.oio \in Nat \ {0} /\ args.read_offset \in Nat
  BY ArgsAssumption DEF Init
<1>2. Blocks \in Nat
  BY <1>1, ArgsAssumption DEF Blocks, Vectored
<1>3. \A s \in Slots : OffsetAt(args.read_offset, 0 + s * Blocks) \in Nat
  <2>1. \A s \in Slots : 0 + s * Blocks \in Nat
    BY <1>1, <1>2 DEF Slots
  <2> QED
    BY <1>1, <2>1, OffsetType, Zenon
<1>4. offsets \in [Slots -> Nat]
  BY <1>3 DEF Init, OffsetsFrom, OffsetAt
<1>5. due \in Nat
  BY <1>1, <1>4 DEF Init, Slots
<1>6. /\ sq \in Seq(Sqe) /\ inflight \subseteq Sqe /\ IsFiniteSet(inflight)
      /\ cq \in Seq([sqe : Sqe, ok : BOOLEAN])
  BY FS_EmptySet DEF Init, R!RingInit
<1>7. khead \in 0..(CqWrap - 1) /\ i \in 0..args.oio
  <2>1. khead = 0 /\ i = 0
    BY DEF Init
  <2>2. 0 \in 0..(CqWrap - 1)
    BY BoundAssumption
  <2> QED
    BY <1>1, <2>1, <2>2
<1>8. Solvent /\ op_count \in Nat \cup {-1}
  BY DEF Init, Solvent
<1> QED
  BY <1>1, <1>4, <1>5, <1>6, <1>7, <1>8 DEF Init, TypeOK

LEMMA TypeStep == TypeOK /\ Solvent /\ Balanced /\ [Next]_vars => TypeOK' /\ Solvent'
<1> SUFFICES ASSUME TypeOK, Solvent, Balanced, [Next]_vars
             PROVE  TypeOK' /\ Solvent'
  OBVIOUS
<1>0. /\ args.oio \in Nat \ {0} /\ args.runtime \in Nat \ {0} /\ args.read_offset \in Nat
      /\ Blocks \in Nat \ {0} /\ OpsOfRound \in Nat
      /\ ops_returned - ops_failed \in Nat
  BY ArgsType DEF TypeOK, Solvent
<1> USE DEF counters, benchVars, ringVars, outcomes
<1>1. CASE Setup
  BY <1>1 DEF TypeOK, Solvent, Slots, Sqe, Setup
<1>2. CASE CallFails
  BY <1>2 DEF TypeOK, Solvent, Slots, Sqe, CallFails
<1>3. CASE StartIteration
  <2>1. offsets[args.oio - 1] \in Nat
    BY <1>0 DEF TypeOK, Slots
  <2>2. benchmark_offset' \in Nat /\ Solvent'
    BY <1>3, <2>1 DEF StartIteration, Solvent
  <2> QED
    BY <1>3, <2>2 DEF TypeOK, Slots, Sqe, StartIteration
<1>4. CASE EndIterations
  <2>1. op_count' \in Nat
    <3>1. benchmark_opcount \in Nat
      BY DEF TypeOK
    <3>2. benchmark_opcount \div args.runtime \in Nat
      BY <1>0, <3>1
    <3> QED
      BY <1>0, <1>4, <3>2 DEF EndIterations, ResultCount
  <2> QED
    BY <1>4, <2>1 DEF TypeOK, Solvent, Slots, Sqe, EndIterations
<1>5. CASE StartRound
  <2>1. i' \in 0..args.oio /\ pc' = "prepare"
    BY <1>0, <1>5 DEF StartRound
  <2> QED
    BY <1>5, <2>1 DEF TypeOK, Solvent, Slots, Sqe, StartRound
<1>6. CASE PrepareEntry
  <2>1. i \in 0..(args.oio - 1) /\ i' = i + 1
    BY <1>0, <1>6 DEF PrepareEntry, TypeOK
  <2>2. [buf |-> BufferIndex, round |-> rounds] \in Sqe
    BY <1>0, <2>1 DEF TypeOK, BufferIndex, Sqe, Slots
  <2>3. sq' \in Seq(Sqe) /\ UNCHANGED <<inflight, cq>>
    BY <1>6, <2>2 DEF PrepareEntry, R!Prepare, TypeOK
  <2>4. due' \in Nat
    <3>1. offsets[i] \in Nat
      BY <2>1 DEF TypeOK, Slots
    <3> QED
      BY <1>0, <1>6, <3>1, OffsetType DEF PrepareEntry, OffsetAt
  <2>5. i' \in 0..args.oio
    BY <1>0, <2>1
  <2>6. Sqe' = Sqe /\ Slots' = Slots
    BY <1>6 DEF PrepareEntry, Sqe, Slots
  <2> QED
    BY <1>6, <2>3, <2>4, <2>5, <2>6 DEF TypeOK, Solvent, PrepareEntry
<1>7. CASE PrepareNull
  BY <1>7 DEF TypeOK, Solvent, Slots, Sqe, PrepareNull
<1>8. CASE Submit
  <2>1. sq' \in Seq(Sqe) /\ inflight' \subseteq Sqe /\ IsFiniteSet(inflight') /\ cq' = cq
    <3>1. CASE Polling
      BY <1>8, <3>1 DEF Submit, TypeOK
    <3>2. CASE ~Polling
      <4>1. PICK n \in 0..Len(sq) : R!Submit(n)
        BY <1>8, <3>2 DEF Submit
      <4> QED
        BY <4>1, TakeType
    <3> QED
      BY <3>1, <3>2
  <2>2. ops_submitted' \in Nat /\ rounds' \in Nat
    BY <1>0, <1>8 DEF Submit, TypeOK
  <2>3. offsets' \in [Slots -> Nat]
    BY <1>0, <1>8, <2>2, OffsetsType DEF Submit, TypeOK
  <2>4. Sqe' = Sqe /\ Slots' = Slots
    BY <1>8 DEF Submit, Sqe, Slots
  <2> QED
    BY <1>8, <2>1, <2>2, <2>3, <2>4 DEF TypeOK, Solvent, Submit
<1>9. CASE Reap
  <2>1. /\ sq' = <<>> /\ inflight' = {} /\ cq' = <<>> /\ FailuresSeen \in 0..args.oio
    BY <1>9, ReapCounts
  <2>2. ops_failed' \in Nat /\ ops_returned' \in Nat /\ ops_failed' <= ops_returned'
    <3>1. args.oio <= OpsOfRound
      BY <1>0 DEF OpsOfRound
    <3> QED
      BY <1>0, <1>9, <2>1, <3>1 DEF Reap, TypeOK, Solvent
  <2>3. khead' \in 0..(CqWrap - 1)
    <3>1. khead + args.oio \in Nat /\ CqWrap \in Nat \ {0}
      BY <1>0, BoundAssumption DEF TypeOK
    <3> QED
      BY <1>9, <3>1 DEF Reap, WaitNr
  <2> QED
    BY <1>9, <2>1, <2>2, <2>3, FS_EmptySet DEF TypeOK, Solvent, Slots, Sqe, Reap
<1>10. CASE ReapForever
  BY <1>10 DEF TypeOK, Solvent, Slots, Sqe, ReapForever
<1>11. CASE LoopEnd
  <2>1. op_count' \in Nat \cup {-1} /\ benchmark_opcount' \in Nat /\ benchmark_iteration' \in Nat
    BY <1>0, <1>11 DEF LoopEnd, ResultCount, TypeOK
  <2>2. pc' \in {"iteration", "done"} /\ Slots' = Slots /\ Sqe' = Sqe
    BY <1>11 DEF LoopEnd, Slots, Sqe
  <2> QED
    BY <1>11, <2>1, <2>2 DEF TypeOK, Solvent, LoopEnd
<1>12. CASE SqThreadTakes
  <2>1. PICK n \in 1..Len(sq) : R!Submit(n) /\ held' = n
    BY <1>12 DEF SqThreadTakes
  <2>2. /\ sq' \in Seq(Sqe) /\ inflight' \subseteq Sqe /\ IsFiniteSet(inflight') /\ cq' = cq
        /\ held' \in Nat
    <3>1. n \in 0..Len(sq) /\ n \in Nat
      BY <2>1
    <3> QED
      BY <2>1, <3>1, TakeType
  <2>3. Sqe' = Sqe /\ Slots' = Slots
    BY <1>12 DEF SqThreadTakes, Sqe, Slots
  <2> QED
    BY <1>12, <2>2, <2>3 DEF TypeOK, Solvent, SqThreadTakes
<1>13. ASSUME NEW e \in inflight, NEW ok \in BOOLEAN, KernelCompletes(e, ok)
       PROVE  TypeOK' /\ Solvent'
  <2>1. inflight' \subseteq Sqe /\ IsFiniteSet(inflight')
    BY <1>13, FS_RemoveElement DEF KernelCompletes, R!Complete, TypeOK
  <2>2. /\ cq' \in Seq([sqe : Sqe, ok : BOOLEAN]) /\ sq' = sq
        /\ succeeded' \in Nat /\ failed' \in Nat
    BY <1>13 DEF KernelCompletes, R!Complete, TypeOK
  <2>3. Sqe' = Sqe /\ Slots' = Slots
    BY <1>13 DEF KernelCompletes, Sqe, Slots
  <2> QED
    BY <1>13, <2>1, <2>2, <2>3 DEF TypeOK, Solvent, KernelCompletes
<1>14. CASE SqThreadFrees
  BY <1>14 DEF TypeOK, Solvent, Slots, Sqe, SqThreadFrees
<1>15. CASE Expire
  BY <1>15 DEF TypeOK, Solvent, Slots, Sqe, Expire
<1>16. CASE Return \/ UNCHANGED vars
  BY <1>16 DEF TypeOK, Solvent, Slots, Sqe, Return, vars
<1> QED
  BY <1>1, <1>2, <1>3, <1>4, <1>5, <1>6, <1>7, <1>8, <1>9, <1>10, <1>11, <1>12,
     <1>13, <1>14, <1>15, <1>16 DEF Next, Step, Kernel

-----------------------------------------------------------------------------
(* Whatever the kernel takes of the queue, and whichever operation it      *)
(* completes, no entry is gained or lost and no buffer shared.             *)
LEMMA TakeKeeps ==
  ASSUME TypeOK, BuffersExclusive, NEW n \in 0..Len(sq), R!Submit(n)
  PROVE  Live' = Live /\ BuffersExclusive'
<1>1. /\ sq \in Seq(Sqe) /\ n \in Nat /\ IsFiniteSet(inflight)
      /\ cq \in Seq([sqe : Sqe, ok : BOOLEAN])
  BY DEF TypeOK
<1>2. /\ sq' \in Seq(Sqe) /\ Len(sq') = Len(sq) - n
      /\ \A s \in 1..Len(sq') : sq'[s] = sq[n + s]
      /\ inflight' = inflight \cup FirstOf(sq, n) /\ cq' = cq
  BY TakeType
<1>3. Distinct(sq)
  BY DEF BuffersExclusive, Distinct
<1>4. IsFiniteSet(FirstOf(sq, n)) /\ Cardinality(FirstOf(sq, n)) = n
  BY <1>1, <1>3, FirstCount
<1>5. inflight \cap FirstOf(sq, n) = {}
  BY <1>1 DEF BuffersExclusive, FirstOf
<1>6. Live' = Live
  <2>1. Cardinality(inflight') = Cardinality(inflight) + n - Cardinality({})
    BY <1>1, <1>2, <1>4, <1>5, FS_Union
  <2>2. Cardinality(inflight) \in Nat /\ Cardinality({}) = 0
    BY <1>1, FS_CardinalityType, FS_EmptySet
  <2> QED
    BY <1>1, <1>2, <2>1, <2>2 DEF Live
<1>7. BuffersExclusive'
  <2>1. \A s \in 1..Len(sq') : n + s \in 1..Len(sq) /\ sq'[s] = sq[n + s]
    BY <1>1, <1>2
  <2>2. \A s, t \in 1..Len(sq') : sq'[s].buf = sq'[t].buf => s = t
    <3> SUFFICES ASSUME NEW s \in 1..Len(sq'), NEW t \in 1..Len(sq'), sq'[s].buf = sq'[t].buf
                 PROVE  s = t
      OBVIOUS
    <3>1. n + s = n + t
      BY <2>1 DEF BuffersExclusive
    <3> QED
      BY <1>1, <1>2, <3>1
  <2>3. /\ {sq'[s] : s \in 1..Len(sq')} \cup inflight'
              \subseteq {sq[s] : s \in 1..Len(sq)} \cup inflight
    BY <1>1, <1>2, <2>1 DEF FirstOf
  <2>4. {sq'[s] : s \in 1..Len(sq')} \cap inflight' = {}
    <3> SUFFICES ASSUME NEW s \in 1..Len(sq'), sq'[s] \in inflight'
                 PROVE  FALSE
      OBVIOUS
    <3>1. sq[n + s] \notin inflight
      BY <2>1 DEF BuffersExclusive
    <3>2. PICK t \in 1..n : sq[n + s] = sq[t]
      BY <1>2, <2>1, <3>1 DEF FirstOf
    <3>3. n + s = t
      BY <1>1, <1>3, <2>1, <3>2 DEF Distinct
    <3> QED
      BY <1>1, <1>2, <3>3
  <2> QED
    BY <2>2, <2>3, <2>4 DEF BuffersExclusive
<1> QED
  BY <1>6, <1>7

LEMMA CompleteKeeps ==
  ASSUME TypeOK, BuffersExclusive, NEW e \in inflight, NEW ok \in BOOLEAN, R!Complete(e, ok)
  PROVE  Live' = Live /\ BuffersExclusive' /\ sq' = sq
<1>1. /\ inflight' = inflight \ {e} /\ sq' = sq
      /\ cq' = Append(cq, [sqe |-> e, ok |-> ok])
  BY DEF R!Complete
<1>2. /\ IsFiniteSet(inflight) /\ Cardinality(inflight) \in Nat
      /\ sq \in Seq(Sqe) /\ cq \in Seq([sqe : Sqe, ok : BOOLEAN])
  BY FS_CardinalityType DEF TypeOK
<1>3. Cardinality(inflight') = Cardinality(inflight) - 1
  BY <1>1, <1>2, FS_RemoveElement
<1>4. Len(cq') = Len(cq) + 1
  BY <1>1, <1>2
<1>5. Live' = Live
  <2>1. Len(sq) \in Nat /\ Len(cq) \in Nat /\ Len(sq') = Len(sq)
    BY <1>1, <1>2
  <2> QED
    BY <1>2, <1>3, <1>4, <2>1 DEF Live
<1>6. BuffersExclusive'
  BY <1>1 DEF BuffersExclusive
<1> QED
  BY <1>1, <1>5, <1>6

LEMMA RingStep == TypeOK /\ RingInv /\ [Next]_vars => RingInv'
<1> SUFFICES ASSUME TypeOK, RingInv, [Next]_vars
             PROVE  RingInv'
  OBVIOUS
<1> USE DEF RingInv
<1>0. /\ args.oio \in Nat \ {0} /\ i \in Nat /\ sq \in Seq(Sqe)
      /\ \A s \in 1..Len(sq) : sq[s].buf \in Nat
  <2>1. args.oio \in Nat \ {0} /\ i \in Nat /\ sq \in Seq(Sqe)
    BY ArgsType DEF TypeOK
  <2>2. \A e \in Sqe : e.buf \in Nat
    BY <2>1 DEF Sqe, Slots
  <2> QED
    BY <2>1, <2>2
<1>1. CASE Quiet
  <2>1. UNCHANGED <<args, ringVars>>
    BY <1>1 DEF Quiet, Setup, StartIteration, EndIterations, StartRound, PrepareNull,
         LoopEnd, CallFails, Expire, Return, ReapForever, vars
  <2>2. BuffersExclusive' /\ Live' = Live
    BY <2>1 DEF BuffersExclusive, Live, ringVars
  <2>3. \/ UNCHANGED <<pc, i>>
        \/ pc \in {"setup", "loop", "iteration"} /\ pc' \in {"loop", "iteration", "done"}
        \/ pc = "loop" /\ pc' = "prepare" /\ i' = 0
        \/ pc = "prepare" /\ pc' = "crashed" /\ i' = i
        \/ pc = "wait" /\ pc' = "spinning"
        \/ pc' = "failed"
    BY <1>1 DEF Quiet, Setup, StartIteration, EndIterations, StartRound, PrepareNull,
         LoopEnd, CallFails, Expire, Return, ReapForever, vars
  <2>4. Prepared'
    BY <2>1, <2>3 DEF Prepared, Emptied, ringVars
  <2>5. Emptied' /\ Balanced'
    BY <2>1, <2>2, <2>3 DEF Emptied, Balanced, ringVars
  <2> QED
    BY <2>2, <2>4, <2>5
<1>2. CASE PrepareEntry
  <2>1. /\ pc = "prepare" /\ pc' = "prepare" /\ i' = i + 1
        /\ sq' = Append(sq, [buf |-> i, round |-> rounds]) /\ UNCHANGED <<inflight, cq>>
    BY <1>2 DEF PrepareEntry, R!Prepare, BufferIndex
  <2>2. /\ Len(sq) = i /\ inflight = {} /\ cq = <<>>
        /\ \A s \in 1..Len(sq) : sq[s].buf < i
    BY <2>1 DEF Prepared
  <2>3. /\ Len(sq') = i + 1 /\ sq'[i + 1].buf = i
        /\ \A s \in 1..i : sq'[s] = sq[s]
    BY <1>0, <2>1, <2>2
  <2>4. \A s \in 1..Len(sq') : sq'[s].buf < i + 1
    <3> TAKE s \in 1..Len(sq')
    <3>1. CASE s = i + 1
      BY <1>0, <2>3, <3>1
    <3>2. CASE s # i + 1
      <4>1. s \in 1..Len(sq) /\ sq'[s] = sq[s] /\ sq[s].buf \in Nat
        BY <1>0, <2>2, <2>3, <3>2
      <4> QED
        BY <1>0, <2>2, <4>1
    <3> QED
      BY <3>1, <3>2
  <2>5. Prepared' /\ Emptied' /\ Balanced'
    BY <2>1, <2>2, <2>3, <2>4 DEF Prepared, Emptied, Balanced
  <2>6. \A s, t \in 1..Len(sq') : sq'[s].buf = sq'[t].buf => s = t
    <3> SUFFICES ASSUME NEW s \in 1..Len(sq'), NEW t \in 1..Len(sq'), sq'[s].buf = sq'[t].buf
                 PROVE  s = t
      OBVIOUS
    <3>1. \A r \in 1..i : sq'[r].buf < i /\ sq'[r].buf \in Nat /\ sq'[r] = sq[r]
      BY <1>0, <2>2, <2>3
    <3>2. CASE s = i + 1 \/ t = i + 1
      BY <1>0, <2>3, <3>1, <3>2
    <3>3. CASE s # i + 1 /\ t # i + 1
      <4>1. s \in 1..Len(sq) /\ t \in 1..Len(sq)
        BY <1>0, <2>2, <2>3, <3>3
      <4> QED
        BY <2>2, <3>1, <4>1 DEF BuffersExclusive
    <3> QED
      BY <3>2, <3>3
  <2>7. BuffersExclusive'
    BY <2>1, <2>2, <2>6 DEF BuffersExclusive
  <2> QED
    BY <2>5, <2>7
<1>3. CASE Submit
  <2>1. pc = "prepare" /\ pc' = "wait" /\ i = args.oio /\ args' = args
    BY <1>3 DEF Submit
  <2>2. Live = args.oio
    <3>1. Len(sq) = args.oio /\ inflight = {} /\ Len(cq) = 0
      BY <2>1 DEF Prepared
    <3>2. Cardinality(inflight) = 0
      BY <3>1, FS_EmptySet
    <3> QED
      BY <1>0, <3>1, <3>2 DEF Live
  <2>3. Live' = Live /\ BuffersExclusive'
    <3>1. CASE Polling
      BY <1>3, <3>1 DEF Submit, ringVars, Live, BuffersExclusive
    <3>2. CASE ~Polling
      <4>1. PICK n \in 0..Len(sq) : R!Submit(n)
        BY <1>3, <3>2 DEF Submit
      <4> QED
        BY <4>1, TakeKeeps
    <3> QED
      BY <3>1, <3>2
  <2> QED
    BY <2>1, <2>2, <2>3 DEF Prepared, Emptied, Balanced
<1>4. CASE Reap
  <2>1. sq' = <<>> /\ inflight' = {} /\ cq' = <<>>
    BY <1>4, ReapCounts
  <2>2. pc' = "loop"
    BY <1>4 DEF Reap
  <2> QED
    BY <2>1, <2>2 DEF Prepared, Emptied, Balanced, BuffersExclusive
<1>5. CASE SqThreadTakes
  <2>1. PICK n \in 1..Len(sq) : R!Submit(n)
    BY <1>5 DEF SqThreadTakes
  <2>2. /\ UNCHANGED <<args, pc>> /\ pc \notin {"prepare", "crashed"} /\ sq # <<>>
    BY <1>0, <1>5, <2>1 DEF SqThreadTakes
  <2>3. Live' = Live /\ BuffersExclusive'
    <3>1. n \in 0..Len(sq)
      BY <2>1
    <3> QED
      BY <2>1, <3>1, TakeKeeps
  <2> QED
    BY <2>2, <2>3 DEF Prepared, Emptied, Balanced
<1>6. ASSUME NEW e \in inflight, NEW ok \in BOOLEAN, KernelCompletes(e, ok)
      PROVE  RingInv'
  <2>1. UNCHANGED <<args, pc>> /\ R!Complete(e, ok)
    BY <1>6 DEF KernelCompletes
  <2>2. Live' = Live /\ BuffersExclusive'
    BY <2>1, CompleteKeeps
  <2> QED
    BY <2>1, <2>2 DEF Prepared, Emptied, Balanced
<1>7. CASE SqThreadFrees
  <2>1. UNCHANGED <<args, pc, i, sq, inflight, cq>>
    BY <1>7 DEF SqThreadFrees
  <2>2. BuffersExclusive' /\ Live' = Live
    BY <2>1 DEF BuffersExclusive, Live
  <2> QED
    BY <2>1, <2>2 DEF Prepared, Emptied, Balanced
<1> QED
  BY <1>1, <1>2, <1>3, <1>4, <1>5, <1>6, <1>7, NextCases

LEMMA RingStart == Init => RingInv
BY FS_EmptySet DEF Init, R!RingInit, RingInv, Prepared, Emptied, Balanced, BuffersExclusive

(* Every variable keeps its type, no unsigned subtraction wraps, and the   *)
(* ring holds what the place the thread has reached says.                  *)
THEOREM Invariance == Spec => [](TypeOK /\ Solvent /\ RingInv)
<1>1. TypeOK /\ Solvent /\ RingInv /\ [Next]_vars => TypeOK' /\ Solvent' /\ RingInv'
  BY TypeStep, RingStep DEF RingInv
<1> QED
  BY <1>1, TypeInit, RingStart, PTL DEF Spec

(* No buffer is given to two operations at once, although the code never   *)
(* looks at what was submitted: a submission cut short keeps the thread in *)
(* its wait.                                                               *)
THEOREM BuffersStayExclusive == Spec => []BuffersExclusive
BY Invariance, PTL DEF RingInv

(* A wait collects all of its own round and nothing else.                  *)
THEOREM RoundsStaySeparate == Spec => []RoundsAreSeparate
<1>1. RingInv => RoundsAreSeparate
  BY DEF RingInv, Emptied, Balanced, Live, RoundsAreSeparate
<1> QED
  BY <1>1, Invariance, PTL

(* The polling thread holds no more slots than a round has entries. *)
HeldOfRound ==
  /\ held > 0 => Polling
  /\ pc # "failed" => held <= args.oio

(* The thread finds a free slot for every entry of a round unless there    *)
(* are more of them than slots, or than half of the slots when the polling *)
(* thread may hold those of the round before.                              *)
THEOREM CrashNeedsDepth == Spec => []CrashOnlyAboveDepth
<1>1. Init => HeldOfRound /\ CrashOnlyAboveDepth
  BY ArgsAssumption DEF Init, HeldOfRound, CrashOnlyAboveDepth
<1>2. TypeOK /\ RingInv /\ HeldOfRound /\ CrashOnlyAboveDepth /\ [Next]_vars
        => HeldOfRound' /\ CrashOnlyAboveDepth'
  <2> SUFFICES ASSUME TypeOK, RingInv, HeldOfRound, CrashOnlyAboveDepth, [Next]_vars
               PROVE  HeldOfRound' /\ CrashOnlyAboveDepth'
    OBVIOUS
  <2>0. /\ args.oio \in Nat \ {0} /\ Entries \in Nat /\ held \in Nat
        /\ (args' = args => UNCHANGED Polling)
    BY ArgsType, BoundAssumption DEF TypeOK, Polling
  <2>1. CASE PrepareNull
    <3>1. /\ pc = "prepare" /\ i < args.oio /\ Len(sq) + held >= Entries
          /\ UNCHANGED <<args, held>>
      BY <2>1 DEF PrepareNull, NoSlot, ringVars
    <3>2. Len(sq) = i /\ i \in Nat
      BY <2>0, <3>1 DEF RingInv, Prepared, TypeOK
    <3>3. args.oio + held > Entries /\ held <= args.oio
      BY <2>0, <3>1, <3>2 DEF HeldOfRound
    <3>4. args.oio > Entries \/ (Polling /\ 2 * args.oio > Entries)
      BY <2>0, <3>3 DEF HeldOfRound
    <3> QED
      BY <2>0, <3>1, <3>3, <3>4 DEF CrashOnlyAboveDepth, HeldOfRound
  <2>2. CASE SqThreadTakes
    <3>1. PICK n \in 1..Len(sq) : held' = n
      BY <2>2 DEF SqThreadTakes
    <3>2. Polling /\ pc \notin {"prepare", "crashed"} /\ UNCHANGED <<args, pc>>
      BY <2>2 DEF SqThreadTakes
    <3>3. Len(sq) \in Nat /\ Len(cq) \in Nat /\ Cardinality(inflight) \in Nat
      BY FS_CardinalityType DEF TypeOK
    <3>4. pc # "failed" => Len(sq) <= args.oio
      <4>1. CASE pc \in {"wait", "spinning"}
        BY <2>0, <3>3, <4>1 DEF RingInv, Balanced, Live
      <4>2. CASE pc \in {"setup", "loop", "iteration", "done"}
        BY <2>0, <4>2 DEF RingInv, Emptied
      <4> QED
        BY <3>2, <4>1, <4>2 DEF TypeOK
    <3> QED
      BY <2>0, <3>1, <3>2, <3>3, <3>4 DEF HeldOfRound, CrashOnlyAboveDepth
  <2>3. CASE SqThreadFrees
    BY <2>0, <2>3 DEF SqThreadFrees, HeldOfRound, CrashOnlyAboveDepth
  <2>4. CASE ~PrepareNull /\ ~SqThreadTakes /\ ~SqThreadFrees
    <3>1. /\ UNCHANGED <<args, held>> /\ (pc' = "crashed" => pc = "crashed")
          /\ (pc = "failed" => pc' = "failed")
      BY <2>4 DEF Next, Step, Kernel, vars, ringVars, Setup, StartIteration, EndIterations,
         StartRound, PrepareEntry, Submit, Reap, ReapForever, LoopEnd, CallFails,
         KernelCompletes, Expire, Return
    <3> QED
      BY <2>0, <3>1 DEF CrashOnlyAboveDepth, HeldOfRound
  <2> QED
    BY <2>1, <2>2, <2>3, <2>4
<1> QED
  BY <1>1, <1>2, Invariance, PTL DEF Spec

-----------------------------------------------------------------------------
(* Only the stress function has iterations. *)
IterationsAreStress == pc = "iteration" => Stress

LEMMA StressOnly == Spec => []IterationsAreStress
<1>1. Init => IterationsAreStress
  BY DEF Init, IterationsAreStress
<1>2. IterationsAreStress /\ [Next]_vars => IterationsAreStress'
  BY DEF IterationsAreStress, Stress, Next, Step, Kernel, vars, Setup, StartIteration,
         EndIterations, StartRound, PrepareEntry, PrepareNull, Submit, Reap, ReapForever,
         LoopEnd, CallFails, SqThreadTakes, SqThreadFrees, KernelCompletes, Expire, Return
<1> QED
  BY <1>1, <1>2, PTL DEF Spec

(* The counters stand for the operations collected: each as Blocks, less   *)
(* one for a failure.  Completions not yet collected are not in them.      *)
Collected == succeeded + failed - Len(cq)
FailuresCollected == failed - FailuresSeen
Tally ==
  /\ pc = "setup" => ops_returned = ops_failed
  /\ pc # "done" => Counted = Blocks * Collected - FailuresCollected

LEMMA TallyType ==
  ASSUME TypeOK
  PROVE  /\ ops_returned \in Nat /\ ops_failed \in Nat /\ benchmark_opcount \in Nat
         /\ succeeded \in Nat /\ failed \in Nat /\ Blocks \in Nat /\ args.oio \in Nat
         /\ Len(cq) \in Nat /\ FailuresSeen \in Nat
<1>1. Len(cq) \in Nat /\ FailuresSeen \in Nat
  BY FailuresType DEF TypeOK
<1> QED
  BY <1>1, ArgsType DEF TypeOK

LEMMA CollectedType ==
  ASSUME TypeOK
  PROVE  /\ Collected \in Int /\ FailuresCollected \in Int
         /\ Blocks * Collected \in Int /\ args.oio * Blocks \in Int
         /\ Counted \in Int
<1>1. Collected \in Int /\ FailuresCollected \in Int
  BY TallyType DEF Collected, FailuresCollected
<1>2. Counted \in Int
  BY TallyType DEF Counted
<1> QED
  BY <1>1, <1>2, TallyType

LEMMA TallyStep ==
  TypeOK /\ RingInv /\ IterationsAreStress /\ Tally /\ [Next]_vars => Tally'
<1> SUFFICES ASSUME TypeOK, RingInv, IterationsAreStress, Tally, [Next]_vars
             PROVE  Tally'
  OBVIOUS
<1>0. UNCHANGED <<args, Blocks, Stress>>
  BY DEF Next, Step, Kernel, vars, Setup, StartIteration,
         EndIterations, StartRound, PrepareEntry, PrepareNull, Submit, Reap, ReapForever,
         LoopEnd, CallFails, SqThreadTakes, SqThreadFrees, KernelCompletes, Expire, Return,
         Blocks, Stress, Vectored
<1>00. /\ ops_returned \in Nat /\ ops_failed \in Nat /\ succeeded \in Nat /\ failed \in Nat
       /\ Blocks \in Nat /\ args.oio \in Nat /\ Len(cq) \in Nat /\ FailuresSeen \in Nat
       /\ Collected \in Int /\ FailuresCollected \in Int /\ benchmark_opcount \in Nat
  BY TallyType, CollectedType
<1>1. ASSUME UNCHANGED <<benchmark_opcount, outcomes, cq>>,
             UNCHANGED <<ops_returned, ops_failed>> \/ pc = "iteration",
             pc # "done" /\ pc' # "done" => Counted' = Counted,
             pc = "done" => pc' = "done",
             pc' # "setup" \/ pc = "setup"
      PROVE  Tally'
  <2>1. Collected' = Collected /\ FailuresCollected' = FailuresCollected
    BY <1>1 DEF outcomes, Collected, FailuresCollected, FailuresSeen, R!FailedCqes
  <2> QED
    BY <1>0, <1>1, <2>1 DEF Tally
<1>2. CASE \/ EndIterations \/ StartRound \/ PrepareEntry \/ PrepareNull \/ Submit
           \/ CallFails \/ ReapForever \/ SqThreadTakes \/ SqThreadFrees \/ Expire \/ Return
           \/ UNCHANGED vars
  <2>1. /\ UNCHANGED <<ops_returned, ops_failed, benchmark_opcount, outcomes>>
        /\ pc' # "done" => (pc = "iteration" <=> pc' = "iteration")
        /\ pc = "done" => pc' = "done"
        /\ pc' # "setup" \/ pc = "setup"
    BY <1>2 DEF EndIterations, StartRound, PrepareEntry, PrepareNull, Submit,
         CallFails, ReapForever, SqThreadTakes, SqThreadFrees, Expire, Return, vars, counters, benchVars, outcomes
  <2>2. cq' = cq
    BY <1>2 DEF EndIterations, StartRound, PrepareEntry, PrepareNull, Submit, R!Prepare,
         R!Submit, CallFails, ReapForever, SqThreadTakes, SqThreadFrees, Expire, Return, vars, ringVars
  <2>3. pc' # "done" => Counted' = Counted
    BY <1>0, <2>1 DEF Counted
  <2> QED
    BY <1>1, <2>1, <2>2, <2>3
<1>3. CASE Setup
  <2>1. /\ pc = "setup" /\ pc' \in {"iteration", "loop"}
        /\ UNCHANGED <<ops_returned, ops_failed, benchmark_opcount, outcomes, cq>>
    BY <1>3 DEF Setup, counters, benchVars, ringVars, outcomes
  <2>2. ops_returned - ops_failed = 0
    BY <2>1, TallyType DEF Tally
  <2>3. Counted' = Counted
    BY <1>0, <2>1, <2>2, TallyType DEF Counted
  <2> QED
    BY <1>1, <2>1, <2>3
<1>4. CASE StartIteration
  <2>1. /\ pc = "iteration" /\ pc' = "loop" /\ ops_returned' - ops_failed' = 0
        /\ UNCHANGED <<benchmark_opcount, outcomes, cq>>
    BY <1>4 DEF StartIteration, ringVars, outcomes
  <2>2. Counted' = Counted
    BY <1>0, <2>1, TallyType DEF Counted, IterationsAreStress
  <2> QED
    BY <1>1, <2>1, <2>2
<1>5. CASE LoopEnd
  <2>1. pc = "loop" /\ UNCHANGED <<ops_returned, ops_failed, outcomes, cq>>
    BY <1>5 DEF LoopEnd, counters, ringVars, outcomes
  <2>2. CASE Stress
    <3>1. benchmark_opcount' = benchmark_opcount + (ops_returned - ops_failed) /\ pc' = "iteration"
      BY <1>5, <2>2 DEF LoopEnd
    <3>2. Counted' = Counted
      BY <1>0, <2>1, <2>2, <3>1, TallyType DEF Counted
    <3>3. Collected' = Collected /\ FailuresCollected' = FailuresCollected
      BY <2>1 DEF outcomes, Collected, FailuresCollected, FailuresSeen, R!FailedCqes
    <3> QED
      BY <1>0, <2>1, <3>1, <3>2, <3>3 DEF Tally
  <2>3. CASE ~Stress
    BY <1>5, <2>3 DEF LoopEnd, Tally
  <2> QED
    BY <2>2, <2>3
<1>6. CASE Reap
  <2>1. Len(cq) = args.oio /\ cq' = <<>> /\ FailuresSeen \in 0..args.oio
    BY <1>6, ReapCounts DEF RingInv
  <2>2. /\ pc = "wait" /\ pc' = "loop" /\ UNCHANGED <<benchmark_opcount, outcomes>>
        /\ ops_returned' = ops_returned + args.oio * Blocks
        /\ ops_failed' = ops_failed + FailuresSeen
    BY <1>6 DEF Reap, OpsOfRound, benchVars, outcomes
  <2>3. FailuresSeen' = 0
    <3>1. R!FailedCqes' = {}
      BY <2>1 DEF R!FailedCqes
    <3> QED
      BY <3>1, FS_EmptySet DEF FailuresSeen
  <2>4. Collected' = Collected + args.oio /\ FailuresCollected' = FailuresCollected + FailuresSeen
    <3>1. Len(cq') = 0
      BY <2>1
    <3>2. succeeded' = succeeded /\ failed' = failed
      BY <2>2 DEF outcomes
    <3> QED
      BY <1>00, <2>1, <2>3, <3>1, <3>2 DEF Collected, FailuresCollected
  <2>5. Counted' = Counted + args.oio * Blocks - FailuresSeen
    <3>1. PICK b \in Nat : b = IF Stress THEN benchmark_opcount ELSE 0
      BY <1>00
    <3>2. PICK r \in Nat : r = args.oio * Blocks
      BY <1>00
    <3>3. Counted = b + (ops_returned - ops_failed) /\ Counted' = b + (ops_returned' - ops_failed')
      BY <1>0, <2>2, <3>1 DEF Counted
    <3>4. ops_returned' = ops_returned + r /\ ops_failed' = ops_failed + FailuresSeen
      BY <2>2, <3>2
    <3>5. b \in Int /\ r \in Int /\ ops_returned \in Int /\ ops_failed \in Int /\ FailuresSeen \in Int
      BY <1>00, <3>1, <3>2
    <3>6. Counted' = b + ((ops_returned + r) - (ops_failed + FailuresSeen))
      BY <3>3, <3>4
    <3>7. Counted' = Counted + r - FailuresSeen
      BY <3>3, <3>5, <3>6
    <3> QED
      BY <3>2, <3>7
  <2>6. Counted = Blocks * Collected - FailuresCollected
    BY <2>2 DEF Tally
  <2>7. /\ Blocks * (Collected + args.oio) = Blocks * Collected + args.oio * Blocks
        /\ Blocks * Collected \in Int /\ args.oio * Blocks \in Int
        /\ FailuresCollected \in Int /\ FailuresSeen \in Int
    <3>1. \A b \in Nat, c \in Int, o \in Nat :
            /\ b * (c + o) = b * c + o * b
            /\ b * c \in Int /\ o * b \in Int
      OBVIOUS
    <3> QED
      BY <1>00, <3>1
  <2>8. Counted' = Blocks * (Collected + args.oio) - (FailuresCollected + FailuresSeen)
    <3>1. \A c, p, r, f, g \in Int : c = p - f => c + r - g = (p + r) - (f + g)
      OBVIOUS
    <3> QED
      BY <2>5, <2>6, <2>7, CollectedType, <3>1
  <2> QED
    BY <1>0, <2>2, <2>4, <2>8 DEF Tally
<1>7. ASSUME NEW e \in inflight, NEW ok \in BOOLEAN, KernelCompletes(e, ok)
      PROVE  Tally'
  <2>1. /\ UNCHANGED <<pc, ops_returned, ops_failed, benchmark_opcount>>
        /\ cq' = Append(cq, [sqe |-> e, ok |-> ok])
        /\ succeeded' = succeeded + (IF ok THEN 1 ELSE 0)
        /\ failed' = failed + (IF ok THEN 0 ELSE 1)
    BY <1>7 DEF KernelCompletes, R!Complete, counters, benchVars
  <2>2. cq \in Seq([sqe : Sqe, ok : BOOLEAN]) /\ [sqe |-> e, ok |-> ok] \in [sqe : Sqe, ok : BOOLEAN]
    BY DEF TypeOK
  <2>3. FailuresSeen' = FailuresSeen + (IF ok THEN 0 ELSE 1)
    <3>1. FailuresSeen = Cardinality(FailedIn(cq)) /\ FailuresSeen' = Cardinality(FailedIn(cq'))
      BY DEF FailuresSeen, R!FailedCqes, FailedIn
    <3>2. Cardinality(FailedIn(Append(cq, [sqe |-> e, ok |-> ok])))
            = Cardinality(FailedIn(cq)) + (IF [sqe |-> e, ok |-> ok].ok THEN 0 ELSE 1)
      BY <2>2, FailedAppend
    <3> QED
      BY <2>1, <3>1, <3>2
  <2>4. Len(cq') = Len(cq) + 1
    BY <2>1, <2>2
  <2>5. Collected' = Collected
    BY <1>00, <2>1, <2>4 DEF Collected
  <2>6. FailuresCollected' = FailuresCollected
    BY <1>00, <2>1, <2>3 DEF FailuresCollected
  <2>7. Counted' = Counted
    BY <1>0, <2>1 DEF Counted
  <2> QED
    BY <1>0, <2>1, <2>5, <2>6, <2>7 DEF Tally
<1> QED
  BY <1>2, <1>3, <1>4, <1>5, <1>6, <1>7 DEF Next, Step, Kernel

(* Across rounds and resets of the stress counters, every operation the    *)
(* kernel completed is counted once, for what the code takes it to be.     *)
THEOREM OperationsCountedOnce == Spec => []CountsEachOnce
<1>1. Init => Tally
  <2> SUFFICES ASSUME Init
               PROVE  Tally
    OBVIOUS
  <2>1. TypeOK /\ Counted = 0 /\ succeeded = 0 /\ failed = 0 /\ cq = <<>> /\ ops_returned = ops_failed
    BY TypeInit DEF Init, R!RingInit, Counted
  <2>2. FailuresSeen = 0 /\ Len(cq) = 0
    BY <2>1, FailuresType
  <2>3. Collected = 0 /\ FailuresCollected = 0
    <3>1. succeeded = 0 /\ failed = 0 /\ Len(cq) = 0 /\ FailuresSeen = 0
      BY <2>1, <2>2
    <3> QED
      BY <3>1 DEF Collected, FailuresCollected
  <2>4. Blocks * Collected - FailuresCollected = 0
    BY <2>1, <2>3, TallyType
  <2> QED
    BY <2>1, <2>4 DEF Tally
<1>2. TypeOK /\ RingInv /\ Tally => CountsEachOnce
  <2> SUFFICES ASSUME TypeOK, RingInv, Tally, pc \in {"loop", "iteration"}
               PROVE  Counted = Done
    BY DEF CountsEachOnce
  <2>1. Len(cq) = 0 /\ FailuresSeen = 0
    BY FailuresType DEF RingInv, Emptied
  <2>2. Counted = Blocks * (succeeded + failed) - failed
    BY <2>1, TallyType DEF Tally, Collected, FailuresCollected
  <2>3. /\ Blocks * (succeeded + failed) = Blocks * succeeded + Blocks * failed
        /\ (Blocks - 1) * failed = Blocks * failed - failed
        /\ Blocks * succeeded \in Int /\ Blocks * failed \in Int
    BY TallyType
  <2> QED
    BY <2>2, <2>3, TallyType DEF Done
<1> QED
  BY <1>1, <1>2, TallyStep, Invariance, StressOnly, PTL DEF Spec

-----------------------------------------------------------------------------
(* The next offsets follow from what was submitted, and the end of what    *)
(* was prepared from that and the entries prepared so far.                 *)
Ahead == IF pc \in {"prepare", "crashed"} THEN i * Blocks ELSE 0
Follows ==
  ~Stress => /\ offsets = OffsetsFrom(args.read_offset, ops_submitted)
             /\ due = OffsetAt(args.read_offset, ops_submitted + Ahead)

(* NORMAL mode: each round goes on in the file where the one before ended, *)
(* over the end of the file too.                                           *)
THEOREM SequentialOffsets == Spec => []SequentialWithoutGaps
<1>1. Init => Follows
  <2> SUFFICES ASSUME Init
               PROVE  Follows
    OBVIOUS
  <2>1. args.oio \in Nat \ {0} /\ Blocks \in Nat
    BY ArgsAssumption DEF Init, Blocks, Vectored
  <2>2. 0 \in Slots /\ 0 * Blocks = 0
    BY <2>1 DEF Slots
  <2>3. offsets[0] = OffsetAt(args.read_offset, 0 + 0 * Blocks)
    BY <2>2 DEF Init, OffsetsFrom, OffsetAt
  <2> QED
    BY <2>2, <2>3 DEF Init, Follows, Ahead
<1>2. TypeOK /\ IterationsAreStress /\ Follows /\ [Next]_vars => Follows'
  <2> SUFFICES ASSUME TypeOK, IterationsAreStress, Follows, [Next]_vars, ~Stress
               PROVE  Follows'
    BY DEF Follows, Next, Step, Kernel, vars, Setup, StartIteration,
         EndIterations, StartRound, PrepareEntry, PrepareNull, Submit, Reap, ReapForever,
         LoopEnd, CallFails, SqThreadTakes, SqThreadFrees, KernelCompletes, Expire, Return, Stress
  <2>0. /\ args.oio \in Nat \ {0} /\ args.read_offset \in Nat /\ Blocks \in Nat
        /\ ops_submitted \in Nat /\ i \in Nat /\ 0 * Blocks = 0
    BY ArgsType DEF TypeOK
  <2>1. args' = args => UNCHANGED <<Blocks, Stress, Slots>>
    BY DEF Blocks, Stress, Vectored, Slots
  <2>2. ASSUME UNCHANGED <<args, offsets, ops_submitted, due>>, Ahead' = Ahead
        PROVE  Follows'
    BY <2>1, <2>2 DEF Follows, OffsetsFrom
  <2>3. CASE StartRound
    <3>1. pc = "loop" /\ pc' = "prepare" /\ i' = 0 /\ args' = args
      BY <2>3 DEF StartRound
    <3>2. Ahead' = Ahead
      BY <2>0, <2>1, <3>1 DEF Ahead
    <3> QED
      BY <2>2, <2>3, <3>2 DEF StartRound, counters
  <2>4. CASE PrepareEntry
    <3>1. /\ pc = "prepare" /\ i < args.oio /\ i' = i + 1
          /\ UNCHANGED <<args, pc, offsets, ops_submitted>>
          /\ due' = OffsetAt(offsets[i], Blocks)
      BY <2>4 DEF PrepareEntry, counters, OffsetAt
    <3>2. offsets[i] = OffsetAt(args.read_offset, ops_submitted + i * Blocks)
      BY <2>0, <3>1 DEF Follows, OffsetsFrom, Slots, OffsetAt
    <3>3. ops_submitted + i * Blocks \in Nat
      BY <2>0
    <3>4. due' = OffsetAt(args.read_offset, (ops_submitted + i * Blocks) + Blocks)
      <4>1. \A n \in Nat : OffsetAt(OffsetAt(args.read_offset, n), Blocks)
                              = OffsetAt(args.read_offset, n + Blocks)
        BY <2>0, OffsetGoesOn
      <4> QED
        BY <3>1, <3>2, <3>3, <4>1
    <3>5. (ops_submitted + i * Blocks) + Blocks = ops_submitted + (i + 1) * Blocks
      BY <2>0
    <3>6. Ahead' = (i + 1) * Blocks
      BY <2>1, <3>1 DEF Ahead
    <3> QED
      BY <2>1, <3>1, <3>4, <3>5, <3>6 DEF Follows, OffsetsFrom
  <2>5. CASE Submit
    <3>1. /\ pc = "prepare" /\ i = args.oio /\ pc' = "wait" /\ UNCHANGED <<args, due>>
          /\ ops_submitted' = ops_submitted + args.oio * Blocks
          /\ offsets' = OffsetsFrom(args.read_offset, ops_submitted')
      BY <2>5 DEF Submit, OpsOfRound
    <3>2. due = OffsetAt(args.read_offset, ops_submitted')
      BY <3>1 DEF Follows, Ahead
    <3>3. Ahead' = 0 /\ ops_submitted' + 0 = ops_submitted'
      BY <2>0, <3>1 DEF Ahead
    <3> QED
      BY <2>1, <3>1, <3>2, <3>3 DEF Follows, OffsetsFrom
  <2>6. ASSUME NEW e \in inflight, NEW ok \in BOOLEAN, KernelCompletes(e, ok)
        PROVE  Follows'
    BY <2>1, <2>2, <2>6 DEF KernelCompletes, counters, Ahead
  <2>7. CASE Setup \/ CallFails \/ EndIterations \/ Reap \/ ReapForever \/ LoopEnd \/ Expire
             \/ Return \/ SqThreadTakes \/ SqThreadFrees \/ PrepareNull \/ UNCHANGED vars
    <3>1. /\ UNCHANGED <<args, i, offsets, ops_submitted, due>>
          /\ pc \in {"prepare", "crashed"} <=> pc' \in {"prepare", "crashed"}
      BY <2>7 DEF Setup, CallFails, EndIterations, Reap, ReapForever, LoopEnd, Expire,
           Return, SqThreadTakes, SqThreadFrees, PrepareNull, vars, counters
    <3>2. Ahead' = Ahead
      BY <2>1, <3>1 DEF Ahead
    <3> QED
      BY <2>2, <3>1, <3>2
  <2>8. CASE StartIteration
    BY <2>8 DEF StartIteration, IterationsAreStress
  <2> QED
    BY <2>3, <2>4, <2>5, <2>6, <2>7, <2>8 DEF Next, Step, Kernel
<1>3. TypeOK /\ Follows => SequentialWithoutGaps
  <2> SUFFICES ASSUME TypeOK, Follows, pc = "loop", ~Stress
               PROVE  offsets[0] = due
    BY DEF SequentialWithoutGaps
  <2>1. 0 \in Slots /\ 0 * Blocks = 0 /\ Ahead = 0
    BY ArgsType DEF Slots, Ahead
  <2> QED
    BY <2>1 DEF Follows, OffsetsFrom, OffsetAt
<1> QED
  BY <1>1, <1>2, <1>3, Invariance, StressOnly, PTL DEF Spec

-----------------------------------------------------------------------------
(* The result.                                                             *)
ResultSeconds == IF Stress THEN args.runtime ELSE 1
Finishes == EndIterations \/ (LoopEnd /\ ~Stress)

LEMMA DoneType ==
  ASSUME TypeOK
  PROVE  Done \in Nat /\ Blocks - 1 \in Nat /\ ResultSeconds \in Nat \ {0} /\ ResultSeconds # 0
<1>1. /\ Blocks \in Nat \ {0} /\ succeeded \in Nat /\ failed \in Nat
      /\ args.runtime \in Nat \ {0}
  BY ArgsType, TallyType
<1>2. \A b \in Nat \ {0}, m, n \in Nat : b * m + (b - 1) * n \in Nat /\ b - 1 \in Nat
  OBVIOUS
<1> QED
  BY <1>1, <1>2 DEF Done, ResultSeconds

(* A function that finishes computes its result from what is done. *)
LEMMA ResultComputed ==
  ASSUME TypeOK, IterationsAreStress, CountsEachOnce, Finishes
  PROVE  /\ pc \in {"loop", "iteration"} /\ pc' = "done"
         /\ op_count' = Done \div ResultSeconds
<1>1. pc \in {"loop", "iteration"} /\ pc' = "done" /\ op_count' = ResultCount
      /\ (Stress <=> pc = "iteration")
  BY DEF Finishes, EndIterations, LoopEnd, IterationsAreStress
<1>2. Counted = Done
  BY <1>1 DEF CountsEachOnce
<1>3. CASE Stress
  <2>1. Counted = benchmark_opcount
    BY <1>1, <1>3, TallyType DEF Counted
  <2> QED
    BY <1>1, <1>2, <1>3, <2>1 DEF ResultCount, ResultSeconds
<1>4. CASE ~Stress
  <2>1. Counted = ops_returned - ops_failed
    BY <1>4, TallyType DEF Counted
  <2>2. Done \div 1 = Done
    BY DoneType
  <2> QED
    BY <1>1, <1>2, <1>4, <2>1, <2>2 DEF ResultCount, ResultSeconds
<1> QED
  BY <1>3, <1>4

(* Steps that are neither the end of a function nor of an operation. *)
Between ==
  \/ Setup \/ StartIteration \/ StartRound \/ PrepareEntry \/ PrepareNull \/ Submit
  \/ Reap \/ ReapForever \/ (LoopEnd /\ Stress) \/ SqThreadTakes \/ SqThreadFrees
  \/ Expire \/ Return \/ UNCHANGED vars

LEMMA StepKinds ==
  ASSUME [Next]_vars
  PROVE  \/ Between \/ Finishes \/ CallFails
         \/ \E e \in inflight, ok \in BOOLEAN : KernelCompletes(e, ok)
BY DEF Next, Step, Kernel, Between, Finishes

LEMMA SecondsStay ==
  ASSUME [Next]_vars
  PROVE  UNCHANGED <<Blocks, ResultSeconds>>
<1>1. args' = args
  BY DEF Next, Step, Kernel, vars, Setup, StartIteration,
         EndIterations, StartRound, PrepareEntry, PrepareNull, Submit, Reap, ReapForever,
         LoopEnd, CallFails, SqThreadTakes, SqThreadFrees, KernelCompletes, Expire, Return
<1> QED
  BY <1>1 DEF Blocks, Vectored, ResultSeconds, Stress

LEMMA BetweenKeeps ==
  ASSUME [Next]_vars, Between
  PROVE  /\ UNCHANGED <<Done, op_count>>
         /\ pc \in {"done", "failed"} \/ pc' \in {"done", "failed"} => pc' = pc
<1>1. UNCHANGED <<succeeded, failed, op_count>>
      /\ (pc \in {"done", "failed"} \/ pc' \in {"done", "failed"} => pc' = pc)
  BY DEF Between, vars, outcomes, Setup, StartIteration, StartRound, PrepareEntry,
         PrepareNull, Submit, Reap, ReapForever, LoopEnd, SqThreadTakes, SqThreadFrees,
         Expire, Return
<1> QED
  BY <1>1, SecondsStay DEF Done

LEMMA CompletionAdds ==
  ASSUME TypeOK, RingInv, [Next]_vars,
         NEW e \in inflight, NEW ok \in BOOLEAN, KernelCompletes(e, ok)
  PROVE  /\ UNCHANGED <<pc, op_count>> /\ pc # "done"
         /\ Done' = Done + (IF ok THEN Blocks ELSE Blocks - 1)
<1>1. /\ UNCHANGED <<pc, op_count>>
      /\ succeeded' = succeeded + (IF ok THEN 1 ELSE 0)
      /\ failed' = failed + (IF ok THEN 0 ELSE 1)
  BY DEF KernelCompletes
<1>2. pc # "done"
  BY DEF RingInv, Emptied
<1>3. Blocks \in Nat /\ succeeded \in Nat /\ failed \in Nat /\ Blocks' = Blocks
  BY TallyType, SecondsStay
<1>4. \A b, m \in Nat : b * (m + 1) = b * m + b /\ b * m \in Int
  OBVIOUS
<1>5. \A b, n \in Nat : (b - 1) * (n + 1) = (b - 1) * n + (b - 1) /\ (b - 1) * n \in Int
  OBVIOUS
<1>6. PICK s \in Int, f \in Int : s = Blocks * succeeded /\ f = (Blocks - 1) * failed
  BY <1>3, <1>4, <1>5
<1>7. Done = s + f
  BY <1>6 DEF Done
<1>8. CASE ok
  <2>1. Blocks * (succeeded + 1) = s + Blocks
    BY <1>3, <1>4, <1>6
  <2>2. Done' = (s + Blocks) + f
    BY <1>1, <1>3, <1>6, <1>8, <2>1 DEF Done
  <2>3. (s + Blocks) + f = (s + f) + Blocks
    BY <1>3, <1>6
  <2> QED
    BY <1>1, <1>2, <1>7, <1>8, <2>2, <2>3
<1>9. CASE ~ok
  <2>1. (Blocks - 1) * (failed + 1) = f + (Blocks - 1)
    BY <1>3, <1>5, <1>6
  <2>2. Done' = s + (f + (Blocks - 1))
    BY <1>1, <1>3, <1>6, <1>9, <2>1 DEF Done
  <2>3. s + (f + (Blocks - 1)) = (s + f) + (Blocks - 1)
    BY <1>3, <1>6
  <2> QED
    BY <1>1, <1>2, <1>7, <1>9, <2>2, <2>3
<1> QED
  BY <1>1, <1>2, <1>8, <1>9

(* The io_uring engine is an engine as the driver expects it: its result   *)
(* comes once and is what its completions said, or zero after an error.    *)
THEOREM RefinesEngine == Spec => ImplementsEngine
<1>1. Init => E!Init
  <2> SUFFICES ASSUME Init PROVE E!Init
    OBVIOUS
  <2>1. TypeOK /\ succeeded = 0 /\ failed = 0 /\ pc = "setup" /\ op_count = -1
    BY TypeInit DEF Init
  <2>2. Done = 0
    BY <2>1, TallyType DEF Done
  <2> QED
    BY <2>1, <2>2, DoneType DEF E!Init, Stage, ResultSeconds
<1>2. TypeOK /\ RingInv /\ IterationsAreStress /\ CountsEachOnce /\ [Next]_vars
        => [E!Next]_(E!vars)
  <2> SUFFICES ASSUME TypeOK, RingInv, IterationsAreStress, CountsEachOnce, [Next]_vars
               PROVE  [E!Next]_(E!vars)
    OBVIOUS
  <2>1. CASE Between
    <3>1. UNCHANGED <<Stage, Done, ResultSeconds, op_count>>
      BY <2>1, BetweenKeeps, SecondsStay DEF Stage
    <3> QED
      BY <3>1 DEF E!vars, ResultSeconds
  <2>2. CASE Finishes
    <3>1. Stage = "working" /\ Stage' = "returned" /\ op_count' = Done \div ResultSeconds
      BY <2>2, ResultComputed DEF Stage
    <3>2. UNCHANGED <<succeeded, failed>>
      BY <2>2 DEF Finishes, EndIterations, LoopEnd, outcomes
    <3>3. UNCHANGED <<Done, ResultSeconds>>
      BY <3>2, SecondsStay DEF Done
    <3> QED
      BY <3>1, <3>3, DoneType DEF E!Next, E!Return, ResultSeconds
  <2>3. CASE CallFails
    <3>1. Stage = "working" /\ Stage' = "failed" /\ op_count' = 0
      BY <2>3 DEF CallFails, Stage
    <3>2. UNCHANGED <<succeeded, failed>>
      BY <2>3 DEF CallFails, outcomes
    <3>3. UNCHANGED <<Done, ResultSeconds>>
      BY <3>2, SecondsStay DEF Done
    <3> QED
      BY <3>1, <3>3 DEF E!Next, E!Fail, ResultSeconds
  <2>4. ASSUME NEW e \in inflight, NEW ok \in BOOLEAN, KernelCompletes(e, ok)
        PROVE  [E!Next]_(E!vars)
    <3>1. UNCHANGED <<pc, op_count>> /\ pc # "done"
          /\ Done' = Done + (IF ok THEN Blocks ELSE Blocks - 1)
      BY <2>4, CompletionAdds
    <3>2. UNCHANGED <<Stage, ResultSeconds>> /\ Stage \in {"working", "failed"}
      BY <3>1, SecondsStay DEF Stage
    <3>3. PICK b \in Nat : b = IF ok THEN Blocks ELSE Blocks - 1
      BY DoneType, TallyType
    <3>4. Done \in Nat /\ Done' = Done + b
      BY <3>1, <3>3, DoneType
    <3>5. Done' = Done \/ (Done' \in Nat /\ Done' > Done)
      <4> HIDE DEF Done
      <4> QED
        BY <3>4
    <3> QED
      BY <3>1, <3>2, <3>5 DEF E!Next, E!Work, E!vars, ResultSeconds
  <2> QED
    BY <2>1, <2>2, <2>3, <2>4, StepKinds
<1> QED
  BY <1>1, <1>2, Invariance, StressOnly, OperationsCountedOnce, PTL DEF Spec, ImplementsEngine, E!Spec
=============================================================================
