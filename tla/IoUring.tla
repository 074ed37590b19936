------------------------------ MODULE IoUring ------------------------------
(***************************************************************************)
(* An io_uring instance as the code under src/src uses it through          *)
(* liburing: a submission queue of Entries slots, the operations the       *)
(* kernel is working on, and the completion queue.  External: the kernel   *)
(* and liburing are not in the repository.                                 *)
(***************************************************************************)
EXTENDS Naturals, Sequences

CONSTANT Entries  \* io_uring_queue_init(1024, ...)

VARIABLES sq,       \* prepared entries that the kernel has not taken, in order
          inflight, \* entries taken and not completed
          cq        \* completions not yet advanced over: [sqe, ok]

ring == <<sq, inflight, cq>>

RingInit ==
  /\ sq = <<>>
  /\ inflight = {}
  /\ cq = <<>>

(* io_uring_get_sqe returns NULL when every slot is taken. *)
SqFull == Len(sq) = Entries

(* io_uring_get_sqe and io_uring_prep_* *)
Prepare(e) ==
  /\ ~SqFull
  /\ sq' = Append(sq, e)
  /\ UNCHANGED <<inflight, cq>>

(* io_uring_submit: the kernel takes the first n entries.  It may take     *)
(* fewer than there are; the others stay in the submission queue.          *)
Submit(n) ==
  /\ n \in 0..Len(sq)
  /\ inflight' = inflight \cup {sq[i] : i \in 1..n}
  /\ sq' = SubSeq(sq, n + 1, Len(sq))
  /\ UNCHANGED cq

(* The kernel finishes an operation, in any order: cqe->res < 0 is ~ok. *)
Complete(e, ok) ==
  /\ e \in inflight
  /\ inflight' = inflight \ {e}
  /\ cq' = Append(cq, [sqe |-> e, ok |-> ok])
  /\ UNCHANGED sq

(* What io_uring_for_each_cqe sees with res < 0. *)
FailedCqes == {i \in 1..Len(cq) : ~cq[i].ok}

(* io_uring_cq_advance *)
Advance(n) ==
  /\ cq' = SubSeq(cq, n + 1, Len(cq))
  /\ UNCHANGED <<sq, inflight>>
=============================================================================
