----------------------------- MODULE AioContext -----------------------------
(***************************************************************************)
(* A Linux AIO context as src/src/async_libaio.cpp uses it through         *)
(* io_submit and io_getevents: the operations the kernel is working on and *)
(* the events waiting to be collected.  The code looks only at how many    *)
(* events there are and how many of them have res < 0, so that is what is  *)
(* kept of them.  External: the kernel is not in the repository.           *)
(***************************************************************************)
EXTENDS Naturals

VARIABLES inflight, \* operations taken and not completed
          events    \* completed and not collected: how many ok, how many failed

CtxInit ==
  /\ inflight = {}
  /\ events = [ok |-> 0, failed |-> 0]

Pending == events.ok + events.failed

(* io_submit accepts these operations. *)
Take(ops) ==
  /\ inflight' = inflight \cup ops
  /\ UNCHANGED events

(* The kernel finishes an operation, in any order. *)
Complete(op, ok) ==
  /\ op \in inflight
  /\ inflight' = inflight \ {op}
  /\ events' = IF ok THEN [events EXCEPT !.ok = @ + 1]
                     ELSE [events EXCEPT !.failed = @ + 1]

(* io_getevents collects events of each kind. *)
Collect(good, bad) ==
  /\ good \in 0..events.ok
  /\ bad \in 0..events.failed
  /\ events' = [ok |-> events.ok - good, failed |-> events.failed - bad]
  /\ UNCHANGED inflight
=============================================================================
