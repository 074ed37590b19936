------------------------------- MODULE Engine -------------------------------
(***************************************************************************)
(* What runBenchmark expects of the function it starts in each thread: one *)
(* result, that is the number of blocks done, or for the stress benchmark  *)
(* that number for each second; or, after an error, zero.                  *)
(***************************************************************************)
EXTENDS Integers

VARIABLES stage,     \* "working", then "returned" or "failed"
          done,      \* blocks done so far
          seconds,   \* that the number is divided by
          op_count   \* of the result, -1 before it

vars == <<stage, done, seconds, op_count>>

Init ==
  /\ stage = "working"
  /\ done = 0
  /\ seconds \in Nat
  /\ op_count = -1

(* What is in flight at an error may still be done after the return. *)
Work ==
  /\ stage \in {"working", "failed"}
  /\ done' \in Nat
  /\ done' > done
  /\ UNCHANGED <<stage, seconds, op_count>>

Return ==
  /\ stage = "working"
  /\ seconds # 0
  /\ stage' = "returned"
  /\ op_count' = done \div seconds
  /\ UNCHANGED <<done, seconds>>

Fail ==
  /\ stage = "working"
  /\ stage' = "failed"
  /\ op_count' = 0
  /\ UNCHANGED <<done, seconds>>

Next == Work \/ Return \/ Fail

Spec == Init /\ [][Next]_vars
=============================================================================
