--------------------------- MODULE MCAsyncLibaio ---------------------------
(* Instances for TLC: each of the three functions with two iocbs, on a     *)
(* file of 13 bytes, which is not a multiple of the buffer's two, and on   *)
(* one of 12 bytes, which is whole operations of two and of four.          *)
EXTENDS AsyncLibaio

Arg(type, vec_size, oio, runtime, read_offset, max_offset) ==
  [benchmark_type |-> type, vec_size |-> vec_size, oio |-> oio, runtime |-> runtime,
   read_offset |-> read_offset, max_offset |-> max_offset]

LibaioArgs == {Arg("NORMAL", 0, 2, 1, 3, 13), Arg("NORMAL", 2, 2, 1, 0, 13),
               Arg("NORMAL", 2, 2, 1, 4, 12), Arg("STRESS", 0, 2, 2, 0, 12),
               Arg("NORMAL", 0, 1, 1, 0, 13)}

PlainArgs == {Arg("NORMAL", 0, 2, 1, 0, 13)}

StressArgs == {Arg("STRESS", 0, 2, 1, 0, 13)}
=============================================================================
