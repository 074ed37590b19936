-------------------------- MODULE MCAsyncLiburing --------------------------
(* Instances for TLC: fixed buffers and vectors, with and without polling, *)
(* stress, and more entries than the ring has slots.                       *)
EXTENDS AsyncLiburing

Arg(type, vec_size, oio, runtime, read_offset, root) ==
  [benchmark_type |-> type, vec_size |-> vec_size, oio |-> oio,
   runtime |-> runtime, read_offset |-> read_offset, root |-> root]

LiburingArgs ==
  {Arg("NORMAL", 0, 2, 1, 3, FALSE), Arg("NORMAL", 0, 2, 1, 3, TRUE),
   Arg("NORMAL", 2, 2, 1, 0, FALSE), Arg("NORMAL", 3, 2, 1, 0, TRUE),
   Arg("NORMAL", 0, 1, 1, 0, TRUE),
   Arg("STRESS", 0, 2, 2, 0, TRUE),
   Arg("NORMAL", 0, 3, 1, 0, FALSE), Arg("NORMAL", 2, 3, 1, 0, TRUE)}

VectorArgs == {Arg("NORMAL", 2, 2, 1, 0, TRUE)}

FixedArgs == {Arg("NORMAL", 0, 2, 1, 0, FALSE)}
=============================================================================
