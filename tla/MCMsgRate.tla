----------------------------- MODULE MCMsgRate -----------------------------
(* Instances for TLC.  MsgArgs: every library; a batch of one, of the      *)
(* ring's depth and of more than that; a runtime equal to and above the    *)
(* handler's second.                                                       *)
EXTENDS MsgRate

Arg(lib, oio, runtime, interval) ==
  [lib |-> lib, oio |-> oio, runtime |-> runtime, message_interval |-> interval]

MsgArgs == {Arg("IOURING", 1, 1, 0), Arg("IOURING", 2, 1, 0), Arg("IOURING", 2, 2, 1),
            Arg("IOURING", 3, 1, 0), Arg("SYNCIO", 2, 1, 0), Arg("LIBAIO", 2, 1, 1)}

LongRun == {Arg("SYNCIO", 1, 2, 1)}

SlowProducer == {Arg("SYNCIO", 1, 1, 1)}

PartialBatch == {Arg("IOURING", 2, 1, 1)}
=============================================================================
