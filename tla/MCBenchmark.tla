---------------------------- MODULE MCBenchmark ----------------------------
(* Instances for TLC: command lines for each function of the synchronous   *)
(* engine, each library, each way to give the options, on files that are   *)
(* whole numbers of blocks and not, empty, and without a size.             *)
EXTENDS Benchmark

SomeNumerals == [s \in {"0", "1", "2", "3", "600"} |->
                   CASE s = "0" -> 0 [] s = "1" -> 1 [] s = "2" -> 2 [] s = "3" -> 3
                     [] OTHER -> 600]

CommandLinesUsed ==
  {<<"file", "f", "bsize", "2", "threads", "2">>,
   <<"threads", "3", "bsize", "1", "file", "f", "threads", "2", "mode", "rand", "runtime", "2">>,
   <<"bsize", "2", "vsize", "2", "op", "write", "threads", "1", "file", "f", "debug">>,
   <<"file", "f", "bsize", "1", "vsize", "3", "threads", "2">>,
   <<"btype", "stress", "file", "f", "bsize", "2", "runtime", "3">>,
   <<"btype", "stress", "file", "f", "bsize", "1", "threads", "2", "mode", "seq">>,
   <<"btype", "stress", "file", "f", "bsize", "2", "runtime", "2", "mode", "rand">>,
   <<"file", "f", "btype", "stress", "runtime", "0", "lib", "libaio">>,
   <<"file", "f", "btype", "stress", "runtime", "0">>,
   <<"lib", "liburing", "file", "f", "oio", "600", "threads", "2", "nodirect">>,
   <<"lib", "libaio", "file", "f", "btype", "stress", "runtime", "2", "threads", "2">>,
   <<"file", "f", "btype", "msg", "lib", "syncio">>,
   <<"file", "f", "runtime", "0", "vsize", "x">>,
   <<"file", "f", "threads", "0">>,
   <<"file", "op", "read", "debug">>,
   <<"bsize", "1">>, <<"file", "f", "op">>}

FilesUsed ==
  {[opens |-> TRUE, kind |-> "regular", size |-> 12],
   [opens |-> TRUE, kind |-> "block", size |-> 9],
   [opens |-> TRUE, kind |-> "regular", size |-> 0],
   [opens |-> TRUE, kind |-> "char", size |-> 0],
   [opens |-> FALSE, kind |-> "regular", size |-> 12]}

ThreadIds == 0..2
RandsUsed == {0, 5}
=============================================================================
