---------------------------- MODULE CommandLine ----------------------------
(***************************************************************************)
(* fileNameCheck and mapUserArgsToRuntimeArgs of src/src/benchmark.cpp, as *)
(* functions of argv.  An option stands without its two dashes, and a      *)
(* number as the string it is written as, whose value is in Numerals.      *)
(***************************************************************************)
EXTENDS Integers, Sequences, FiniteSetsExt, SequencesExt

CONSTANT Numerals  \* what atoi makes of the strings that are numbers

(* No number is negative. *)
ASSUME NumeralsAssumption == \A s \in DOMAIN Numerals : Numerals[s] \in Nat

(* The option that sets a field from the argument that follows it. *)
FieldOf ==
  [file |-> "filename", bsize |-> "blk_size", threads |-> "thread_count",
   op |-> "operation", mode |-> "opmode", oio |-> "oio", vsize |-> "vec_size",
   runtime |-> "runtime", lib |-> "lib", btype |-> "benchmark_type",
   minterval |-> "message_interval"]
Valued == DOMAIN FieldOf
Flags == {"debug", "nodirect"}

getDefaultArgs ==
  [filename |-> "", thread_count |-> 1, blk_size |-> 4, debugInfo |-> FALSE,
   operation |-> "READ", opmode |-> "SEQUENTIAL", oio |-> 8, lib |-> "SYNCIO",
   odirect |-> TRUE, vec_size |-> 0, runtime |-> 1, benchmark_type |-> "NORMAL",
   message_interval |-> 1000]

atoi(s) == IF s \in DOMAIN Numerals THEN Numerals[s] ELSE 0

(* What an option makes of its argument. *)
Converted(option, s) ==
  CASE option = "file"  -> s
    [] option = "op"    -> IF s = "read" THEN "READ" ELSE "WRITE"
    [] option = "mode"  -> IF s = "seq" THEN "SEQUENTIAL" ELSE "RANDOM"
    [] option = "lib"   -> CASE s = "syncio" -> "SYNCIO" [] s = "libaio" -> "LIBAIO"
                             [] OTHER -> "IOURING"
    [] option = "btype" -> CASE s = "stress" -> "STRESS" [] s = "msg" -> "MSG_RATE"
                             [] OTHER -> "NORMAL"
    [] OTHER            -> atoi(s)

HasFileName(argv) == Contains(argv, "file")

(* The argument after the last one is argv[argc], a null pointer. *)
ReadsNull(argv) == Last(argv) \in Valued

FirstWins(argv, n) == argv[n] \in Valued /\ ~Contains(SubSeq(argv, 1, n - 1), argv[n])  \* mutant
SetsField(argv, n) == argv[n] \in Valued

(* Every argument is looked at, also one that an option has taken. *)
mapUserArgsToRuntimeArgs(argv) ==
  LET Look(args, n) ==
        IF SetsField(argv, n)
        THEN [args EXCEPT ![FieldOf[argv[n]]] = Converted(argv[n], argv[n + 1])]
        ELSE [args EXCEPT !.debugInfo = @ \/ argv[n] = "debug",
                          !.odirect = @ /\ argv[n] # "nodirect"]
  IN FoldLeftDomain(Look, getDefaultArgs, argv)

-----------------------------------------------------------------------------
(* What the user means: each option has the value last given to it, in     *)
(* whatever order they come.  Clear if no value looks like an option.      *)
WellFormed(argv) ==
  \A n \in DOMAIN argv :
    argv[n] \in Valued => n < Len(argv) /\ argv[n + 1] \notin Valued \cup Flags

Meant(argv, args) ==
  /\ \A o \in Valued :
       LET given == {n \in DOMAIN argv : argv[n] = o} IN
         args[FieldOf[o]] = IF given = {} THEN getDefaultArgs[FieldOf[o]]
                            ELSE Converted(o, argv[Max(given) + 1])
  /\ args.debugInfo = Contains(argv, "debug")
  /\ args.odirect = ~Contains(argv, "nodirect")
=============================================================================
