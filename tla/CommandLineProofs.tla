------------------------- MODULE CommandLineProofs -------------------------
(***************************************************************************)
(* What mapUserArgsToRuntimeArgs makes of every argv.  It folds over the   *)
(* arguments; the result of the fold over any set of them is known in      *)
(* closed form, and two functions on the subsets of a finite set that      *)
(* agree wherever they agree below are the same.                           *)
(***************************************************************************)
EXTENDS CommandLine, FiniteSetTheorems, WellFoundedInduction, TLAPS

-----------------------------------------------------------------------------
(* A collection of subsets of a finite set has one that holds no other:    *)
(* induction over data, in the form of a first-order fact.                 *)
LEMMA SmallestSubset ==
  ASSUME NEW S, IsFiniteSet(S), NEW B \in SUBSET SUBSET S, B # {}
  PROVE  \E s \in B : \A r \in B : r \subseteq s => r = s
<1>1. IsWellFoundedOn(StrictSubsetOrdering(S), SUBSET S)
  BY FS_StrictSubsetOrderingWellFounded, FS_FiniteSubsetsOfFinite
<1>2. PICK s \in B : \A r \in B : <<r, s>> \notin StrictSubsetOrdering(S)
  BY <1>1, WFMin
<1>3. ASSUME NEW r \in B, r \subseteq s, r # s
      PROVE  FALSE
  BY <1>2, <1>3 DEF StrictSubsetOrdering
<1> QED
  BY <1>3

(* Two functions that are computed alike from smaller subsets are equal.   *)
LEMMA SameOnSubsets ==
  ASSUME NEW S, IsFiniteSet(S), NEW f, NEW g,
         \A s \in SUBSET S : (\A r \in SUBSET s : r # s => f[r] = g[r]) => f[s] = g[s]
  PROVE  \A s \in SUBSET S : f[s] = g[s]
<1> DEFINE B == {s \in SUBSET S : f[s] # g[s]}
<1>1. ASSUME B # {}
      PROVE  FALSE
  <2>0. B \in SUBSET SUBSET S
    OBVIOUS
  <2>1. PICK s \in B : \A r \in B : r \subseteq s => r = s
    <3> HIDE DEF B
    <3> QED
      BY <1>1, <2>0, SmallestSubset
  <2>2. ASSUME NEW r \in SUBSET s, r # s
        PROVE  f[r] = g[r]
    BY <2>1, <2>2
  <2> QED
    BY <2>1, <2>2
<1> QED
  BY <1>1

-----------------------------------------------------------------------------
(* The fold's result in closed form: the arguments at the positions s have *)
(* been looked at.                                                         *)
OptionOf(field) == CHOOSE o \in Valued : FieldOf[o] = field
Given(argv, o, s) == {n \in s : argv[n] = o}
Value(argv, o, s) ==
  IF Given(argv, o, s) = {} THEN getDefaultArgs[FieldOf[o]]
  ELSE Converted(o, argv[Max(Given(argv, o, s)) + 1])

Looked(argv, s) ==
  [field \in DOMAIN getDefaultArgs |->
     CASE field = "debugInfo" -> \E n \in s : argv[n] = "debug"
       [] field = "odirect"   -> ~\E n \in s : argv[n] = "nodirect"
       [] OTHER               -> Value(argv, OptionOf(field), s)]

(* One more argument, as the function the source folds with. *)
Look(argv, args, n) ==
  IF SetsField(argv, n)
  THEN [args EXCEPT ![FieldOf[argv[n]]] = Converted(argv[n], argv[n + 1])]
  ELSE [args EXCEPT !.debugInfo = @ \/ argv[n] = "debug",
                    !.odirect = @ /\ argv[n] # "nodirect"]

(* Each option has a field of its own, which no flag sets. *)
LEMMA Fields ==
  /\ \A o \in Valued : /\ FieldOf[o] \in DOMAIN getDefaultArgs \ {"debugInfo", "odirect"}
                       /\ OptionOf(FieldOf[o]) = o
  /\ \A field \in DOMAIN getDefaultArgs \ {"debugInfo", "odirect"} :
       OptionOf(field) \in Valued /\ FieldOf[OptionOf(field)] = field
  /\ {"debugInfo", "odirect"} \subseteq DOMAIN getDefaultArgs
  /\ "debug" \notin Valued /\ "nodirect" \notin Valued
<1>1. \A o \in Valued : FieldOf[o] \in DOMAIN getDefaultArgs \ {"debugInfo", "odirect"}
  BY DEF Valued, FieldOf, getDefaultArgs
<1>2. \A o, p \in Valued : FieldOf[o] = FieldOf[p] => o = p
  BY DEF Valued, FieldOf
<1>3. \A field \in DOMAIN getDefaultArgs \ {"debugInfo", "odirect"} :
        \E o \in Valued : FieldOf[o] = field
  BY DEF Valued, FieldOf, getDefaultArgs
<1>4. {"debugInfo", "odirect"} \subseteq DOMAIN getDefaultArgs
  BY DEF getDefaultArgs
<1>5. "debug" \notin Valued /\ "nodirect" \notin Valued
  BY DEF Valued, FieldOf
<1> QED
  BY <1>1, <1>2, <1>3, <1>4, <1>5 DEF OptionOf

(* A finite set of numbers has a greatest one. *)
LEMMA MaxOf ==
  ASSUME NEW s, IsFiniteSet(s), s \subseteq Nat, s # {}
  PROVE  Max(s) \in s /\ \A n \in s : n <= Max(s)
<1> DEFINE Below(m) == {n \in s : m <= n}
           B == {Below(m) : m \in s}
<1>1. B \in SUBSET SUBSET s
  OBVIOUS
<1>2. PICK b \in B : \A r \in B : r \subseteq b => r = b
  <2>1. B # {}
    OBVIOUS
  <2> HIDE DEF B
  <2> QED
    BY ONLY <1>1, <2>1, IsFiniteSet(s), SmallestSubset
<1>3. PICK m \in s : b = Below(m)
  BY <1>2
<1>4. \A n \in s : n <= m
  <2>1. SUFFICES ASSUME NEW n \in s, ~(n <= m)
                 PROVE  FALSE
    OBVIOUS
  <2>2. m \in Nat /\ n \in Nat /\ m < n
    BY <2>1
  <2>3. ASSUME NEW k \in Below(n)
        PROVE  k \in Below(m)
    <3>1. k \in Nat /\ n <= k
      OBVIOUS
    <3> QED
      BY <2>2, <3>1
  <2>4. m \in Below(m) /\ m \notin Below(n)
    BY <2>2
  <2> QED
    BY <1>2, <1>3, <2>3, <2>4
<1> QED
  BY <1>4 DEF Max

(* Looking at the last argument brings one closed form to the next. *)
LEMMA LastLooked ==
  ASSUME NEW argv \in Seq(STRING), NEW s \in SUBSET DOMAIN argv, s # {}
  PROVE  Looked(argv, s) = Look(argv, Looked(argv, s \ {Max(s)}), Max(s))
<1> DEFINE m == Max(s)
           rest == s \ {m}
<1>1. s \subseteq Nat /\ IsFiniteSet(s)
  <2>1. IsFiniteSet(1..Len(argv))
    BY FS_Interval
  <2> QED
    BY <2>1, FS_Subset
<1>2. m \in s /\ \A n \in s : n <= m
  BY <1>1, MaxOf
<1> HIDE DEF m
<1>3. ASSUME NEW o \in Valued, o # argv[m]
      PROVE  Value(argv, o, s) = Value(argv, o, rest)
  <2>1. Given(argv, o, s) = Given(argv, o, rest)
    BY <1>3 DEF Given
  <2> QED
    BY <2>1 DEF Value
<1>4. ASSUME argv[m] \in Valued
      PROVE  Value(argv, argv[m], s) = Converted(argv[m], argv[m + 1])
  <2>1. m \in Given(argv, argv[m], s) /\ Given(argv, argv[m], s) \subseteq s
    BY <1>2 DEF Given
  <2>2. Max(Given(argv, argv[m], s)) = m
    <3>1. IsFiniteSet(Given(argv, argv[m], s))
      BY <1>1, <2>1, FS_Subset
    <3>2. /\ Max(Given(argv, argv[m], s)) \in Given(argv, argv[m], s)
          /\ m <= Max(Given(argv, argv[m], s))
      BY <1>1, <2>1, <3>1, MaxOf
    <3> QED
      BY <1>1, <1>2, <2>1, <3>2
  <2> QED
    BY <2>1, <2>2 DEF Value
<1>5. CASE SetsField(argv, m)
  <2>1. argv[m] \in Valued
    BY <1>5 DEF SetsField
  <2>2. argv[m] # "debug" /\ argv[m] # "nodirect"
    BY <2>1, Fields
  <2>3. ASSUME NEW field \in DOMAIN getDefaultArgs
        PROVE  Looked(argv, s)[field] =
                 IF field = FieldOf[argv[m]] THEN Converted(argv[m], argv[m + 1])
                 ELSE Looked(argv, rest)[field]
    <3>1. CASE field \in {"debugInfo", "odirect"}
      <4>1. field # FieldOf[argv[m]]
        BY <2>1, <3>1, Fields
      <4>2. /\ (\E n \in s : argv[n] = "debug") <=> (\E n \in rest : argv[n] = "debug")
            /\ (\E n \in s : argv[n] = "nodirect") <=> (\E n \in rest : argv[n] = "nodirect")
        BY <2>2
      <4> QED
        BY <3>1, <4>1, <4>2 DEF Looked
    <3>2. CASE field \notin {"debugInfo", "odirect"}
      <4>1. OptionOf(field) \in Valued /\ (OptionOf(field) = argv[m] <=> field = FieldOf[argv[m]])
        BY <2>1, <3>2, Fields
      <4>2. Looked(argv, s)[field] = Value(argv, OptionOf(field), s)
        BY <3>2 DEF Looked
      <4>3. Looked(argv, rest)[field] = Value(argv, OptionOf(field), rest)
        BY <3>2 DEF Looked
      <4> QED
        BY <1>3, <1>4, <2>1, <4>1, <4>2, <4>3
    <3> QED
      BY <3>1, <3>2
  <2>4. FieldOf[argv[m]] \in DOMAIN getDefaultArgs
    BY <2>1, Fields
  <2>5. Look(argv, Looked(argv, rest), m) =
          [Looked(argv, rest) EXCEPT ![FieldOf[argv[m]]] = Converted(argv[m], argv[m + 1])]
    BY <1>5 DEF Look
  <2>6. Looked(argv, s) = [Looked(argv, rest) EXCEPT ![FieldOf[argv[m]]] =
                                                         Converted(argv[m], argv[m + 1])]
    <3> DEFINE one == Looked(argv, s)
               other == Looked(argv, rest)
    <3>1. /\ one = [field \in DOMAIN getDefaultArgs |-> one[field]]
          /\ other = [field \in DOMAIN getDefaultArgs |-> other[field]]
      BY Zenon DEF Looked
    <3> HIDE DEF one, other
    <3> QED
      BY <2>3, <2>4, <3>1 DEF one, other
  <2> QED
    BY <2>5, <2>6 DEF m
<1>6. CASE ~SetsField(argv, m)
  <2>1. argv[m] \notin Valued
    BY <1>6 DEF SetsField
  <2>2. Look(argv, Looked(argv, rest), m) =
          [Looked(argv, rest) EXCEPT !.debugInfo = @ \/ argv[m] = "debug",
                                     !.odirect = @ /\ argv[m] # "nodirect"]
    BY <1>6 DEF Look
  <2>3. ASSUME NEW field \in DOMAIN getDefaultArgs
        PROVE  Looked(argv, s)[field] = Look(argv, Looked(argv, rest), m)[field]
    <3>1. CASE field = "debugInfo"
      <4>1. Look(argv, Looked(argv, rest), m)[field] =
              (Looked(argv, rest)["debugInfo"] \/ argv[m] = "debug")
        BY <2>2, <3>1, Fields DEF Looked
      <4>2. Looked(argv, rest)["debugInfo"] = \E n \in rest : argv[n] = "debug"
        BY Fields DEF Looked
      <4>3. Looked(argv, s)["debugInfo"] = \E n \in s : argv[n] = "debug"
        BY Fields DEF Looked
      <4>4. (\E n \in s : argv[n] = "debug") <=>
              (\E n \in rest : argv[n] = "debug") \/ argv[m] = "debug"
        BY <1>2
      <4> QED
        BY <3>1, <4>1, <4>2, <4>3, <4>4
    <3>2. CASE field = "odirect"
      <4>1. Look(argv, Looked(argv, rest), m)[field] =
              (Looked(argv, rest)["odirect"] /\ argv[m] # "nodirect")
        BY <2>2, <3>2, Fields DEF Looked
      <4>2. Looked(argv, rest)["odirect"] = ~\E n \in rest : argv[n] = "nodirect"
        BY Fields DEF Looked
      <4>3. Looked(argv, s)["odirect"] = ~\E n \in s : argv[n] = "nodirect"
        BY Fields DEF Looked
      <4>4. (~\E n \in s : argv[n] = "nodirect") <=>
              (~\E n \in rest : argv[n] = "nodirect") /\ argv[m] # "nodirect"
        BY <1>2
      <4> QED
        BY <3>2, <4>1, <4>2, <4>3, <4>4
    <3>3. CASE field \notin {"debugInfo", "odirect"}
      <4>1. OptionOf(field) \in Valued
        BY <3>3, Fields
      <4>2. Look(argv, Looked(argv, rest), m)[field] = Looked(argv, rest)[field]
        BY <2>2, <3>3 DEF Looked
      <4>3. Looked(argv, s)[field] = Value(argv, OptionOf(field), s)
        BY <3>3 DEF Looked
      <4>4. Looked(argv, rest)[field] = Value(argv, OptionOf(field), rest)
        BY <3>3 DEF Looked
      <4> QED
        BY <1>3, <2>1, <4>1, <4>2, <4>3, <4>4
    <3> QED
      BY <3>1, <3>2, <3>3
  <2>4. Look(argv, Looked(argv, rest), m) =
          [field \in DOMAIN getDefaultArgs |-> Look(argv, Looked(argv, rest), m)[field]]
    BY <2>2 DEF Looked
  <2>5. Looked(argv, s) = [field \in DOMAIN getDefaultArgs |-> Looked(argv, s)[field]]
    BY DEF Looked
  <2> QED
    BY <2>3, <2>4, <2>5 DEF m
<1> QED
  BY <1>5, <1>6

(* The arguments start as the defaults. *)
LEMMA NothingLooked ==
  ASSUME NEW argv
  PROVE  Looked(argv, {}) = getDefaultArgs
<1>1. ASSUME NEW field \in DOMAIN getDefaultArgs
      PROVE  Looked(argv, {})[field] = getDefaultArgs[field]
  <2>1. CASE field = "debugInfo"
    <3>1. Looked(argv, {})[field] = \E n \in {} : argv[n] = "debug"
      BY <2>1 DEF Looked
    <3> QED
      BY <2>1, <3>1 DEF getDefaultArgs
  <2>2. CASE field = "odirect"
    <3>1. Looked(argv, {})[field] = ~\E n \in {} : argv[n] = "nodirect"
      BY <2>2 DEF Looked
    <3> QED
      BY <2>2, <3>1 DEF getDefaultArgs
  <2>3. CASE field \notin {"debugInfo", "odirect"}
    <3>1. Given(argv, OptionOf(field), {}) = {}
      BY DEF Given
    <3> QED
      BY <2>3, <3>1, Fields DEF Looked, Value
  <2> QED
    BY <2>1, <2>2, <2>3
<1> QED
  BY <1>1 DEF Looked, getDefaultArgs

(* mapUserArgsToRuntimeArgs: the defaults, changed by one argument after   *)
(* the other, are the closed form over all of them.                        *)
LEMMA Folded ==
  ASSUME NEW argv \in Seq(STRING)
  PROVE  mapUserArgsToRuntimeArgs(argv) = Looked(argv, DOMAIN argv)
<1> DEFINE same == [i \in DOMAIN argv |-> i]
           IsFold(it) == it = [s \in SUBSET DOMAIN same |->
                                 IF s = {} THEN getDefaultArgs
                                 ELSE Look(argv, it[s \ {Max(s)}], same[Max(s)])]
           it == CHOOSE it : IsFold(it)
           looked == [s \in SUBSET DOMAIN argv |-> Looked(argv, s)]
<1>1. mapUserArgsToRuntimeArgs(argv) = it[DOMAIN same]
  BY Zenon DEF mapUserArgsToRuntimeArgs, FoldLeftDomain, FoldLeft, MapThenFoldSet, Look
<1>2. IsFiniteSet(DOMAIN argv) /\ DOMAIN argv \subseteq Nat
  BY FS_Interval
<1>3. ASSUME NEW s \in SUBSET DOMAIN argv, s # {}
      PROVE  Max(s) \in s
  BY <1>2, <1>3, FS_Subset, MaxOf
<1>4. Looked(argv, {}) = getDefaultArgs
  BY NothingLooked
<1>5. IsFold(looked)
  <2>1. ASSUME NEW s \in SUBSET DOMAIN argv
        PROVE  looked[s] = IF s = {} THEN getDefaultArgs
                           ELSE Look(argv, looked[s \ {Max(s)}], same[Max(s)])
    BY <1>3, <1>4, LastLooked
  <2> QED
    BY <2>1, Zenon
<1>6. IsFold(it)
  BY <1>5, Zenon
<1> HIDE DEF it
<1>7. ASSUME NEW s \in SUBSET DOMAIN argv, \A r \in SUBSET s : r # s => it[r] = looked[r]
      PROVE  it[s] = looked[s]
  <2>1. CASE s = {}
    BY <1>4, <1>6, <2>1
  <2>2. CASE s # {}
    <3>1. s \ {Max(s)} \in SUBSET s /\ s \ {Max(s)} # s /\ same[Max(s)] = Max(s)
      BY <1>3, <2>2
    <3>2. it[s] = Look(argv, it[s \ {Max(s)}], same[Max(s)])
      BY <1>6, <2>2
    <3>3. it[s \ {Max(s)}] = Looked(argv, s \ {Max(s)})
      BY <1>7, <3>1
    <3> QED
      BY <2>2, <3>1, <3>2, <3>3, LastLooked
  <2> QED
    BY <2>1, <2>2
<1>8. it[DOMAIN argv] = looked[DOMAIN argv]
  <2> HIDE DEF looked
  <2> QED
    BY <1>2, <1>7, SameOnSubsets
<1> QED
  BY <1>1, <1>8

(* mapUserArgsToRuntimeArgs of src/src/benchmark.cpp leaves in each field  *)
(* the value given last to its option, or the default if none is given, in *)
(* whatever order the options come and however often, and the flags are    *)
(* set by their presence alone.                                            *)
THEOREM ParsedIsMeant ==
  ASSUME NEW argv \in Seq(STRING)
  PROVE  Meant(argv, mapUserArgsToRuntimeArgs(argv))
<1> DEFINE args == Looked(argv, DOMAIN argv)
<1>1. ASSUME NEW o \in Valued
      PROVE  args[FieldOf[o]] = Value(argv, o, DOMAIN argv)
  BY <1>1, Fields DEF Looked
<1>2. args.debugInfo = Contains(argv, "debug") /\ args.odirect = ~Contains(argv, "nodirect")
  <2>1. DOMAIN argv = 1..Len(argv)
    OBVIOUS
  <2> QED
    BY <2>1, Fields DEF Looked, Contains
<1> QED
  BY <1>1, <1>2, Folded DEF Meant, Value, Given
(* What the other proofs need of the arguments: the numbers are numbers. *)
LEMMA ParsedNumbers ==
  ASSUME NEW argv \in Seq(STRING), NEW args,
         args \in {getDefaultArgs, mapUserArgsToRuntimeArgs(argv)}
  PROVE  \A field \in {"thread_count", "blk_size", "vec_size", "runtime"} : args[field] \in Nat
<1>1. getDefaultArgs.thread_count \in Nat /\ getDefaultArgs.blk_size \in Nat
      /\ getDefaultArgs.vec_size \in Nat /\ getDefaultArgs.runtime \in Nat
  BY DEF getDefaultArgs
<1>2. \A s : atoi(s) \in Nat
  BY NumeralsAssumption DEF atoi
<1>3. ASSUME NEW o \in {"threads", "bsize", "vsize", "runtime"}
      PROVE  /\ o \in Valued /\ \A s : Converted(o, s) = atoi(s)
             /\ FieldOf[o] = CASE o = "threads" -> "thread_count" [] o = "bsize" -> "blk_size"
                               [] o = "vsize" -> "vec_size" [] o = "runtime" -> "runtime"
  BY DEF Valued, FieldOf, Converted
<1>4. ASSUME NEW o \in {"threads", "bsize", "vsize", "runtime"}
      PROVE  mapUserArgsToRuntimeArgs(argv)[FieldOf[o]] \in Nat
  <2>1. getDefaultArgs[FieldOf[o]] \in Nat
    BY <1>1, <1>3
  <2>2. Value(argv, o, DOMAIN argv) \in Nat
    BY <1>2, <1>3, <2>1 DEF Value
  <2>3. Looked(argv, DOMAIN argv)[FieldOf[o]] = Value(argv, o, DOMAIN argv)
    BY <1>3, Fields DEF Looked
  <2> QED
    BY <2>2, <2>3, Folded
<1>5. /\ mapUserArgsToRuntimeArgs(argv).thread_count \in Nat
      /\ mapUserArgsToRuntimeArgs(argv).blk_size \in Nat
      /\ mapUserArgsToRuntimeArgs(argv).vec_size \in Nat
      /\ mapUserArgsToRuntimeArgs(argv).runtime \in Nat
  BY <1>3, <1>4
<1> QED
  BY <1>1, <1>5
=============================================================================
