--------------------------- MODULE IoUringLemmas ---------------------------
(***************************************************************************)
(* Facts about sequences that the operators of module IoUring come down    *)
(* to: what taking the first entries of a queue leaves and gives, and how  *)
(* many completions of a queue have failed.                                *)
(***************************************************************************)
EXTENDS Integers, Sequences, FiniteSets, FiniteSetTheorems, SequenceTheorems, TLAPS

Distinct(s) == \A a, b \in 1..Len(s) : s[a] = s[b] => a = b

FirstOf(s, n) == {s[a] : a \in 1..n}

(* What io_uring_submit takes: as many different entries as it says.       *)
LEMMA FirstCount ==
  ASSUME NEW S, NEW s \in Seq(S), Distinct(s), NEW n \in 0..Len(s)
  PROVE  /\ FirstOf(s, n) \subseteq S
         /\ IsFiniteSet(FirstOf(s, n))
         /\ Cardinality(FirstOf(s, n)) = n
<1>1. IsFiniteSet(1..n) /\ Cardinality(1..n) = n
  BY FS_Interval
<1>2. [a \in 1..n |-> s[a]] \in Bijection(1..n, FirstOf(s, n))
  BY DEF FirstOf, Distinct, Bijection, Injection, Surjection, IsInjective
<1>3. FirstOf(s, n) \subseteq S
  BY DEF FirstOf
<1> QED
  BY <1>1, <1>2, <1>3, FS_Bijection DEF ExistsBijection

(* What it leaves: the others, in their order.                             *)
LEMMA RestOf ==
  ASSUME NEW S, NEW s \in Seq(S), NEW n \in 0..Len(s)
  PROVE  LET r == SubSeq(s, n + 1, Len(s))
         IN  /\ r \in Seq(S)
             /\ Len(r) = Len(s) - n
             /\ \A a \in 1..Len(r) : r[a] = s[n + a]
<1>. DEFINE r == SubSeq(s, n + 1, Len(s))
<1>1. /\ Len(s) \in Nat /\ n \in Nat /\ n <= Len(s)
      /\ \A a \in (n + 1)..Len(s) : s[a] \in S
  OBVIOUS
<1>2. /\ r \in Seq(S)
      /\ Len(r) = IF n + 1 <= Len(s) THEN Len(s) - (n + 1) + 1 ELSE 0
      /\ \A a \in 1..(Len(s) - (n + 1) + 1) : r[a] = s[(n + 1) + a - 1]
  BY <1>1, SubSeqProperties
<1> HIDE DEF r
<1>3. Len(r) = Len(s) - n
  BY <1>1, <1>2
<1>4. \A a \in 1..Len(r) : r[a] = s[n + a]
  BY <1>1, <1>2, <1>3
<1> QED
  BY <1>2, <1>3, <1>4 DEF r

FailedIn(c) == {a \in 1..Len(c) : ~c[a].ok}

LEMMA FailedType ==
  ASSUME NEW S, NEW c \in Seq(S)
  PROVE  /\ IsFiniteSet(FailedIn(c))
         /\ Cardinality(FailedIn(c)) \in 0..Len(c)
<1>0. Len(c) \in Nat
  OBVIOUS
<1> DEFINE n == Len(c)
<1>1. IsFiniteSet(1..n) /\ Cardinality(1..n) = n
  <2> HIDE DEF n
  <2>1. n \in Nat
    BY <1>0 DEF n
  <2> QED
    BY <2>1, FS_Interval
<1>2. FailedIn(c) \in SUBSET (1..Len(c))
  BY DEF FailedIn
<1> QED
  BY <1>1, <1>2, FS_Subset, FS_CardinalityType

(* A completion is counted if it has failed.                               *)
LEMMA FailedAppend ==
  ASSUME NEW S, NEW c \in Seq(S), NEW e \in S
  PROVE  Cardinality(FailedIn(Append(c, e)))
           = Cardinality(FailedIn(c)) + (IF e.ok THEN 0 ELSE 1)
<1>. DEFINE t == Append(c, e)
            last == Len(c) + 1
<1>1. Len(t) = last /\ t[last] = e /\ \A a \in 1..Len(c) : t[a] = c[a]
  OBVIOUS
<1>2. IsFiniteSet(FailedIn(c)) /\ Cardinality(FailedIn(c)) \in Nat
  BY FailedType, FS_CardinalityType
<1>3. last \notin FailedIn(c)
  BY DEF FailedIn
<1>4. CASE e.ok
  <2>1. FailedIn(t) = FailedIn(c)
    BY <1>1, <1>4 DEF FailedIn
  <2> QED
    BY <1>2, <1>4, <2>1
<1>5. CASE ~e.ok
  <2>1. FailedIn(t) = FailedIn(c) \cup {last}
    BY <1>1, <1>5 DEF FailedIn
  <2>2. Cardinality(FailedIn(c) \cup {last}) = Cardinality(FailedIn(c)) + 1
    BY <1>2, <1>3, FS_AddElement
  <2> QED
    BY <1>5, <2>1, <2>2
<1> QED
  BY <1>4, <1>5
=============================================================================
