--------------------------- MODULE OffsetsProofs ---------------------------
(***************************************************************************)
(* What the engines rely on when they compute offsets, for every file and  *)
(* buffer size, whether or not the one is a multiple of the other.         *)
(***************************************************************************)
EXTENDS Offsets, TLAPS

(* A sum with a multiple of m and a remainder has that remainder.          *)
LEMMA RemainderUnique ==
  ASSUME NEW m \in Nat \ {0}, NEW q \in Int, NEW r \in 0..(m - 1)
  PROVE  (m * q + r) % m = r
OBVIOUS

LEMMA Division ==
  ASSUME NEW m \in Nat \ {0}, NEW a \in Int
  PROVE  \E q \in Int, r \in 0..(m - 1) : a = m * q + r /\ (a % m) = r
<1>1. a = m * (a \div m) + (a % m) /\ (a % m) \in 0..(m - 1) /\ a \div m \in Int
  OBVIOUS
<1> QED
  BY <1>1

(* Taking the remainder before an addition or only after it is the same.   *)
LEMMA RemainderOfSum ==
  ASSUME NEW m \in Nat \ {0}, NEW a \in Int, NEW b \in Int
  PROVE  ((a % m) + b) % m = (a + b) % m
<1>1. PICK q \in Int, r \in 0..(m - 1) : a = m * q + r /\ (a % m) = r
  BY Division
<1>2. r + b \in Int
  OBVIOUS
<1>3. PICK p \in Int, s \in 0..(m - 1) : r + b = m * p + s /\ ((r + b) % m) = s
  BY <1>2, Division
<1>4. m * q \in Int /\ m * p \in Int /\ m * (q + p) = (m * q) + (m * p)
  OBVIOUS
<1>5. a + b = m * (q + p) + s
  BY <1>1, <1>3, <1>4
<1>6. (m * (q + p) + s) % m = s
  BY RemainderUnique
<1> QED
  BY <1>1, <1>3, <1>5, <1>6

(* An offset is in the file; so it is never -1, the offset that makes the  *)
(* message-rate handler stop.                                              *)
THEOREM OffsetInFile ==
  ASSUME NEW maxOffset \in Nat \ {0}, NEW initialOffset \in Nat,
         NEW buffer_size \in Nat, NEW iteration \in Nat
  PROVE  getOffset(maxOffset, initialOffset, buffer_size, iteration) \in 0..(maxOffset - 1)
<1>1. initialOffset + iteration * buffer_size \in Nat
  OBVIOUS
<1> QED
  BY <1>1 DEF getOffset

(* Going on by some blocks from where an operation was is going on by as   *)
(* many iterations, over the end of the file too.                          *)
THEOREM OffsetAdvances ==
  ASSUME NEW maxOffset \in Nat \ {0}, NEW initialOffset \in Nat,
         NEW buffer_size \in Nat, NEW iteration \in Nat, NEW blocks \in Nat
  PROVE  getOffset(maxOffset, getOffset(maxOffset, initialOffset, buffer_size, iteration),
                   buffer_size, blocks)
           = getOffset(maxOffset, initialOffset, buffer_size, iteration + blocks)
<1>. DEFINE start == initialOffset + iteration * buffer_size
            bytes == blocks * buffer_size
<1>1. /\ iteration * buffer_size \in Nat /\ bytes \in Nat
      /\ (iteration + blocks) * buffer_size = (iteration * buffer_size) + bytes
  OBVIOUS
<1>2. /\ start \in Int /\ bytes \in Int
      /\ start + bytes = initialOffset + (iteration + blocks) * buffer_size
  BY <1>1
<1>3. ((start % maxOffset) + bytes) % maxOffset = (start + bytes) % maxOffset
  <2> HIDE DEF start, bytes
  <2> QED
    BY <1>2, RemainderOfSum
<1> QED
  BY <1>2, <1>3 DEF getOffset

-----------------------------------------------------------------------------
(* A number below the modulus is its own remainder.                        *)
LEMMA RemainderOfSmall ==
  ASSUME NEW m \in Nat \ {0}, NEW a \in 0..(m - 1)
  PROVE  a % m = a
OBVIOUS

(* getOffset in words gives what the modules compute with, for a file and  *)
(* for a device without a size, until the sum reaches the largest signed   *)
(* number.                                                                 *)
THEOREM OffsetFitsWord ==
  ASSUME NEW W \in Nat, NEW maxOffset \in Int, NEW initialOffset \in Nat,
         NEW buffer_size \in Nat, NEW iteration \in Nat,
         W > 2, maxOffset = NoSize \/ (maxOffset > 0 /\ 2 * maxOffset <= W),
         2 * (initialOffset + iteration * buffer_size) < W
  PROVE  OffsetInWords(W, maxOffset, initialOffset, buffer_size, iteration)
           = OffsetOn(maxOffset, initialOffset, buffer_size, iteration)
<1>. DEFINE sum == initialOffset + iteration * buffer_size
<1>1. sum \in Nat /\ 2 * sum < W
  OBVIOUS
<1>. SUFFICES Signed(W, (sum % W) % (maxOffset % W))
               = IF maxOffset = NoSize THEN sum ELSE sum % maxOffset
  BY DEF OffsetInWords, OffsetOn, getOffset
<1>. HIDE DEF sum
<1>2. sum % W = sum
  BY <1>1, RemainderOfSmall
<1>3. CASE maxOffset = NoSize
  <2>1. maxOffset % W = W - 1
    <3>1. maxOffset = W * (-1) + (W - 1) /\ W - 1 \in 0..(W - 1)
      BY <1>3 DEF NoSize
    <3> QED
      BY <3>1, RemainderUnique
  <2>2. sum % (W - 1) = sum
    <3>1. W - 1 \in Nat \ {0} /\ sum \in 0..((W - 1) - 1)
      BY <1>1
    <3> QED
      BY <3>1, RemainderOfSmall
  <2> QED
    BY <1>1, <1>2, <1>3, <2>1, <2>2 DEF Signed
<1>4. CASE maxOffset > 0 /\ 2 * maxOffset <= W
  <2>1. maxOffset % W = maxOffset
    BY <1>4, RemainderOfSmall
  <2>2. sum % maxOffset \in 0..(maxOffset - 1)
    BY <1>1, <1>4
  <2>3. 2 * (sum % maxOffset) < W /\ maxOffset # NoSize
    BY <1>4, <2>2 DEF NoSize
  <2> QED
    BY <1>2, <2>1, <2>3 DEF Signed
<1> QED
  BY <1>3, <1>4

(* Whatever wraps, no offset is -1, the one that makes the message-rate    *)
(* handler stop: the remainder by an unsigned number is below it.          *)
THEOREM OffsetIsNoSentinel ==
  ASSUME NEW W \in Nat, NEW maxOffset \in Int, NEW initialOffset \in Int,
         NEW buffer_size \in Nat, NEW iteration \in Nat,
         W > 1, maxOffset # 0, -W < maxOffset, maxOffset < W
  PROVE  OffsetInWords(W, maxOffset, initialOffset, buffer_size, iteration) # -1
<1>. DEFINE sum == initialOffset + iteration * buffer_size
            modulus == maxOffset % W
<1>1. sum % W \in Nat
  <2>1. sum \in Int
    OBVIOUS
  <2> HIDE DEF sum
  <2> QED
    BY <2>1
<1>2. modulus \in 1..(W - 1)
  <2>1. CASE maxOffset > 0
    BY <2>1, RemainderOfSmall
  <2>2. CASE maxOffset < 0
    <3>1. maxOffset = W * (-1) + (maxOffset + W) /\ maxOffset + W \in 0..(W - 1)
      BY <2>2
    <3> QED
      BY <2>2, <3>1, RemainderUnique
  <2> QED
    BY <2>1, <2>2
<1>. SUFFICES Signed(W, (sum % W) % modulus) # -1
  BY DEF OffsetInWords
<1>3. (sum % W) % modulus \in 0..(modulus - 1)
  <2> HIDE DEF sum, modulus
  <2> QED
    BY <1>1, <1>2
<1> HIDE DEF sum, modulus
<1> QED
  BY <1>2, <1>3 DEF Signed
-----------------------------------------------------------------------------
(* Multiples, for transfers that are whole. *)
MultipleOf(x, b) == \E k \in Nat : x = k * b

LEMMA MultipleSum ==
  ASSUME NEW b \in Nat, NEW x, NEW y, MultipleOf(x, b), MultipleOf(y, b)
  PROVE  MultipleOf(x + y, b)
<1>1. PICK k \in Nat : x = k * b
  BY DEF MultipleOf
<1>2. PICK l \in Nat : y = l * b
  BY DEF MultipleOf
<1>3. k + l \in Nat /\ x + y = (k + l) * b
  BY <1>1, <1>2
<1> QED
  BY <1>3 DEF MultipleOf

LEMMA MultipleTimes ==
  ASSUME NEW b \in Nat, NEW x, NEW n \in Nat, MultipleOf(x, b)
  PROVE  MultipleOf(x * n, b)
<1>1. PICK k \in Nat : x = k * b
  BY DEF MultipleOf
<1>2. k * n \in Nat /\ x * n = (k * n) * b
  BY <1>1
<1> QED
  BY <1>2 DEF MultipleOf

LEMMA NoRemainder ==
  ASSUME NEW b \in Nat \ {0}, NEW x \in Nat, x % b = 0
  PROVE  MultipleOf(x, b)
<1>1. PICK q \in Int, r \in 0..(b - 1) : x = b * q + r /\ x % b = r
  BY Division
<1>2. x = b * q
  BY <1>1
<1>3. q >= 0
  BY <1>2
<1>4. q \in Nat /\ x = q * b
  BY <1>2, <1>3
<1> QED
  BY <1>4 DEF MultipleOf

(* A factor of a number that is not negative is not, if the other is not.  *)
LEMMA FactorIsNatural ==
  ASSUME NEW b \in Nat \ {0}, NEW k \in Int, k * b >= 0
  PROVE  k \in Nat
<1>1. k < 0 => k * b < 0
  OBVIOUS
<1> QED
  BY <1>1

LEMMA MultipleRemainder ==
  ASSUME NEW b \in Nat \ {0}, NEW m \in Nat \ {0}, NEW x \in Nat,
         MultipleOf(m, b), MultipleOf(x, b)
  PROVE  MultipleOf(x % m, b)
<1>0. x \in Int
  OBVIOUS
<1>1. PICK q \in Int, r \in 0..(m - 1) : x = m * q + r /\ (x % m) = r
  BY <1>0, Division
<1>2. PICK j \in Nat : m = j * b
  BY DEF MultipleOf
<1>3. PICK k \in Nat : x = k * b
  BY DEF MultipleOf
<1>4. m * q = (j * q) * b /\ j * q \in Int
  BY <1>2
<1>5. r = (k - j * q) * b /\ k - j * q \in Int
  BY <1>1, <1>3, <1>4
<1>6. k - j * q \in Nat
  BY <1>1, <1>5, FactorIsNatural
<1> QED
  BY <1>1, <1>5, <1>6 DEF MultipleOf

(* Between a multiple and a larger one there is room for one block. *)
LEMMA RoomBelow ==
  ASSUME NEW b \in Nat \ {0}, NEW m \in Nat, NEW x \in Nat,
         MultipleOf(m, b), MultipleOf(x, b), x < m
  PROVE  x + b <= m
<1>1. PICK j \in Nat : m = j * b
  BY DEF MultipleOf
<1>2. PICK k \in Nat : x = k * b
  BY DEF MultipleOf
<1>3. j <= k => j * b <= k * b
  <2> SUFFICES ASSUME j <= k PROVE j * b <= k * b
    OBVIOUS
  <2>1. k - j \in Nat /\ (k - j) * b \in Nat
    OBVIOUS
  <2>2. k * b = j * b + (k - j) * b
    OBVIOUS
  <2> QED
    BY <2>1, <2>2
<1>4. k < j
  BY <1>1, <1>2, <1>3
<1>5. (j - k - 1) * b \in Nat
  BY <1>4
<1>6. j * b = k * b + b + (j - k - 1) * b
  OBVIOUS
<1> QED
  BY <1>1, <1>2, <1>5, <1>6

LEMMA MultipleOfOne ==
  ASSUME NEW n \in Nat
  PROVE  MultipleOf(n, 1)
<1>1. n = n * 1
  OBVIOUS
<1> QED
  BY <1>1 DEF MultipleOf

(* On a file of whole operations, of some blocks each, and from a base of  *)
(* whole operations: what is a number of them further on is at the         *)
(* beginning of one, and all of it is in the file.                         *)
LEMMA OffsetOfWhole ==
  ASSUME NEW maxOffset \in Nat \ {0}, NEW initialOffset \in Nat,
         NEW buffer_size \in Nat, NEW iteration \in Nat, NEW blocks \in Nat,
         blocks * buffer_size > 0,
         MultipleOf(maxOffset, blocks * buffer_size),
         MultipleOf(initialOffset, blocks * buffer_size),
         MultipleOf(iteration, blocks)
  PROVE  /\ MultipleOf(getOffset(maxOffset, initialOffset, buffer_size, iteration),
                       blocks * buffer_size)
         /\ getOffset(maxOffset, initialOffset, buffer_size, iteration)
              + blocks * buffer_size <= maxOffset
<1>. DEFINE bytes == blocks * buffer_size
            further == iteration * buffer_size
<1>1. bytes \in Nat \ {0} /\ further \in Nat
  OBVIOUS
<1>2. MultipleOf(further, bytes)
  <2>1. PICK k \in Nat : iteration = k * blocks
    BY DEF MultipleOf
  <2>2. iteration * buffer_size = k * (blocks * buffer_size)
    BY <2>1
  <2> QED
    BY <2>2 DEF MultipleOf
<1>3. MultipleOf(maxOffset, bytes) /\ MultipleOf(initialOffset, bytes)
  OBVIOUS
<1>. SUFFICES /\ MultipleOf((initialOffset + further) % maxOffset, bytes)
              /\ ((initialOffset + further) % maxOffset) + bytes <= maxOffset
  BY DEF getOffset
<1>. HIDE DEF bytes, further
<1>4. MultipleOf(initialOffset + further, bytes) /\ initialOffset + further \in Nat
  <2>1. bytes \in Nat /\ initialOffset + further \in Nat
    BY <1>1
  <2>2. MultipleOf(initialOffset + further, bytes)
    BY <1>2, <1>3, <2>1, MultipleSum
  <2> QED
    BY <2>1, <2>2
<1>5. MultipleOf((initialOffset + further) % maxOffset, bytes)
  BY <1>1, <1>3, <1>4, MultipleRemainder
<1>6. /\ (initialOffset + further) % maxOffset \in Nat
      /\ (initialOffset + further) % maxOffset < maxOffset
  BY <1>4
<1> QED
  BY <1>1, <1>3, <1>5, <1>6, RoomBelow
=============================================================================
