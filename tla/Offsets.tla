------------------------------ MODULE Offsets ------------------------------
(***************************************************************************)
(* Where in the file the operations of a benchmark thread go: getOffset of *)
(* src/src/helper.cpp.  iteration is the number of blocks submitted before *)
(* in sequential mode, what rand() returns in random mode.                 *)
(***************************************************************************)
EXTENDS Integers

(* For a file with a size, as long as the sum stays below 2^64. *)
getOffset(maxOffset, initialOffset, buffer_size, iteration) ==
  (initialOffset + iteration * buffer_size) % maxOffset

(* The size of a character device is -1.  As the unsigned number it is     *)
(* converted to, it leaves every sum but the largest alone.                *)
NoSize == -1

OffsetOn(maxOffset, initialOffset, buffer_size, iteration) ==
  IF maxOffset = NoSize THEN initialOffset + iteration * buffer_size
  ELSE getOffset(maxOffset, initialOffset, buffer_size, iteration)

-----------------------------------------------------------------------------
(* The same in words of W values, W = 2^64 in the code: buffer_size is     *)
(* unsigned, so the sum and maxOffset are, and the result is signed again. *)
Signed(W, n) == IF 2 * n < W THEN n ELSE n - W

OffsetInWords(W, maxOffset, initialOffset, buffer_size, iteration) ==
  Signed(W, ((initialOffset + iteration * buffer_size) % W) % (maxOffset % W))
=============================================================================
