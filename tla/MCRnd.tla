------------------------------- MODULE MCRnd -------------------------------
(* The generator with a modulus of 7 bits, split after 4, and its smallest *)
(* primitive element; the jumps are the boundaries of rnd.h, the steps of  *)
(* row_stop that take some of them back, and the longest ones.  Decimal    *)
(* numbers have two words of two digits; the pairs of a start and a value  *)
(* of a stream are what is computed with.                                  *)
EXTENDS Rnd, Bcd

MCShifts == {-126, -63, -9, -7, -1, 0, 1, 3, 6, 7, 9, 63, 92, 126}

(* The digits hold the key of every row that a word can count: 14 digits   *)
(* against the 31 bits of a row.                                           *)
ASSUME WordsAssumption == 4 * Modulus + 32 <= Ten[NumDigits]

(* The decimal arithmetic of bcd2.c agrees with that of the numbers, for   *)
(* all pairs of numbers.                                                   *)
BcdExact == BcdExactOn(start, value)

(* The key of an order at a large scale keeps its block and its generation *)
(* when it is computed with digits (hd_sparse) and printed as two words.   *)
HugeKeys == HugeKeyOn(start, value % 4)
=============================================================================
