-------------------------------- MODULE Bcd ---------------------------------
(***************************************************************************)
(* Order keys at scale 1000 and more, where ssb-dbgen (without             *)
(* SUPPORT_64BITS) computes with decimal digits: bcd2.c, hd_sparse and the *)
(* text that print.c makes of a key.  A number is the function of its      *)
(* digits, the lowest is digit 0; two words have DIGITS_PER_LONG each.     *)
(***************************************************************************)
EXTENDS Integers

CONSTANT DIGITS_PER_LONG  \* 7

ASSUME DigitsAssumption == DIGITS_PER_LONG \in Nat \ {0}

NumDigits == 2 * DIGITS_PER_LONG
Digit == 0..(NumDigits - 1)

(* The weight of a digit; the one past the last, WORD_DIVISOR squared. *)
Ten[k \in 0..NumDigits] == IF k = 0 THEN 1 ELSE 10 * Ten[k - 1]

bin_bcd2(binary) == [d \in Digit |-> (binary \div Ten[d]) % 10]

(* The value of the digits from `low' up to the end of their word. *)
bcd2_bin(bcd, low) ==
  LET dest[k \in 0..DIGITS_PER_LONG] ==
        IF k = 0 THEN 0 ELSE dest[k - 1] * 10 + bcd[low + DIGITS_PER_LONG - k]
  IN dest[DIGITS_PER_LONG]

bcd2_add_no_carry(bcd, addend) == [d \in Digit |-> (bcd[d] + bin_bcd2(addend)[d]) % 10]
bcd2_add(bcd, addend) ==
  LET tmp == bin_bcd2(addend)
      carry[d \in 0..NumDigits] ==
        IF d = 0 THEN 0 ELSE (bcd[d - 1] + tmp[d - 1] + carry[d - 1]) \div 10
  IN [d \in Digit |-> (bcd[d] + tmp[d] + carry[d]) % 10]

(* One digit m1 of the multiplier, ldigit places up: added to acc. *)
multiply_digit(acc, tmp, m1, ldigit) ==
  LET sum(udigit, carry) == m1 * tmp[udigit] + carry + (IF udigit + ldigit \in Digit THEN acc[udigit + ldigit] ELSE 0)
      carry[u \in 0..NumDigits] == IF u = 0 THEN 0 ELSE sum(u - 1, carry[u - 1]) \div 10
  IN [d \in Digit |-> IF d < ldigit THEN acc[d] ELSE sum(d - ldigit, carry[d - ldigit]) % 10]

bcd2_mul(bcd, multiplier) ==
  LET m == bin_bcd2(multiplier)
      acc[l \in 0..NumDigits] ==
        IF l = 0 THEN bin_bcd2(0) ELSE multiply_digit(acc[l - 1], bcd, m[l - 1], l - 1)
  IN acc[NumDigits]

(* From the highest digit down, with what the digits above leave over. *)
bcd2_div(bcd, divisor) ==
  LET carry[d \in 0..NumDigits] ==
        IF d = NumDigits THEN 0 ELSE (bcd[d] + 10 * carry[d + 1]) % divisor
  IN [d \in Digit |-> (bcd[d] + 10 * carry[d + 1]) \div divisor]

-----------------------------------------------------------------------------
SPARSE_KEEP == 3
SPARSE_BITS == 2

(* `*base & low_mask' are the low bits of the lowest digit, not of the row. *)
hd_sparse(row, seq) ==
  LET base == bin_bcd2(row)
      group == bcd2_mul(bcd2_div(base, 2^SPARSE_KEEP), 2^SPARSE_BITS)
      res == bcd2_add(bcd2_mul(bcd2_add(group, seq), 2^SPARSE_KEEP), base[0] % 2^SPARSE_KEEP)
  IN <<bcd2_bin(res, 0), bcd2_bin(res, DIGITS_PER_LONG)>>

(* dbg_print, DT_HUGE: the number that is read off "%ld" or "%ld%07ld". *)
PR_HUGE_unpadded(ok) ==
  LET width == CHOOSE w \in 1..DIGITS_PER_LONG : Ten[w] > ok[1] /\ (w = 1 \/ Ten[w - 1] <= ok[1])
  IN IF ok[2] = 0 THEN ok[1] ELSE ok[2] * Ten[width] + ok[1]
PR_HUGE(ok) == IF ok[2] = 0 THEN ok[1] ELSE ok[2] * Ten[DIGITS_PER_LONG] + ok[1]

-----------------------------------------------------------------------------
Number(bcd) == bcd2_bin(bcd, DIGITS_PER_LONG) * Ten[DIGITS_PER_LONG] + bcd2_bin(bcd, 0)

(* The digits of sum, product and quotient of a and b are those of the     *)
(* numbers, across the border between the words.                           *)
BcdExactOn(a, b) ==
  /\ Number(bcd2_add(bin_bcd2(a), b)) = a + b
  /\ Number(bcd2_mul(bin_bcd2(a), b)) = (a * b) % Ten[NumDigits]
  /\ Number(bcd2_div(bin_bcd2(a), b)) = a \div b

(* The printed key of a row lies in the block of 32 of its eight rows, and *)
(* in the eight of its generation; which of the eight it is may be that of *)
(* another row (rows 8 and 10 have the same key).                          *)
HugeKeyOn(row, seq) == PR_HUGE(hd_sparse(row, seq)) \div 8 = (row \div 8) * 4 + seq
=============================================================================
