-------------------------------- MODULE Keys --------------------------------
(***************************************************************************)
(* The keys of the orders: of every 32 keys 8 are used by one generation   *)
(* of rows.  Without SUPPORT_64BITS, which config.h does not define for    *)
(* this build, large scales have a routine of their own (Bcd.tla has its   *)
(* digits); it takes the low bits from the last decimal digit of the row,  *)
(* so that rows 8 and 10 have the same key.                                *)
(***************************************************************************)
EXTENDS Integers

MAX_32B_SCALE == 1000

ez_sparse(row, seq) == ((row \div 8) * 4 + seq) * 8 + (row % 8)
hd_sparse(row, seq) == ((row \div 8) * 4 + seq) * 8 + ((row % 10) % 8)

mk_sparse(row, seq, scale) == IF scale < MAX_32B_SCALE THEN ez_sparse(row, seq) ELSE hd_sparse(row, seq)
=============================================================================
