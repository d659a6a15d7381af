-------------------------------- MODULE Rnd --------------------------------
(***************************************************************************)
(* The random number streams of ssb-dbgen (rnd.c, speed_seed.c without     *)
(* SUPPORT_64BITS): NextRand draws the next value of a stream, NthElement  *)
(* jumps over n draws, forwards or backwards.  The widths of the program   *)
(* (a modulus of 31 bits split after 16) are parameters.                   *)
(***************************************************************************)
EXTENDS Integers

CONSTANTS Bits,     \* 31: the modulus is 2^31 - 1
          LowBits,  \* 16: the bits of nB that RND_ModMult multiplies first
          nA,       \* 16807, the multiplier
          Shifts    \* bound: the jumps that are tried

(* The word in which only bit k is set. *)
Mask[k \in 0..Bits] == IF k = 0 THEN 1 ELSE 2 * Mask[k - 1]

Modulus == Mask[Bits] - 1
Period == Modulus - 1

(* nA is small enough for NextRand's products not to overflow. *)
ASSUME WidthAssumption ==
  /\ Bits \in Nat /\ LowBits \in 1..Bits
  /\ nA \in 2..(Modulus - 1) /\ Modulus % nA < Modulus \div nA
  /\ Shifts \subseteq (1 - Modulus)..(Modulus - 1)

nQ == Modulus \div nA
nR == Modulus % nA

(* nA^k modulo Modulus by k multiplications. *)
Power[k \in 0..Period] == IF k = 0 THEN 1 ELSE (nA * Power[k - 1]) % Modulus

(* rnd.c: "nM is prime and nA is a primitive element of the range 1..nM-1". *)
ASSUME PrimeAssumption == \A a, b \in 1..(Modulus - 1) : (a * b) % Modulus # 0
ASSUME PrimitiveAssumption == Power[Period] = 1 /\ \A k \in 1..(Period - 1) : Power[k] # 1

-----------------------------------------------------------------------------
NextRand_no_wrap(nSeed) == nA * (nSeed % nQ) - (nSeed \div nQ) * nR

NextRand(nSeed) ==
  LET next == nA * (nSeed % nQ) - (nSeed \div nQ) * nR
  IN IF next < 0 THEN next + Modulus ELSE next

(* The bit that RND_ModMult carries out of a word. *)
Carry(q) == (q \div Mask[Bits]) % 2

RND_ModMult_no_carry(a, b) ==
  LET al == a * (b % Mask[LowBits])
      ah == a * (b \div Mask[LowBits])
      q == (al % Mask[Bits]) + (ah % Mask[Bits - LowBits]) * Mask[LowBits]
  IN ((ah \div Mask[Bits - LowBits]) + (al \div Mask[Bits]) + q) % Mask[Bits]

(* The halves of b are multiplied apart; 2^Bits is 1 modulo Modulus, so    *)
(* that what exceeds a word is added to it.                                *)
RND_ModMult(a, b) ==
  LET al == a * (b % Mask[LowBits])
      ah == a * (b \div Mask[LowBits])
      q == (al % Mask[Bits]) + (ah % Mask[Bits - LowBits]) * Mask[LowBits]
      p == (ah \div Mask[Bits - LowBits]) + (al \div Mask[Bits]) + Carry(q)
      r == p + (q - Carry(q) * Mask[Bits])
  IN r - Carry(r) * Mask[Bits] + Carry(r)

(* A jump back by n is one forward by the rest of the period. *)
Forward_off_by_one(Order) == IF Order < 0 THEN Modulus + Order ELSE Order
Forward(Order) == IF Order < 0 THEN Modulus - 1 + Order ELSE Order

(* nA to the power Order: square and multiply from the highest bit down. *)
RND_seed(Order) ==
  LET n == Forward(Order)
      result[k \in 0..Bits] ==
        IF Mask[k] > n THEN 1
        ELSE LET half == result[k + 1]
                 square == RND_ModMult(half, half)
             IN IF (n \div Mask[k]) % 2 = 1 THEN RND_ModMult(square, nA) ELSE square
  IN result[0]

NthElement(Shift, Seed) == RND_ModMult(Seed, RND_seed(Shift))

-----------------------------------------------------------------------------
(* A stream: where it started, how far it is along its period, its value. *)
VARIABLES start, at, value
vars == <<start, at, value>>

Init == start \in 1..(Modulus - 1) /\ at = 0 /\ value = start

(* UnifInt *)
Draw == at' = (at + 1) % Period /\ value' = NextRand(value) /\ UNCHANGED start
(* ADVANCE_STREAM, and the rounding of row_stop *)
Advance(n) == at' = (at + n) % Period /\ value' = NthElement(n, value) /\ UNCHANGED start

Next == Draw \/ \E n \in Shifts : Advance(n)
Spec == Init /\ [][Next]_vars

-----------------------------------------------------------------------------
(* However draws and jumps are mixed, a stream has the value it would have *)
(* had after as many plain draws: a jump forwards or backwards lands where *)
(* the draws it stands for lead.                                           *)
Positioned == value = (start * Power[at]) % Modulus

(* rnd.c: the map "runs through all elements of 1..nM-1 before repeating.  *)
(* It never hits 0 or nM": a stream comes back to its start only after a   *)
(* whole period.                                                           *)
FullPeriod == value \in 1..(Modulus - 1) /\ (value = start => at = 0)

(* RND_ModMult is the product modulo Modulus of any two values of streams. *)
ModMultIsProduct == RND_ModMult(value, start) = (value * start) % Modulus
=============================================================================
