CONSTANTS
  Bits = 7
  LowBits = 4
  nA = 3
  Shifts <- MCShifts
  DIGITS_PER_LONG = 2
SPECIFICATION Spec
INVARIANTS Positioned FullPeriod ModMultIsProduct BcdExact HugeKeys
