SPECIFICATION NumbersSpec
CHECK_DEADLOCK FALSE
CONSTANTS
  mp_bits_per_limb = 5
  fx_shift = 2
  dropped_bits = 2
  Offsets = {0, 1, 3, 4, 5, 6, 10, 11}
  Junk = {0, 7}
  FlonumLimbs = {1, 2}
  OneLimb = {4, 5, 16, 31}
  LowLimbs = {0, 3, 31}
  MiddleLimbs = {0, 31}
  HighLimbs = {1, 16, 31}
INVARIANT SumsAreExact
