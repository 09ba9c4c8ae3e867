SPECIFICATION ControlSpec
CHECK_DEADLOCK FALSE
CONSTANTS
  Main = Main
  x1 = x1
  x2 = x2
  x3 = x3
  y1 = y1
  y2 = y2
  None = None
  Coroutine = {Main, x1, x2, x3}
  Maximum = 1
  Winder = {x1, x2, x3}
  Cont = {y1, y2}
  MaxDepth = 4
  Uwp = {y1, y2}
  Ucc = {"c1", "c2"}
  Guard = {"g1"}
  Standard = {"k1"}
  HandlerOps = {"protect", "raise"}
  MaxFrames = 6
  mp_bits_per_limb = 5
  fx_shift = 2
  dropped_bits = 2
  OneLimb = {4, 5, 16, 31}
  LowLimbs = {0, 3, 31}
  MiddleLimbs = {0, 31}
  HighLimbs = {1, 16, 31}
  Offsets = {0, 1, 3, 4, 5, 6, 10, 11}
  Junk = {0, 7}
  FlonumLimbs = {1, 2}
SYMMETRY Symmetry
INVARIANTS
  OneContinuation
  WaitsOnlyWhenFull
  WindersInvariant
  UnwindInvariant
  AllHandlersCalled
  ResultsAreExact
  ResultsAreCanonical
PROPERTIES
  LeavesOnlyBlocked
  LeavesOnlyUncommon
  PlainEscapeCallsNone
  HandlersCalledOnce
