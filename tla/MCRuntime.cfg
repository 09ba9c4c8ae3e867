SPECIFICATION RuntimeSpec
CHECK_DEADLOCK FALSE
CONSTANTS
  k1 = k1
  k2 = k2
  k3 = k3
  v1 = v1
  b1 = b1
  b2 = b2
  b3 = b3
  None = None
  n1 = n1
  n2 = n2
  Nil = Nil
  NoKont = NoKont
  NoStack = NoStack
  Key = {k1, k2, k3}
  Value = {v1}
  Bucket = {b1, b2, b3}
  MinLen = 1
  MaxLen = 2
  LastGen = 1
  Name = {n1, n2}
  Symbol = {1, 2, 3}
  Hash <- TwoNames
  Lengths = {2, 4}
  FirstLength = 2
  MaxSize = 3
  Gensym = {1, 2, 3}
  Unique = {"u", "v"}
  Functions = {"f", "g"}
  Slots = {1}
  FrameWords <- OneAndTwo
  SegmentSize = 6
  Redline = 3
  MaxDepth = 3
  MaxCallouts = 2
  KontIds = {1, 2, 3, 4}
  AcrossC = FALSE
SYMMETRY Symmetry
INVARIANTS
  TableInvariant
  StackInvariant
  SymbolInvariant
  GensymInvariant
PROPERTIES
  ImplementsTable
  ImplementsControl
