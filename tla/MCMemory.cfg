SPECIFICATION MemorySpec
CHECK_DEADLOCK FALSE
CONSTANTS
  Object = {o1, o2}
  Guardian = {g1, g2}
  Reg = {r1, r2}
  Weakable = {o1, o2}
  LastGen = 2
  Nobody = Nobody
  o1 = o1
  o2 = o2
  g1 = g1
  g2 = g2
  r1 = r1
  r2 = r2
  p1 = p1
  p2 = p2
  OldPage = {p1, p2}
  CodePage = {p2}
  Referent = {o1, o2}
  Field = {"reloc"}
  Cards = 3
  LastCard = 1
  Immediate = Immediate
  LastPage = 7
  SegmentPages = 2
  CacheSlots = 2
  BlockSizes = {2}
  NurserySizes = {8, 12}
  Requests = {1, 2, 4, 5, 8, 12, 13, 14, 16}
  CollectRequest = 2
  HookAllocations = 6
SYMMETRY Symmetry
INVARIANTS
  GuardianInvariant
  CardInvariant
  PageInvariant
  NurseryInvariant
PROPERTIES
  GuardiansReturnTheDead
