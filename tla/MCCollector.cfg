SPECIFICATION MCSpec
CHECK_DEADLOCK FALSE
CONSTANTS
  N = 3
  MaxMutations = 5
  MaxCollections = 3
  MaxTogether = 7
  Page = {1, 2, 3, 4, 5, 6}
  Root = {r1, r2}
  Slot = {"car"}
  Kind = {"pair", "weak", "big"}
  LastGen = 2
  Immediate = Immediate
  BWP = BWP
  Null = Null
  Placement <- TwinPages
SYMMETRY Symmetry
INVARIANTS
  NoDangling
  RememberedSet
  FullCollectionPrecise
  WholeInv
