SPECIFICATION NamedSpec
CONSTANTS
  N = 2
  Obj = {11, 12, 13}
  Page = {1, 2, 3, 4}
  Root = {r1, r2}
  Slot = {"car"}
  Kind = {"pair", "weak"}
  LastGen = 2
  Immediate = Immediate
  BWP = BWP
  Null = Null
  Placement <- TwinPages
SYMMETRY Symmetry
PROPERTY ImplementsHeap
