SPECIFICATION Spec
CONSTANTS
  c1 = c1
  c2 = c2
  i1 = i1
  i2 = i2
  f1 = f1
  Columns = {c1}
  FillLess = {}
  Values = {a}
  Fill = Fill
  Indexes = {i1, i2, f1}
  Owner <- OneOwner
  Foreign = {f1}
  Torn = Torn
  NoName = NoName
  MaxRows = 1
  MaxGen = 3
  Omission = TRUE
  Shrinking = TRUE
  Careful = TRUE
  Faults = {"raise", "kill"}
  ForeignTool = TRUE
SYMMETRY IndexSymmetry
INVARIANTS TypeOK IInv IndexTruth Restored Disabled TokensBounded
