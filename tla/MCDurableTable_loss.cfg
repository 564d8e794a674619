SPECIFICATION DurableSpec
CONSTANTS
  c1 = c1
  c2 = c2
  i1 = i1
  i2 = i2
  f1 = f1
  Columns = {c1}
  FillLess = {}
  Values = {a}
  Fill = Fill
  Indexes = {i1}
  Owner <- OneOwner
  Foreign = {}
  Torn = Torn
  NoName = NoName
  MaxRows = 2
  MaxGen = 3
  Omission = FALSE
  Shrinking = TRUE
  Careful = TRUE
  Faults = {"raise"}
  ForeignTool = FALSE
  IndexCalls = {"maintain"}
  PreBuilt = {i1}
  MaxLosses = 1
INVARIANTS OnlyWindow RowsCovered DurableInv
PROPERTY LossKeepsCommit
