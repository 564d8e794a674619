SPECIFICATION Spec
CONSTANTS
  c1 = c1
  c2 = c2
  i1 = i1
  i2 = i2
  f1 = f1
  Columns = {c1, c2}
  FillLess = {}
  Values = {a}
  Fill = Fill
  Indexes = {}
  Owner <- OneOwner
  Foreign = {}
  Torn = Torn
  NoName = NoName
  MaxRows = 2
  MaxGen = 2
  Omission = TRUE
  Shrinking = TRUE
  Careful = TRUE
  Faults = {}
  ForeignTool = FALSE
INVARIANT OmittedReadsFill
