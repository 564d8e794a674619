SPECIFICATION Spec
CONSTANTS
  Columns <- SomeColumns
  Labels <- TwoLabels
  Given <- Batches
  Keys <- AllKeys
  None = None
  NoFill = NoFill
  Error = Error
  x = x
  y = y
  z = z
  MaxRows = 5
INVARIANTS ReadsBack FetchesOnlyWanted ReadsInv
