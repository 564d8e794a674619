SPECIFICATION Spec
CONSTANTS
  num = num
  cat = cat
  lst = lst
  flag = flag
  Names = {num, cat, lst, flag}
  Kind <- FourKinds
  Annotated = {num}
  Layouts <- TwoLayouts
  MaxRows = 2
  Faults = {"raise", "kill"}
INVARIANTS ReturnsValid NoTableLeft NamesKept SchemaInv
