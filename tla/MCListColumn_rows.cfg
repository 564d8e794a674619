SPECIFICATION Spec
CONSTANTS
  a = a
  Depth = 2
  Nullable = {2}
  LeafFill = TRUE
  Entry <- Entries2
  Null = Null
  Fill = Fill
  MaxRows = 2
  MaxBatch = 2
  Faults = TRUE
INVARIANTS Conformant SliceReads ExportsCommitted ListInv
PROPERTY ImplementsTable
