SPECIFICATION Spec
CONSTANTS
  c1 = c1
  c2 = c2
  Columns = {c1}
  Cells = {1, 2, NaN}
  Fills = {2, NaN}
  NaN = NaN
  NoFill = NoFill
  CannotSay = CannotSay
  None = None
  NoName = NoName
  Zero = Zero
  Raises = Raises
  Plants <- Ways
  Questions <- Asked
  ChunkLen = 2
  Bits = 2
  Endless = 9
  MaxRows = 3
  StartRows = 2
  MaxGen = 2
  MaxIndexes = 1
INVARIANTS Accepted DeepMeansRight DeadBuilderHarmless FileInv
PROPERTY StampedPasses
