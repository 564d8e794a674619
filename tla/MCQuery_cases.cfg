SPECIFICATION Spec
CONSTANTS
  ChunkLen = 2
  NaN = NaN
  NoFill = NoFill
  CannotSay = CannotSay
  NoLabel = NoLabel
  Unread = Unread
  Enumerated = {2}
  Fills <- SomeFills
  Values <- Numbers
  Predicates <- AllParts
  Height <- Depths
  MaxHeight = 4
  Cases <- Plans
INVARIANTS AnswersTheQuestion IndexesAnswer QueryInv
