SPECIFICATION Spec
CONSTANTS
  Sources <- AllSources
  Domain <- Datatypes
  FloatFill = 7
  Nul <- nul
  Wide <- w
  a = a
  w = w
  nul = nul
  BadNames = {"a/b"}
  ReservedNames = {"NROWS"}
  ReservedKeys = {"CLASS", "units"}
  Null = Null
  NaN = NaN
  NoFill = NoFill
  NoTable = NoTable
  FillSuggestions = 2
  MaxCopies = 2
  Chars <- Characters
  MaxLevels = 2
INVARIANTS ValuesKept RefusedUntouched ImportsAgain FixedPoint SuggestionHolds ArrowInv
