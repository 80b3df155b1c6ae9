SPECIFICATION MCSpec
CONSTANTS
  Keys <- MCKeys
  StringPieces <- MCPieces
  Characters <- MCCharacters
  BlockBytes <- MCBlockBytes
  Wide = 128
  Narrow = 8
  MaxOdd = 1
  MaxSymbols = 1
  MaxBytes = 1
  MaxDigits = 1
  MaxBlock = 1
INVARIANT NothingElseCut
CHECK_DEADLOCK FALSE
