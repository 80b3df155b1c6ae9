SPECIFICATION MCSpec
CONSTANTS
  Keys <- MCKeys
  StringPieces <- MCPieces
  Characters <- MCCharacters
  BlockBytes <- MCBlockBytes
  Wide = 128
  Narrow = 8
  MaxOdd = 1
  MaxSymbols = 9
  MaxBytes = 4
  MaxDigits = 5
  MaxBlock = 4
INVARIANTS
  TextsAreRead
  StringsSurvive
  NumbersSurvive
  BlocksSurvive
  OwnLinesGoOn
  ServersGoOn
  RelayedAsSent
CHECK_DEADLOCK FALSE
