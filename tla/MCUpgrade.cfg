SPECIFICATION FairSpec
CONSTANTS
  r1 = r1
  r2 = r2
  Release = {r1, r2}
  BlockSize = 3
  ClientVersion = 1
  ServerVersion = 2
  MaxSize = 9
  MaxInstalls = 1
INVARIANTS
  NothingLostOnTheWay
  AsksForWhatThereIs
  UntouchedArrivesWhole
  SuccessIsOnePackage
PROPERTIES
  UpgradeEnds
CHECK_DEADLOCK FALSE
