SPECIFICATION Spec
CONSTANTS
  c1 = c1
  c2 = c2
  c3 = c3
  a1 = a1
  a2 = a2
  Client = {c1, c2, c3}
  Sender = {c1, c2}
  Account = {a1}
  NoAccount = NoAccount
  Room = Room
  AccountOf <- OneAccount
  Addressees = {Room}
  BlockSize = 2
  Sizes = {1, 3}
INVARIANTS
  RelayTypeOK
  PiecesStayWhole
  OneSenderWholeFile
SYMMETRY MCSenders
CHECK_DEADLOCK FALSE
