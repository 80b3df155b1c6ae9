SPECIFICATION FairSpec
CONSTANTS
  c1 = c1
  c2 = c2
  c3 = c3
  a1 = a1
  a2 = a2
  Client = {c1, c2, c3}
  Sender = {c1}
  Account = {a1, a2}
  NoAccount = NoAccount
  Room = Room
  AccountOf <- MCAccountOf
  Addressees = {Room, a2}
  BlockSize = 2
  Sizes = {0, 1, 2, 3}
INVARIANTS
  OnlyTheAddressed
PROPERTIES
  FileArrives
CHECK_DEADLOCK FALSE
