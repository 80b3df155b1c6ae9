SPECIFICATION MCSpec
CONSTANTS
  s1 = s1
  s2 = s2
  a1 = a1
  i1 = i1
  u1 = u1
  Session = {s1, s2}
  Account = {a1}
  NoAccount = NoAccount
  NoNumber = NoNumber
  Icon = {i1}
  NoIcon = NoIcon
  NoSession = NoSession
  Updater = {}
  MaxRecent = 1
  MaxPosts = 2
  MaxJoins = 1
  Attentive = {s1, s2}
  MaxHellos = 1
  MaxTold = 0
  MaxOthers = 1
INVARIANTS
  RoomAfterHello
PROPERTIES
  WrittenInOrder
  ImplementsRoom
SYMMETRY MCSessions
CHECK_DEADLOCK FALSE
