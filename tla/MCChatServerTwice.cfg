SPECIFICATION MCTwiceSpec
CONSTANTS
  s1 = s1
  s2 = s2
  a1 = a1
  i1 = i1
  u1 = u1
  Session = {s1, s2}
  Account = {a1}
  NoAccount = NoAccount
  NoNumber = NoNumber
  Icon = {i1}
  NoIcon = NoIcon
  NoSession = NoSession
  Updater = {u1}
  MaxRecent = 1
  MaxPosts = 2
  MaxJoins = 2
  Attentive = {s1, s2}
  MaxHellos = 2
  MaxTold = 0
  MaxOthers = 0
PROPERTIES
  RoomSteps
CHECK_DEADLOCK FALSE
