SPECIFICATION MCFairSpec
CONSTANTS
  s1 = s1
  s2 = s2
  a1 = a1
  i1 = i1
  u1 = u1
  Session = {s1, s2}
  Account = {a1}
  NoAccount = NoAccount
  NoNumber = NoNumber
  Icon = {i1}
  NoIcon = NoIcon
  NoSession = NoSession
  Updater = {}
  MaxRecent = 1
  MaxPosts = 0
  MaxJoins = 2
  Attentive = {s2}
  MaxHellos = 2
  MaxTold = 4
  MaxOthers = 0
INVARIANTS
  NoGhostMember
PROPERTIES
  TheGoneLeave
  OfflineAnnounced
  QueuesDrain
CHECK_DEADLOCK FALSE
