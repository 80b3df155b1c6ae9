SPECIFICATION MCSpec
CONSTANTS
  s1 = s1
  a1 = a1
  a2 = a2
  i1 = i1
  i2 = i2
  u1 = u1
  u2 = u2
  Session = {s1}
  Account = {a1, a2}
  NoAccount = NoAccount
  NoNumber = NoNumber
  Icon = {i1, i2}
  NoIcon = NoIcon
  NoSession = NoSession
  Updater = {u1, u2}
  MaxRecent = 2
  MaxPosts = 3
  MaxJoins = 1
INVARIANTS
  NoForgery
  NothingLostBeforeLimit
  NeverAheadOfSlot
  ThrowsOnlyPastLimit
  ScannedPrefixRewritten
  IconsSettle
PROPERTIES
  OnlyLateWritesDamage
  UpdatesEnd
CHECK_DEADLOCK FALSE
