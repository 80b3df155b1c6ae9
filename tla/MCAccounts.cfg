SPECIFICATION Spec
CONSTANTS
  p1 = p1
  p2 = p2
  c1 = c1
  c2 = c2
  FirstId = 5
  Limit = 2
  Password = {p1, p2, NoPassword}
  NoPassword = NoPassword
  Code = {c1, c2}
  NoCode = NoCode
  Shipped = 1
  ShippedTimes = 1
  MaxUsers = 5
  MaxLapses = 2
INVARIANTS
  NumberNotTaken
  CodeLimited
  PasswordsKept
SYMMETRY MCSymmetry
