SPECIFICATION Spec
CONSTANTS
  a = a
  b = b
  u = u
  Item = {a, b}
  UrlOf <- SameUrl
  FromPage = {a}
  NoItem = NoItem
  Routes = 2
  MaxClicks = 1
  MaxLate = 1
  MaxSleeps = 1
  MaxTurns = 1
INVARIANTS  MovedOnlyWhenTaken NotSentAgain
PROPERTIES  TransferEnds
CHECK_DEADLOCK FALSE
