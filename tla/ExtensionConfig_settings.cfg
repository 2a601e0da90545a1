SPECIFICATION SettingsSpec
CONSTANTS
  never = never
  hover = hover
  p = p
  q = q
  Choice = {never, hover}
  Port = {p, q}
  DefaultChoice = never
  DefaultPort = p
  Empty = Empty
  WritesFirst = TRUE
  MaxOpens = 1
  MaxWrites = 2
INVARIANTS  WorkerKnowsStored
CHECK_DEADLOCK FALSE
