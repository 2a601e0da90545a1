SPECIFICATION MCSpec
CONSTANTS
  main = main
  x = x
  MainName = MainName
  Work = Work
  a = a
  b = b
  NoName = NoName
  Id = {main, x}
  Main = main
  Name = {MainName, Work}
  Item = {a, b}
  LastMinute = 1
  MaxTriggers = 2
  MaxCommands = 2
INVARIANTS TypeOK
PROPERTIES IdleStaysIdle OneAtATime ServedInTurn
CHECK_DEADLOCK FALSE
