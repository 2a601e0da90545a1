SPECIFICATION MCSpec
CONSTANTS
  a = a
  b = b
  q = q
  Item = {a, b}
  Queue = {q}
  NoQueue = NoQueue
  QueueOf <- InOneQueue
  QueueMax <- OneAtATime
  GeneralMax = 1
  MaxRetries = 1
  Handled = {a, b}
  MaxCommands = 2
  MaxErrors = 1
SYMMETRY Symmetry
 
PROPERTIES DeletedStaysDeleted PausedStaysPaused
CHECK_DEADLOCK FALSE
