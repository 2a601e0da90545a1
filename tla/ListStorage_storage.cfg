SPECIFICATION Spec
CONSTANTS
 o = o
 m = m
 c = c
 Old = {o}
 New = {m, c}
 EarlyEvents = FALSE
 MaxChanges = 2
 MaxCrashes = 1
 
PROPERTIES Saved
CHECK_DEADLOCK FALSE
