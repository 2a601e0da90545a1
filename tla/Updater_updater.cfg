SPECIFICATION FairSpec
CONSTANTS
  MaxMenu = 3
  MaxFetches = 2
  MaxProgress = 1
 
PROPERTIES MandatoryHolds Settles
CHECK_DEADLOCK FALSE
