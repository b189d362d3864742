SPECIFICATION MCSpec
CONSTANTS
  BITSPERLONG = 2
  Clients = {"c1", "c2", "c3"}
  Names = {"b", "d", "e"}
  Slashed = {}
  Size <- MCSize
  MODE = "normal"
  FDLIMIT = 3
  NULL = NULL
  Repeatable <- LastTwice
  MAXRANGES = 2
  END = 9
  GIVEUP = 3
  LOSSES = 1
  EARLY = 1
  Args <- SharedFile
  Leftover <- LateBlocks
INVARIANTS ClientTypeOK BitsMatchDisk
PROPERTIES ImplementsDelivery ClientEnds HeardClientCompletes
CHECK_DEADLOCK FALSE
