SPECIFICATION MCSpec
CONSTANTS
  BITSPERLONG = 2
  Clients = {"c1", "c2"}
  Names = {"a", "b"}
  Slashed = {}
  Size <- MCSize
  MODE = "normal"
  FDLIMIT = 2
  NULL = NULL
  Repeatable = {}
  Requests <- WholeAndHoles
PROPERTY DecommissionsIdleJobs
