SPECIFICATION MCSpec
CONSTANTS
  BITSPERLONG = 2
  Clients = {"c1", "c2"}
  Names = {"a", "b", "none", "x/y"}
  Slashed = {"x/y"}
  Size <- MCSize
  MODE = "goofy"
  FDLIMIT = 2
  NULL = NULL
  Repeatable = {}
  Requests <- MCRequests
INVARIANTS ServerTypeOK NoLostWakeup WorksOnLiveJob SearchFindsBlock DescriptorsOwned
PROPERTIES JobsGetTheirTurn BlocksGetTheirTurn
