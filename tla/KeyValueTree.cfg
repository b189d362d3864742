SPECIFICATION Spec
CONSTANTS
  NULL = NULL
  None = None
  Keys = {1, 2, 3, 4, 5, 6, 7}
  Values = {"old", "new"}
  Puts <- MCPuts
INVARIANTS KeyValueTypeOK TreeConsistent PathFits
PROPERTIES PrintsInOrder ImplementsStore
