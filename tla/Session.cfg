SPECIFICATION MCSpec
CONSTANTS
  n1 = n1
  n2 = n2
  p1 = p1
  p2 = p2
  g = g
  d = d
  k = k
  v1 = v1
  v2 = v2
  None = None
  Nodes = {n1, n2}
  Eth0 = {n1}
  Clients = {p1, p2, g, d}
  Keys = {k}
  Values = {v1, v2}
  Target <- MCTarget
  Op <- MCOp
  Key <- MCKey
  Value <- MCValue
  FAULTS = 2
INVARIANTS SessionTypeOK StoreFollowsLog LoggedOnce ReplicasConverge AckedIsRead
CHECK_DEADLOCK FALSE
