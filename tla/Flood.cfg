SPECIFICATION FloodSpec
CONSTANTS
  Nodes = {"a", "b", "c"}
  Contacts <- Triangle
  Messages = {"hello", "yes", "bye"}
  Author <- MCAuthor
  Digests = {"h", "y", "b", "junk"}
  Digest <- MCDigest
  FirstByte <- FirstDiffers
  Junk = {"junk"}
  MAX_DIGESTS = 2
  FAULTS = 1
INVARIANTS MessengerTypeOK 
PROPERTIES ImplementsBroadcast
  FloodEnds
CHECK_DEADLOCK FALSE
