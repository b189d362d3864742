SPECIFICATION FloodSpec
CONSTANTS
  Nodes = {"a", "b", "c"}
  Contacts <- Triangle
  Messages = {"hello", "yes"}
  Author <- MCAuthor
  Digests = {"h", "y", "junk"}
  Digest <- MCDigest
  FirstByte <- FirstTheSame
  Junk = {"junk"}
  MAX_DIGESTS = 2
  FAULTS = 1
PROPERTY OnlyRepeatsDiscarded
CHECK_DEADLOCK FALSE
