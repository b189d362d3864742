SPECIFICATION OrderlySpec
CONSTANTS
  Nodes = {"a", "b", "c", "d"}
  Contacts <- Four
  Messages = {"hello"}
  Author <- MCAuthor
  Digests = {"h", "y", "junk"}
  Digest <- MCDigest
  FirstByte <- FirstDiffers
  Junk = {"junk"}
  MAX_DIGESTS = 2
  FAULTS = 0
INVARIANTS MeshStaysConnected SlotsSuffice Delivered
CHECK_DEADLOCK FALSE
