SPECIFICATION Spec
CONSTANTS
  Hosts = {"h1", "h2"}
  STALE = 2
INVARIANTS PeersTypeOK OneEntryPerHost ShowsOneState
PROPERTIES ImplementsMembership DeadForgotten LiveListed
