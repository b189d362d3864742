SPECIFICATION Spec
CONSTANTS
  NUM_ENTRIES = 2
  MAX_MESG = 6
  MAX_AGENT = 4
  MAXREQUESTS = 4
  Requests <- MCRequests
  Garbage <- MCGarbage
INVARIANTS RequestTypeOK TableIsHistory
PROPERTY RequestsAnswered
CHECK_DEADLOCK FALSE
