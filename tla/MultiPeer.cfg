\* A manager and two peers; one call or the start of one process fails.
SPECIFICATION FairSpec
CONSTANTS
  Peers = {p1, p2}
  Manager = mgr
  Nobody = nobody
  Impatient = FALSE
  StartDelay = TRUE
  MaxFaults = 1
INVARIANTS
  CallsSucceed
  SuccessIsComplete
PROPERTIES
  ProgramEnds
