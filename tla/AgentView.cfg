\* One application, an agent from its start to its end, and two calls of two threads.
SPECIFICATION FairSpec
CONSTANTS
  Apps = {a1}
  Users = {u1, u2}
  Updater = updater
  Nobody = nobody
  Calls = {"change", "reset", "remove", "wipe", "claim", "sync"}
  Alone = {"remove", "wipe", "claim"}
  EarlyUse = FALSE
  MayStayDown = FALSE
  MaxCalls = 2
  MaxStarts = 2
  MaxEvents = 1
INVARIANTS
  SettledViewIsTrue
  SettledIsApplied
PROPERTIES
  GoneIsQuiet
  DestroyedIsGone
CHECK_DEADLOCK FALSE
