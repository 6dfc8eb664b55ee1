\* Liveness: the application restarts, the security manager crashes once, at any
\* moment.  UpdateIdentity is not used: its two writes are not atomic.
SPECIFICATION FairSpec
CONSTANTS
  Apps = {a1}
  Users = {x1}
  Callers = {}
  Queue = Queue
  Groups = {g1}
  Policies = {p1}
  NoPolicy = NoPolicy
  NoApp = NoApp
  Nobody = Nobody
  Managed = {a1}
  Joined = {g1}
  Ops = {"InstallMembership", "RemoveMembership", "RemoveGroup", "UpdatePolicy", "ResetApplication"}
  MaxOps = 2
  MaxEvents = 1
  MaxFails = 0
  MaxCrashes = 1
PROPERTIES
  PendingIsApplied
  Converges
  CallsReturn
CHECK_DEADLOCK FALSE
