\* One UI thread changes the configuration of a claimed application that may
\* restart, be reset or refuse to answer.
SPECIFICATION Spec
CONSTANTS
  Apps = {a1}
  Users = {x1}
  Callers = {}
  Queue = Queue
  Groups = {g1}
  Policies = {p1, p2}
  NoPolicy = NoPolicy
  NoApp = NoApp
  Nobody = Nobody
  Managed = {a1}
  Joined = {g1}
  Ops = {"InstallMembership", "RemoveMembership", "RemoveGroup", "UpdatePolicy", "UpdateIdentity", "ResetApplication"}
  MaxOps = 3
  MaxEvents = 1
  MaxFails = 1
  MaxCrashes = 0
INVARIANTS
  TypeOK
  SyncedWhenOK
PROPERTIES
  RemovedMeansReset
CHECK_DEADLOCK FALSE
