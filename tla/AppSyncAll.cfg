\* Every operation, with a second thread that updates applications and a crash.
SPECIFICATION Spec
CONSTANTS
  Apps = {a1}
  Users = {x1, x2}
  Callers = {u1}
  Queue = Queue
  Groups = {g1}
  Policies = {p1}
  NoPolicy = NoPolicy
  NoApp = NoApp
  Nobody = Nobody
  Managed = {a1}
  Joined = {g1}
  Ops = {"InstallMembership", "RemoveMembership", "UpdatePolicy", "RemovePolicy", "UpdateIdentity", "RemoveGroup", "RemoveIdentity", "ResetApplication", "ResetUnmanaged", "RemoveApplication", "Claim", "UpdateApplications"}
  MaxOps = 2
  MaxEvents = 0
  MaxFails = 0
  MaxCrashes = 1
PROPERTIES
  ResetIsKept
CHECK_DEADLOCK FALSE
