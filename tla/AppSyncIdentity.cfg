\* An identity that two applications may hold is removed.
SPECIFICATION Spec
CONSTANTS
  Apps = {a1, a2}
  Users = {x1, x2}
  Callers = {}
  Queue = Queue
  Groups = {g1}
  Policies = {p1}
  NoPolicy = NoPolicy
  NoApp = NoApp
  Nobody = Nobody
  Managed = {a1, a2}
  Joined = {}
  Ops = {"RemoveIdentity", "UpdatePolicy"}
  MaxOps = 3
  MaxEvents = 0
  MaxFails = 0
  MaxCrashes = 0
INVARIANTS
  NoIdentityIsReset
CHECK_DEADLOCK FALSE
