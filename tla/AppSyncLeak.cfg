\* ResetApplication for an application that is not managed.
SPECIFICATION FairSpec
CONSTANTS
  Apps = {a1}
  Users = {x1, x2}
  Callers = {}
  Queue = Queue
  Groups = {g1}
  Policies = {p1}
  NoPolicy = NoPolicy
  NoApp = NoApp
  Nobody = Nobody
  Managed = {}
  Joined = {}
  Ops = {"ResetUnmanaged", "Claim", "InstallMembership"}
  MaxOps = 2
  MaxEvents = 0
  MaxFails = 0
  MaxCrashes = 0
PROPERTIES
  CallsReturn
CHECK_DEADLOCK FALSE
