\* Two UI threads change two applications that share the counter and the queue;
\* a group is removed together with the memberships of both.
SPECIFICATION Spec
CONSTANTS
  Apps = {a1, a2}
  Users = {x1, x2}
  Callers = {}
  Queue = Queue
  Groups = {g1}
  Policies = {p1}
  NoPolicy = NoPolicy
  NoApp = NoApp
  Nobody = Nobody
  Managed = {a1, a2}
  Joined = {g1}
  Ops = {"InstallMembership", "RemoveGroup", "UpdateIdentity"}
  MaxOps = 2
  MaxEvents = 0
  MaxFails = 0
  MaxCrashes = 0
INVARIANTS
  SyncedWhenOK
CHECK_DEADLOCK FALSE
