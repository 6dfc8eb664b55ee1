\* Two threads of an agent claim two applications; anything may fail.
SPECIFICATION FairSpec
CONSTANTS
  Apps = {a1, a2}
  Agents = {g1}
  Claimers = {t1, t2}
  AgentOf <- OneAgent
  g1 = g1
  NoApp = NoApp
  Nobody = Nobody
  MaxClaims = 3
  MaxEvents = 1
  MaxFails = 2
  MaxCrashes = 1
INVARIANTS
  TypeOK
  ClaimIsRecorded
PROPERTIES
  SuccessIsStored
  ClaimsAreAtomic
  ClaimReturns
CHECK_DEADLOCK FALSE
