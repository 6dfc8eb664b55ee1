\* Three manifest templates, two keys and two groups, or two rules of up to three members,
\* and three threads that call remote applications.
SPECIFICATION Spec
CONSTANTS
  Templates <- SmallTemplates
  MaxOffers = 2
  Keys = {k1, k2}
  Groups = {g1, g2}
  Admins = admins
  Inputs <- SmallInputs
  MaxVersion = 3
  Callers = {c1, c2, c3}
  Nobody = nobody
  Default = default
INVARIANTS
  OnlyShownRights
  OffersAreExact
  NormalKeepsRights
  NormalIsSorted
  CallsAreSecured
PROPERTIES
  PoliciesSayWho
CHECK_DEADLOCK FALSE
