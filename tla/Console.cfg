\* A command line and one thread of another agent or user; the process stops once.
SPECIFICATION FairSpec
CONSTANTS
  Apps = {a1}
  Groups = {g1}
  Identities = {i1}
  Names = {n1}
  Main = main
  Others = {t1}
  Nobody = nobody
  NoName = noname
  Width = 3
  MaxSigned = 5
  MaxManifest = 1
  MaxCalls = 2
  MaxStops = 1
  MaxQueue = 1
INVARIANTS
  SerialsAreUnique
  CertsHaveOwners
  CertsVerify
  OnlyAcceptedRights
PROPERTIES
  CommandsEnd
CHECK_DEADLOCK FALSE
