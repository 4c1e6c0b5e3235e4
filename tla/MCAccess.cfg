CONSTANTS
  w1 = w1  w2 = w2  director = director  analyst = analyst  Null = Null
  Orgs = {1, 2}
  Users = {1, 2, 3}
  Sessions = {1, 2, 3}
  Emails = {director, analyst}
  Director = director
  Catalog <- CatalogDef
  Asks <- AsksDef
  Requests <- RequestsDef
  Workers = {w1, w2}
  LoginMax = 2
  FailMax = 1
  Window = 2
  Operations = {"create_tenant", "create_user", "login", "logout", "wipe", "register", "route", "evaluate"}
  MaxCalls = 3
  MaxFaults = 1
  MaxTime = 2
SYMMETRY Symmetry
SPECIFICATION Spec
INVARIANTS TypeOK SeedFailsClosed RouteIsLawful WindowHolds
CHECK_DEADLOCK FALSE
