SPECIFICATION MCSpec
SYMMETRY Symmetry
CONSTANTS
  n1 = n1
  a = a
  b = b
  d = d
  c1 = c1
  c2 = c2
  a1 = a1
  b1 = b1
  Namespaces = {n1}
  Official = Official
  Names = {a, b, d}
  Contents = {c1, c2}
  Size <- SizeOf
  MaxPackages = 2
  MaxBytes = 3
  Workers = {w1, w2}
  None = None
  MaxRevision = 2
  ServerNames = {a}
  Configs = {l1, l2}
  Owners = {l1, l2}
  Handles = {c1, c2}
  Keys = {a1, b1}
  Addresses = {h1, n1}
  Forbidden = {n1}
  SiteIds = {l1, l2}
  Hosts = {h1}
  Local = {h1}
  Parts = {p1}
  Accounts = {a1}
  Bindings = {b1}
  Account <- AccountOf
  Labels = {l1, l2}
  Tenants = {n1}
INVARIANTS
  HistoryTells
  QuotaHolds
  GrantsResolve
  SecretsServeTheirOwner
  HiddenIsNotServed
PROPERTIES
  RequiredIsServed
  DeletedIsFrozen
