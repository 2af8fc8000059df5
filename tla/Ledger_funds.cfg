SPECIFICATION Spec
SYMMETRY Symmetry
CONSTANTS
  Accounts = {a1}
  EntryKeys = {k1, k2}
  HoldKeys = {h1}
  Tx = {t1, t2}
  Sweepers = {s1}
  None = None
  Ops = {"grant", "spend", "hold", "capture", "release", "delete", "restore"}
  Amounts = {1, 2}
  Targets = {}
  Allowance <- Daily1
  Opened = {a1}
  Opening = 2
  Ttls = {0}
  Horizon = 1
  DayLength = 2
  PeriodLength = 4
INVARIANTS
  PaidCreditExplained
  DeletedHoldsNothing
PROPERTIES
  ImplementsEscrow
