SPECIFICATION Spec
SYMMETRY Symmetry
CONSTANTS
  Accounts = {a1}
  EntryKeys = {k1, k2}
  HoldKeys = {h1}
  Tx = {t1, t2}
  Sweepers = {}
  None = None
  Ops = {"grant", "reset"}
  Amounts = {1, 2}
  Targets = {0}
  Allowance <- NoAllowance
  Opened = {a1}
  Opening = 2
  Ttls = {0}
  Horizon = 1
  DayLength = 2
  PeriodLength = 4
INVARIANTS
  PaidCreditExplained
