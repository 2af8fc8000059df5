SPECIFICATION FairSpec
CONSTANTS
  Accounts = {a1}
  EntryKeys = {k1}
  HoldKeys = {h1, h2}
  Tx = {t1, t2}
  Sweepers = {s1, s2}
  None = None
  Ops = {"hold", "capture", "release"}
  Amounts = {1}
  Targets = {}
  Allowance <- NoAllowance
  Opened = {a1}
  Opening = 2
  Ttls = {0}
  Horizon = 1
  DayLength = 2
  PeriodLength = 4
INVARIANTS
  HeldMatchesHolds
PROPERTIES
  SettlementIsFinal
  ExpiredHoldsReclaimed
