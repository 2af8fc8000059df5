SPECIFICATION Spec
SYMMETRY Symmetry
CONSTANTS
  Accounts = {a1}
  EntryKeys = {k1}
  HoldKeys = {h1}
  Tx = {t1, t2}
  Sweepers = {}
  None = None
  Ops = {"hold", "capture", "release", "spend", "reset"}
  Amounts = {1, 2}
  Targets = {0, 2}
  Allowance <- Daily2Period1
  Opened = {}
  Opening = 0
  Ttls = {}
  Horizon = 3
  DayLength = 1
  PeriodLength = 2
INVARIANTS
  TimeCreditNotMinted
  DebitIsThriftiest
  ReservationIsNeutral
PROPERTIES
  WatermarksAdvance
