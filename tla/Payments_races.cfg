SPECIFICATION Spec
SYMMETRY Symmetry
CONSTANTS
  Plans = {p1}
  Orders = {o1}
  Teams = {t1}
  Subs = {}
  Periods = {}
  Events = {}
  Workers = {w1, w2}
  Sweepers = {s1}
  None = None
  Ops = {"order", "award", "confirm", "refund", "edit", "use"}
  Kinds = {}
  Prices = {1, 2}
  Placed <- NonePlaced
  Funds = 0
INVARIANTS
  PaidMeansGranted
  OnlyPaidReversed
PROPERTIES
  StatusAdvances
