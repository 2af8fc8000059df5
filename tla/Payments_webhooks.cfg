SPECIFICATION Spec
SYMMETRY Symmetry
CONSTANTS
  Plans = {p1}
  Orders = {o1}
  Teams = {t1}
  Subs = {s1}
  Periods = {q1}
  Events = {e1, e2}
  Workers = {w1, w2}
  Sweepers = {}
  None = None
  Ops = {"use", "delete", "restore", "record", "replay"}
  Kinds = {"payment", "refund", "subscription", "other", "incomplete"}
  Prices = {2}
  Placed <- AllPlaced
  Funds = 0
INVARIANTS
  ProcessedAsSaid
PROPERTIES
  ProcessedIsFinal
  ImplementsPurchase
