SPECIFICATION FairSpec
CONSTANTS
  Plans = {p1, p2}
  Orders = {o1, o2}
  Teams = {t1}
  Subs = {}
  Periods = {}
  Events = {}
  Workers = {w1}
  Sweepers = {s1}
  None = None
  Ops = {"confirm", "delete"}
  Kinds = {}
  Prices = {2}
  Placed <- AllPlaced
  Funds = 0
PROPERTIES
  LiveOrdersPaid
