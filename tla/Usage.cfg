SPECIFICATION Spec
SYMMETRY Symmetry
CONSTANTS
  s1 = s1
  s2 = s2
  a1 = a1
  a2 = a2
  r1 = r1
  r2 = r2
  Sites = {s1, s2}
  Accounts = {a1, a2}
  SiteOf <- Site
  IdOf <- Id
  Workers = {w1, w2}
  None = None
  Switched = {s1, a1}
  Ttl = 2
  MaxEntries = 1
  CheckTime = 3
  Runs = {r1, r2}
  AccountOf <- Payer
  Units <- Unit
  Labels = {}
  LabelOf <- Label
  UsageOf <- Tokens
  Estimate <- Expected
  BufferPercent = 50
  Credit = 2
  Welcome = 10
  Gifts = {2}
  Quotas = {6}
  Prices = {0, 1, 2}
  HoldTtl = 1
  Month = 2
  Scenes <- Mixes
  MaxBalance = 12
  MaxTime = 2
PROPERTIES
  QuotaRespected
  SettlementsAgree
  UsesEscrow
  BanTakesEffect
