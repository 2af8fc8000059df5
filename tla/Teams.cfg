SPECIFICATION MCSpec
SYMMETRY Symmetry
CONSTANTS
  u1 = u1
  u2 = u2
  u3 = u3
  t1 = t1
  s1 = s1
  s2 = s2
  a1 = a1
  a2 = a2
  x1 = x1
  Users = {u1, u2, u3}
  Teams = {t1}
  Sites = {s1, s2}
  Emails = {a1, a2}
  Invites = {i1}
  Accounts = {x1}
  Workers = {w1, w2}
  None = None
  SiteOf <- SitesOf
  EmailOf <- EmailsOf
  Host <- Hosts
  Keeper <- Keepers
  Named = {t1}
  Subjects = {u2, u3}
  Asked = {"owner", "admin", "member"}
  Registered = {u1, u3}
  Ops = {"ensure", "upsert", "set", "invite", "accept", "decline", "change", "remove", "status", "user", "team", "account"}
INVARIANTS
  SiteIsolation
  AcceptedHasMember
PROPERTIES
  SettledInvitesStay
  LastOwnerStays
