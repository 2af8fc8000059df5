SPECIFICATION MCSpec
SYMMETRY Symmetry
CONSTANTS
  Emails = {e1, e2}
  Addresses = {a1}
  AddressOf <- MCAddressOf
  Teams = {g1}
  Ips = {i1}
  Nonces = {n1}
  Links = {l1, l2, l3}
  Tokens = {l1, l2, l3}
  Workers = {w1, w2}
  None = None
  Ops = {"link", "open", "rotate", "logout"}
  Backend = "memory"
  Max = 1
  IpMax = 3
  Window = 2
  LinkTtl = 2
  TokenTtl = 2
  Grace = 1
  MaxTime = 4
INVARIANTS
  OneLiveLink
  LinkOpensOneSession
  AdmissionsBounded
  OneTokenPerLogin
  RevocationEndsLogin
