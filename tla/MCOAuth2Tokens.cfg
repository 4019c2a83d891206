SPECIFICATION OAuthSpec
CONSTANTS
  Codes = {c1}
  Clients = {a, b}
  Reqs = {r1, r2, r3, r4}
  Pairs = {p1, p2, p3}
  Scopes = {s}
  CodeTTL = 1
  AccessTTL = 1
  RefreshTTL = 1
  DetectReuse = TRUE
  None = None
SYMMETRY Symmetries
INVARIANTS
  OneSuccessor
  EndedFamilyIsDead
  ReuseIsReal
