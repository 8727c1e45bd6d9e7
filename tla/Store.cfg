SPECIFICATION Spec
CONSTANTS
  a1 = a1
  a2 = a2
  a3 = a3
  c1 = c1
  k1 = k1
  k2 = k2
  r1 = r1
  r2 = r2
  v1 = v1
  v2 = v2
  x1 = x1
  x2 = x2
  s1 = s1
  s2 = s2
  p1 = p1
  p2 = p2
  t1 = t1
  None = None
  Jobs = {j1, j2, j3}
  Exports <- MCExports
  Deployed <- MCDeployed
  Addresses = {a1, a2, a3}
  Codes = {c1, k1, k2, r1, r2}
  Sources = {s1, s2}
  Paths = {p1, p2}
  Versions = {v1, v2}
  Settings = {x1, x2}
  Transactions = {t1}
  MaxFailures = 1
SYMMETRY MCSymmetry
INVARIANTS
  TypeOK
  MatchIsReadable
  OneInputIsWhole
  VerdictIsEarned
  AbortNeedsRace
  LevelsAgree
PROPERTIES
  ImplementsMatchTable
