CONSTANTS
  Proc = {p1, p2, p3}
  Key = {a, b}
  NoKey = NoKey
  MaxCalls = 3
SPECIFICATION Spec
SYMMETRY Symmetry
INVARIANTS TypeOK DriftIsResurrection NeverOverReports
