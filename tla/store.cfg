SPECIFICATION Spec
CONSTANTS
  Key = {k1, k2}
  Doc = {d1, d2}
  Missing = Missing
  Bad = Bad
  Torn = Torn
  Corrupt = Corrupt
  Idle = Idle
  NoKey = NoKey
  Writer = {w1, w2}
  Reader = {r1}
  PartialAppends = TRUE
  MaxEntries = 0
  Retention = TRUE
  MaxLines = 2
SYMMETRY Symmetry
INVARIANTS TypeOK AckedIsKept
PROPERTIES ImplementsDurableMap RecoveryIsComplete
