SPECIFICATION Spec
CONSTANTS
  MaxId = 2
  MaxActive = 2
  Signatures = {s1, s2}
  Cookies = {c1}
  Workers = {w1}
  MaxRecords = 3
  MaxWork = 1
SYMMETRY Symmetry
INVARIANTS StoreConsistent OneOpenPerInit
PROPERTIES WorkKeptUnlessRaced ImplementsTable
CHECK_DEADLOCK FALSE
