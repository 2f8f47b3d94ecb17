SPECIFICATION Spec
CONSTANTS
  None = None
  Paths = {p1, p2}
  Data = {a, b}
  Inodes = {n1, n2, n3, n4}
  Blocks = 2
  Tasks = {t1, t2}
  Overlap = FALSE
SYMMETRY Symmetric
INVARIANTS TypeOK
PROPERTIES WriteInstallsData AtomicStorage
