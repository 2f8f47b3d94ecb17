SPECIFICATION Spec
CONSTANTS
  None = None
  Paths = {p1}
  Data = {a, b}
  Inodes = {n1, n2, n3}
  Blocks = 2
  Tasks = {t1, t2}
  Overlap = TRUE
SYMMETRY Symmetric
PROPERTIES RenameInstallsWhole
