\* Two programs, one after the other or at the same time; each may die at
\* any step.
SPECIFICATION Spec
CONSTANTS
  p1 = p1
  p2 = p2
  i1 = i1
  i2 = i2
  i3 = i3
  i4 = i4
  Proc = {p1, p2}
  Inode = {i1, i2, i3, i4}
  Value = {1, 2}
SYMMETRY Symmetry
INVARIANTS
  TypeOK
  WholeWhenAlone
  ChangesAreKept
PROPERTIES
  MigrationIsFinal
