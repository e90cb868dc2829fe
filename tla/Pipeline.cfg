\* Two overlapping handlers and one user; five inodes are three names and two descriptors.
CONSTANTS
  Users = {u1}
  Procs = {p1, p2}
  Inodes = {i1, i2, i3, i4, i5}
  Missing = Missing
  Down = Down
SPECIFICATION Spec
SYMMETRY Symmetry
INVARIANTS
  TypeOK
  SoloRequestPublishes
PROPERTY GoneStaysGone
