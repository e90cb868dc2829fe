\* Two requests overlap; nothing fails.
CONSTANTS
  Users = {u1, u2}
  Procs = {p1, p2}
  Inodes = {i1, i2, i3, i4, i5}
  Missing = Missing
  Down = Down
SPECIFICATION CalmSpec
SYMMETRY Symmetry
INVARIANT RemovedFromConf
