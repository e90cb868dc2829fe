\* One handler at a time, with every crash and failure.
CONSTANTS
  Users = {u1, u2}
  Procs = {p1}
  Inodes = {i1, i2, i3, i4}
  Missing = Missing
  Down = Down
SPECIFICATION Spec
PROPERTY Publishes
