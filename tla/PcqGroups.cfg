\* Nothing fails; a group is deleted.
CONSTANTS
  NULL = NULL
  NoAddr = NoAddr
  NoRow = NoRow
  NoPreset = NoPreset
  Free = Free
  Addrs = {a1}
  Users = {u1}
  Groups = {g1}
  Presets <- MCPresets
  Procs = {p1, p2}
SPECIFICATION CalmSpec
INVARIANT ShapedAfterEdits
