\* Two browsers, two settings, two keys, and two peers that share a name.
CONSTANTS
  Settings = {s1, s2}
  Keys = {k1, k2}
  Names = {n1}
  Peers = {c1, c2}
  Files <- MCFiles
  Procs = {p1, p2}
  Nothing = Nothing
SPECIFICATION Spec
SYMMETRY Symmetry
INVARIANTS
  TypeOK
  SoloRequestTakesEffect
  CompleteSetupHasAdmin
