CONSTANTS
  None = None
  Ids = {i1, i2}
  Names = {alice, bob}
  V4 <- MCV4
  V6 = {six}
  Lists <- MCLists
  Extras <- MCExtras
  Keys = {k1, k2}
  Nets <- MCNets
  Uploads <- MCUploads
  Texts <- MCTexts
  Procs = {p1, p2}
SPECIFICATION Spec
SYMMETRY MCSymmetry
CHECK_DEADLOCK FALSE
INVARIANT TypeOK
INVARIANT AllocatedApart
INVARIANT ReimportRestores
INVARIANT ReadsWhatTextSays
PROPERTY EditsSetKeysOnce
PROPERTY OnlyImportsPartKeys
