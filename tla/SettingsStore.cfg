CONSTANTS
  Calls = {c1, c2, c3}
  Keys = {k1, k2}
  Values <- MCValues
  Normal <- MCNormal
  Refused = {"missing"}
  Original <- MCOriginal
  Imported <- MCImported
  Defaults <- MCDefaults
  Replacements = {"import", "reset"}
  MaxFaults = 1
SPECIFICATION Spec
SYMMETRY Symmetry
CHECK_DEADLOCK FALSE
INVARIANTS StoreInv
PROPERTIES SavedMeansOnDisk RepliesSpareEdits
