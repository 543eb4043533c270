CONSTANTS
  roaming = roaming
  store = store
  queue = queue
  stats = stats
  activity = activity
  Candidates <- MCCandidates
  DataFiles <- MCDataFiles
  Existing <- MCExisting
  Valid <- MCValid
  Own = Own
  NoFile = NoFile
  MaxFaults = 2
  MaxMoves = 2
SPECIFICATION Spec
INVARIANTS ImportInv
PROPERTIES SettledProfileIsKept MissingFilesArrive
