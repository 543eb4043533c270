CONSTANTS
  Flushers = {flush1, flush2}
  Worker = worker
  NoWriter = NoWriter
  MaxChanges = 2
  MaxFlushes = 2
  MaxFaults = 1
  MaxDamages = 1
  MaxCrashes = 1
SPECIFICATION Spec
SYMMETRY Symmetry
CHECK_DEADLOCK FALSE
INVARIANTS FlushedSurvives ChangesAreOnTheWay
PROPERTIES ForeignBytesKept
