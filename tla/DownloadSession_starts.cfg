CONSTANTS
  Starters = {start1, start2}
  Cancellers = {cancel1}
  CancelModes = {"announced", "silent", "kill"}
  MaxSessions = 2
  Files = 1
  NoThread = NoThread
SPECIFICATION Spec
SYMMETRY Symmetry
CHECK_DEADLOCK FALSE
INVARIANTS CallbackExactlyOnce WorkerOwnsSession CleanReplacement WaitsAreAnswered
PROPERTIES ImplementsSlot
