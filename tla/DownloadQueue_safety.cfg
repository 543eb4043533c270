CONSTANTS
  Items = {item1, item2}
  Commanders = {user}
  Stoppers = {closing}
  MaxCommands = 1
  Sessions = {1, 2, 3}
  NoThread = NoThread
  NoItem = NoItem
SPECIFICATION Spec
CHECK_DEADLOCK FALSE
SYMMETRY Symmetry
INVARIANTS TypeOK RecordedOnce NothingIsStuck CancelledQueueHoldsNoSession
