CONSTANTS
  Items = {item1}
  Commanders = {user}
  Stoppers = {closing}
  MaxCommands = 2
  Sessions = {1, 2, 3}
  NoThread = NoThread
  NoItem = NoItem
SPECIFICATION FairSpec
CHECK_DEADLOCK FALSE
PROPERTIES CommandsReturn CancelledRunEnds
