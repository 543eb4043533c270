CONSTANTS
  Starters = {start1}
  Cancellers = {cancel1, cancel2}
  CancelModes = {"announced", "silent", "kill"}
  MaxSessions = 1
  Files = 2
  NoThread = NoThread
SPECIFICATION FairSpec
CHECK_DEADLOCK FALSE
INVARIANTS TypeOK NoOrphanProcess KilledReportsCancelled WaitingCancelSeesCallback
PROPERTIES ImplementsFairSlot
