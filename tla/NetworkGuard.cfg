SPECIFICATION Spec
CONSTANTS
  Setups <- MCSetups
  DnsWorkers = {d1}
  Listener = Listener
  Owner = Owner
  None = None
  MaxPendingClients = 1
  MaxPendingQueries = 1
CHECK_DEADLOCK FALSE
INVARIANTS GuardInv StopLeavesNothingOpen ConnectsOnlyToVetted
PROPERTIES DropEndsWorkers
