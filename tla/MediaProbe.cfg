SPECIFICATION Spec
CONSTANTS
  None = None
  Requests = {r1, r2}
  Cancels = {c1}
CHECK_DEADLOCK FALSE
INVARIANTS SignalsOwnGroup NoProbeIsLeft
PROPERTIES AnswersFitTheSlot CallsReturn
