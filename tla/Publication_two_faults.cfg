SPECIFICATION Spec
CONSTANTS
  Media = {m1, m2}
  Captioned = {}
  Strangers = {x1}
  Thumbnails = FALSE
  Choices <- MCChoices
  MaxFaults = 2
INVARIANTS FinishedSurvives
CHECK_DEADLOCK FALSE
