SPECIFICATION Spec
CONSTANTS
  Media = {m1, m2}
  Captioned = {m1}
  Strangers = {x1}
  Thumbnails = FALSE
  Choices <- MCChoices
  MaxFaults = 1
CHECK_DEADLOCK FALSE
INVARIANTS PublicationInv FinishedSurvives
PROPERTIES StrangersSurvive SweepRemovesOnlyRedundant
