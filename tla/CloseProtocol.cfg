CONSTANTS
  MaxCloses = 2
  MaxFaults = 1
  MaxCommands = 2
SPECIFICATION CloseSpec
CHECK_DEADLOCK FALSE
INVARIANTS CloseTypeOK FlagsHaveOwners
PROPERTIES LateStepsHarmless
