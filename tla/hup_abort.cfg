SPECIFICATION Spec
CONSTANTS
  MaxVersion = 3
  MaxHups = 3
  MaxFaults = 2
CHECK_DEADLOCK FALSE
INVARIANT HupDuringReloadNeverAborts
