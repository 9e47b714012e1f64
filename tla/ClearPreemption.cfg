CONSTANTS
  MAX_NUMBER_PROCESSES = 3
  NumTasks = 5
  NumProcesses = 2
  Situations <- MCSituations
SPECIFICATION Spec
PROPERTY PreemptionIsCleared
\* One call is modelled.
CHECK_DEADLOCK FALSE
