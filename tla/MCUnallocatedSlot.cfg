CONSTANTS
  MAX_NUMBER_PROCESSES = 3
  NumTasks = 6
  NumProcesses = 2
  Situations <- MCSituations
SPECIFICATION Spec
INVARIANT SubstitutionKeepsOrder
PROPERTY SubstitutionKeepsTasks
\* One call is modelled.
CHECK_DEADLOCK FALSE
