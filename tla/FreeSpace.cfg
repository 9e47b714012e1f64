CONSTANTS
  MAX_NUMBER_PROCESSES = 3
  PBS_HZ = 1
  INS_PER_TICK = 10
  T1_MIN_TICKS_OFF = 1
  T1_MAX_TICKS_OFF = 1
  T1_SIGMA = 125
  T2_MAX_PREEMPTIONS = 1
  STRESS_RESET = 3
  SIZE_SIG_BUFFER = 2
  NumProcesses = 2
  Plans <- MCPlans
  NumTasks = 4
  Lengths <- MCLengths
  Spread = TRUE
SPECIFICATION Spec
PROPERTY FreeSpaceIsIncorporated
