CONSTANTS
  MAX_NUMBER_PROCESSES = 10
  MAX_NUMBER_TASKS_IN_PLAN = 33
  PBS_HZ = 20
  INS_PER_TICK = 100
  T1_MIN_TICKS_OFF = 3
  T1_MAX_TICKS_OFF = 10
  T1_SIGMA = 125
  T2_MAX_PREEMPTIONS = 5
  STRESS_RESET = 600
  SIZE_SIG_BUFFER = 2
  SETUP_LENGTH = 1234
  BALANCED_LATENESS = 987654321
  TEST_MARGIN = 1
  TEST_TM2_OFFSET = 134
  DEMO_TASKS = 32
  DEMO_TICK = 305
  TICKS_AFTER_END = 3
  Lengths <- MCLengths
  Tails <- MCTails
  Files <- MCFiles
SPECIFICATION Spec
INVARIANTS
  ParserTypeOK
  UnitTestsPass
  DemonstrationsShow
  TestRunPasses
  PlanIsRead
  AssertionsHold
  SignalsOfPlanAreOrdered
PROPERTY MainReturns
\* The program ends.
CHECK_DEADLOCK FALSE
