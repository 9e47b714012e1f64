CONSTANTS
  MAX_NUMBER_PROCESSES = 3
  PBS_HZ = 1
  INS_PER_TICK = 10
  T1_MIN_TICKS_OFF = 1
  T1_MAX_TICKS_OFF = 1
  T1_SIGMA = 125
  T2_MAX_PREEMPTIONS = 1
  STRESS_RESET = 3
  SIZE_SIG_BUFFER = 3
  Signals <- MCSignals
  MaxSignals = 8
SPECIFICATION MCSpec
INVARIANTS
  SignalTypeOK
  PrintedSignals
PROPERTY ImplementsSignalHistory
\* The bound on the number of signals ends every behaviour.
CHECK_DEADLOCK FALSE
