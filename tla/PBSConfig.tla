------------------------------ MODULE PBSConfig ------------------------------
(***************************************************************************)
(* The macros of config.h.  The macros that only set a scale are           *)
(* parameters, so that TLC can run with small numbers; the macros that are *)
(* computed from them, and the percentages, are defined as in the header.  *)
(* All thresholds are enabled (T1_ENABLED ... T2_PREEMPTIONS_ENABLED are 1 *)
(* in the header), so the switches are not modelled.                       *)
(***************************************************************************)
EXTENDS Integers

CONSTANTS
  MAX_NUMBER_PROCESSES,  \* length of p->processes
  PBS_HZ,                \* timer ticks per second
  INS_PER_TICK,          \* instructions retired between two timer ticks
  T1_MIN_TICKS_OFF,
  T1_MAX_TICKS_OFF,
  T1_SIGMA,
  T2_MAX_PREEMPTIONS,
  STRESS_RESET,          \* ticks without t2 checks after a signal
  SIZE_SIG_BUFFER        \* length of lastSignals

ASSUME ConfigAssumption ==
  /\ MAX_NUMBER_PROCESSES \in Nat \ {0}
  /\ PBS_HZ \in Nat \ {0}
  /\ INS_PER_TICK \in Nat \ {0}
  /\ T1_MIN_TICKS_OFF \in Nat \ {0}
  /\ T1_MAX_TICKS_OFF \in Nat \ {0}
  /\ T1_SIGMA \in Nat \ {0}
  /\ T2_MAX_PREEMPTIONS \in Nat
  /\ STRESS_RESET \in Nat \ {0}
  /\ SIZE_SIG_BUFFER \in Nat \ {0}

-----------------------------------------------------------------------------
RESCHEDULE_TIME == PBS_HZ * INS_PER_TICK

T1_NO_PREEMPTION == T1_MIN_TICKS_OFF * INS_PER_TICK

T2_SIGMA == T1_SIGMA + 50
T2_SPACER == T1_MAX_TICKS_OFF * INS_PER_TICK
T2_TASK_SIGNALING_LIMIT == PBS_HZ * INS_PER_TICK
T2_CAPACITY_BUFFER == 110
T2_ASSIGNABLE_PLAN_BUFFER == 50
T2_PROCESS_MINIMUM == T2_TASK_SIGNALING_LIMIT
T2_NODE_LATENESS == 110

TM2_SIGMA == 100 - (T2_SIGMA - 100)
TM2_TASK_SIGNALING_LIMIT == -T2_SPACER
TM2_TASK_SIGNALING_START == -T2_TASK_SIGNALING_LIMIT
TM2_NODE_EARLINESS_CAP == -(100 - (T2_NODE_LATENESS - 100))
TM2_NODE_LOWER_BOUND == -20

STRETCH_CONSTANT == 105
SHRINK_CONSTANT == 95

(* Division of C: the quotient is truncated towards zero. *)
CDiv(a, b) == IF a >= 0 THEN a \div b ELSE -((-a) \div b)

T2_STRESS_GAIN == CDiv(25 * INS_PER_TICK, 100)
=============================================================================
