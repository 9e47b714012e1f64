---------------------------- MODULE ThresholdProofs ----------------------------
(***************************************************************************)
(* Proofs about the thresholds for every scale and every planned length:   *)
(* the assertions of threshold_checking.c, and what t1 comes to.           *)
(***************************************************************************)
EXTENDS Thresholds, TLAPS

(* A number of ticks is a positive number of instructions.                 *)
LEMMA TicksArePositive ==
  ASSUME NEW a \in Nat \ {0}, NEW b \in Nat \ {0}
  PROVE  a * b \in Nat \ {0}
OBVIOUS

LEMMA ScaleIsPositive ==
  /\ RESCHEDULE_TIME \in Nat \ {0}
  /\ T1_NO_PREEMPTION \in Nat \ {0}
  /\ T2_SPACER \in Nat \ {0}
  /\ T2_PROCESS_MINIMUM \in Nat \ {0}
  /\ TM2_TASK_SIGNALING_START \in Int
  /\ TM2_TASK_SIGNALING_START < 0
BY ConfigAssumption, TicksArePositive
DEF RESCHEDULE_TIME, T1_NO_PREEMPTION, T2_SPACER, T2_PROCESS_MINIMUM,
    TM2_TASK_SIGNALING_START, T2_TASK_SIGNALING_LIMIT

(* t1 of any length is the planned length and T1_MIN_TICKS_OFF ticks:      *)
(* T1_SIGMA never matters, because minimum and maximum are the same.       *)
THEOREM T1IsPlannedAndSpacer ==
  ASSUME NEW instructions_planned \in Nat
  PROVE  calculate_t1(instructions_planned) = instructions_planned + T1_NO_PREEMPTION
<1>1. T1_NO_PREEMPTION \in Nat
  BY ScaleIsPositive
<1>2. instructions_planned * T1_SIGMA \in Nat
  BY ConfigAssumption
<1> QED
  BY <1>1, <1>2 DEF calculate_t1, MaxOf, MinOf

(* Division of C gives an integer.                                         *)
LEMMA CDivType == \A a \in Int : CDiv(a, 100) \in Int
BY DEF CDiv

(* The two assertions of check_tm2_task: the threshold of a task of more   *)
(* than one instruction lies between 0 and the planned length.             *)
THEOREM Tm2TaskInsideTask ==
  ASSUME NEW instructions_planned \in Nat, instructions_planned > 1
  PROVE  calculate_tm2_task(instructions_planned) \in 1 .. instructions_planned - 1
<1> DEFINE relative == CDiv(instructions_planned * TM2_SIGMA, 100)
           max0 == IF relative > TM2_TASK_SIGNALING_LIMIT
                   THEN instructions_planned + TM2_TASK_SIGNALING_LIMIT
                   ELSE relative
           max1 == IF max0 > 0 THEN max0 ELSE 1
<1>1. relative \in Int
  <2>1. instructions_planned * TM2_SIGMA \in Int
    BY ConfigAssumption DEF TM2_SIGMA, T2_SIGMA
  <2> QED
    BY <2>1, CDivType
<1>2. TM2_TASK_SIGNALING_LIMIT \in Int /\ TM2_TASK_SIGNALING_LIMIT < 0
  BY ScaleIsPositive DEF TM2_TASK_SIGNALING_LIMIT
<1>3. calculate_tm2_task(instructions_planned) = MaxOf(TM2_TASK_SIGNALING_START, max1)
  BY DEF calculate_tm2_task
<1> HIDE DEF relative
<1>4. max0 \in Int /\ max0 < instructions_planned
  BY <1>1, <1>2
<1> HIDE DEF max0
<1>5. max1 \in 1 .. instructions_planned - 1
  BY <1>4
<1> HIDE DEF max1
<1> QED
  BY <1>3, <1>5, ScaleIsPositive DEF MaxOf

(* The assertion of calculate_t2_node: no stress and no plan, however      *)
(* short, makes the threshold of the node's lateness 0 or negative.        *)
THEOREM T2NodeIsPositive ==
  ASSUME NEW num_processes \in Nat \ {0}, NEW instructions_planned \in Int, NEW stress \in Int
  PROVE  calculate_t2_node(num_processes, instructions_planned, stress) > 0
<1> DEFINE relative == CDiv(instructions_planned * T2_NODE_LATENESS, 100)
                       + stress * T2_STRESS_GAIN - RESCHEDULE_TIME - instructions_planned
           minimum == num_processes * T2_PROCESS_MINIMUM
<1>1. relative \in Int
  <2>1. CDiv(instructions_planned * T2_NODE_LATENESS, 100) \in Int
    BY CDivType DEF T2_NODE_LATENESS
  <2>2. stress * T2_STRESS_GAIN \in Int
    BY CDivType, ConfigAssumption DEF T2_STRESS_GAIN
  <2> QED
    BY <2>1, <2>2, ScaleIsPositive
<1>2. minimum \in Nat \ {0}
  BY TicksArePositive, ScaleIsPositive
<1>3. calculate_t2_node(num_processes, instructions_planned, stress) = MaxOf(minimum, relative)
  BY DEF calculate_t2_node
<1> HIDE DEF relative, minimum
<1> QED
  BY <1>1, <1>2, <1>3 DEF MaxOf

(* The assertion of calculate_tm2_node holds for every plan of at least    *)
(* five instructions.                                                      *)
THEOREM Tm2NodeIsNegative ==
  ASSUME NEW instructions_planned \in Nat, instructions_planned >= 5
  PROVE  calculate_tm2_node(instructions_planned) < 0
<1>1. instructions_planned * TM2_NODE_EARLINESS_CAP \in Int
      /\ instructions_planned * TM2_NODE_EARLINESS_CAP < 0
  BY DEF TM2_NODE_EARLINESS_CAP, T2_NODE_LATENESS
<1>2. CDiv(TM2_NODE_LOWER_BOUND * instructions_planned, 100) \in Int
      /\ CDiv(TM2_NODE_LOWER_BOUND * instructions_planned, 100) < 0
  BY DEF CDiv, TM2_NODE_LOWER_BOUND
<1> QED
  BY <1>1, <1>2 DEF calculate_tm2_node, MaxOf

(* The assertion of calculate_capacity_buffer holds for every process that *)
(* has something to run.                                                   *)
THEOREM CapacityBufferExceedsPlan ==
  ASSUME NEW length_plan \in Nat \ {0}
  PROVE  calculate_capacity_buffer(length_plan) > length_plan
BY DEF calculate_capacity_buffer, T2_CAPACITY_BUFFER
=============================================================================
