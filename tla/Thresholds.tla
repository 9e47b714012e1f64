------------------------------ MODULE Thresholds ------------------------------
(***************************************************************************)
(* threshold_checking.c: the thresholds t1, t2 and t-2 as functions of the *)
(* numbers the checks read.  The caller passes the fields of the task,     *)
(* process or plan the C function is given.                                *)
(***************************************************************************)
EXTENDS PBSConfig

MaxOf(a, b) == IF a < b THEN b ELSE a
MinOf(a, b) == IF b < a THEN b ELSE a

-----------------------------------------------------------------------------
(* t1: when a slot has overrun this, the task in it is preempted.  The     *)
(* source computes t1_minimum and t1_maximum from the same macro.          *)
calculate_t1(instructions_planned) ==
  LET t1_minimum  == instructions_planned + T1_NO_PREEMPTION
      t1_relative == MaxOf(instructions_planned * T1_SIGMA, t1_minimum)
      t1_maximum  == instructions_planned + T1_NO_PREEMPTION
  IN  MinOf(t1_maximum, t1_relative)

-----------------------------------------------------------------------------
(* t2: a prediction failure of a late task, process or node.               *)

calculate_t2_task(instructions_planned) ==
  MaxOf(calculate_t1(instructions_planned) + T2_SPACER,
        instructions_planned * T2_SIGMA)

check_t2_task(instructions_planned, retired_slot) ==
  retired_slot > calculate_t2_task(instructions_planned)

calculate_capacity_buffer(length_plan) == length_plan * T2_CAPACITY_BUFFER

(* Percentage of the plan of the process that has been run, at most 100. *)
calculate_process_completion(retired, length_plan) ==
  MinOf(100, CDiv(retired * 100, length_plan))

calculate_allowed_plan_buffer(buffer, retired, length_plan, num_processes) ==
  LET deadline    == buffer * T2_CAPACITY_BUFFER - buffer
      per_process == CDiv(deadline, num_processes)
      cleared     == per_process * T2_ASSIGNABLE_PLAN_BUFFER
  IN  CDiv(cleared * calculate_process_completion(retired, length_plan), 100)

(* The two levels of the check: the capacity buffer, then the plan buffer. *)
check_t2_process(late, length_plan, buffer, retired, num_processes, stress) ==
  /\ late > calculate_capacity_buffer(length_plan)
  /\ late > MaxOf(T2_PROCESS_MINIMUM,
                  calculate_allowed_plan_buffer(buffer, retired, length_plan,
                                                num_processes)
                  + stress * T2_STRESS_GAIN - RESCHEDULE_TIME)

calculate_t2_node(num_processes, instructions_planned, stress) ==
  MaxOf(num_processes * T2_PROCESS_MINIMUM,
        CDiv(instructions_planned * T2_NODE_LATENESS, 100)
        + stress * T2_STRESS_GAIN - RESCHEDULE_TIME - instructions_planned)

check_t2_node(late, num_processes, instructions_planned, stress) ==
  late > calculate_t2_node(num_processes, instructions_planned, stress)

check_t2_preemptions(times_preempted) == times_preempted > T2_MAX_PREEMPTIONS

-----------------------------------------------------------------------------
(* t-2: a prediction failure of a task or node that is early. *)

(* Variant: without the lower limit of 1.                                  *)
calculate_tm2_task_NEGATIVE(instructions_planned) ==
  LET relative == CDiv(instructions_planned * TM2_SIGMA, 100)
  IN  MaxOf(TM2_TASK_SIGNALING_START,
            IF relative > TM2_TASK_SIGNALING_LIMIT
            THEN instructions_planned + TM2_TASK_SIGNALING_LIMIT
            ELSE relative)

calculate_tm2_task(instructions_planned) ==
  LET relative == CDiv(instructions_planned * TM2_SIGMA, 100)
      max0     == IF relative > TM2_TASK_SIGNALING_LIMIT
                  THEN instructions_planned + TM2_TASK_SIGNALING_LIMIT
                  ELSE relative
      max1     == IF max0 > 0 THEN max0 ELSE 1
  IN  MaxOf(TM2_TASK_SIGNALING_START, max1)

check_tm2_task(instructions_planned, retired_slot) ==
  retired_slot < calculate_tm2_task(instructions_planned)

calculate_tm2_node(instructions_planned) ==
  MaxOf(instructions_planned * TM2_NODE_EARLINESS_CAP,
        CDiv(TM2_NODE_LOWER_BOUND * instructions_planned, 100))

check_tm2_node(late, instructions_planned) ==
  late < calculate_tm2_node(instructions_planned)
=============================================================================
