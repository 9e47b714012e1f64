------------------------------- MODULE StartRun -------------------------------
(***************************************************************************)
(* start_run of pb-scheduler.c, the loop that runs a plan in the kernel:   *)
(* timer ticks are called until the plan says that it is finished.         *)
(***************************************************************************)
EXTENDS MCPBScheduler

VARIABLE in_start_run  \* has start_run not returned yet?

StartRunInit == Init /\ in_start_run = TRUE

RunTick ==
  /\ in_start_run
  /\ plan_state # PLAN_FINISHED
  /\ Next
  /\ UNCHANGED in_start_run

Return ==
  /\ in_start_run
  /\ plan_state = PLAN_FINISHED
  /\ in_start_run' = FALSE
  /\ UNCHANGED vars

StartRunNext == RunTick \/ Return

(* The loop does not pause. *)
StartRunSpec ==
  /\ StartRunInit
  /\ [][StartRunNext]_<<vars, in_start_run>>
  /\ WF_<<vars, in_start_run>>(StartRunNext)

-----------------------------------------------------------------------------
(* "Plan finished!", the message of start_run, comes for every plan.       *)
StartRunReturns == <>(in_start_run = FALSE)

(* "Plan finished!", the message of start_run, is true: no task is left.   *)
PlanIsFinished == in_start_run = FALSE => execution_finished = DOMAIN execution_process
=============================================================================
