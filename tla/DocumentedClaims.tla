--------------------------- MODULE DocumentedClaims ---------------------------
(***************************************************************************)
(* What comments of the source say of the numbers the scheduler keeps and  *)
(* of the thresholds it compares them with.                                *)
(***************************************************************************)
EXTENDS MCPBScheduler

(* update_free_space_usage: "Incorporates free space into lateness         *)
(* calculation for node lateness".  When a task finishes without a signal  *)
(* and a free slot follows, the lateness changes by that of the task and   *)
(* by the length of this free slot.                                        *)
FreeSpaceIsIncorporated ==
  [][cur' = cur + 2 /\ UNCHANGED <<tasks, prediction_failures_caused>>
       => lateness' = lateness + parsed.real[cur_task] - planned[cur_task]
                      - planned[tasks[cur + 1]]]_vars

(* schedule_task_finished: "take surplus of instructions attributed to     *)
(* cur_task and remove them".  A finished task counts its real length in   *)
(* the total, an unfinished one what it has retired.                       *)
SurplusIsRemoved ==
  instructions_retired =
    SumFunctionOnSet(parsed.real, Behind(IsTask)) + SumFunctionOnSet(retired_task, Ahead(IsTask))

(* config.h: T2_SIGMA is a "percentage as int; max allowed deviation % of  *)
(* a task from its plan", with T2_SPACER as the least distance from t1.    *)
(* When the slot of a task deviates by more than that, and no earlier      *)
(* signal keeps the checks quiet, the tick signals a prediction failure.   *)
T2SigmaIsPercentage ==
  [][LET e    == cur_task
         slot == SlotRetired(INS_PER_TICK)[e]
     IN  /\ e # END /\ ~ FinishesInTick /\ stress = 0 /\ plan_state = ON_PLAN
         /\ 100 * (slot - planned[e]) > T2_SIGMA * planned[e]
         /\ slot > calculate_t1(planned[e]) + T2_SPACER
         => prediction_failures_caused' > prediction_failures_caused]_vars
=============================================================================
