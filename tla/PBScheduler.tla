----------------------------- MODULE PBScheduler -----------------------------
(***************************************************************************)
(* The level-two scheduler: pbs_run_timer_tick of pb-scheduler.c and all   *)
(* it calls in plan.c, task.c, process.c, threshold_checking.c,            *)
(* prediction_failure_handling.c and prediction_failure_signaling.c.       *)
(*                                                                         *)
(* The timer interrupt handler runs to completion, so one call is one      *)
(* step.  A plan entry is named by its index in the parsed plan, which     *)
(* orders the entries of a process as their task ids do and also tells the *)
(* free slots apart, all of which have the task id -1.                     *)
(***************************************************************************)
EXTENDS Thresholds, Preemption, SignalBuffer, Functions, FiniteSets

CONSTANTS
  NumTasks,      \* p->num_tasks
  NumProcesses,  \* p->num_processes
  Plans          \* the plans the scheduler may be given

VARIABLES
  parsed,                \* the fields of the plan that no step changes
  tasks,                 \* p->tasks: index -> plan entry
  cur,                   \* p->index_cur_task; p->cur_task is tasks + cur
  cur_process,           \* index of p->cur_process in p->processes
  planned,               \* task->instructions_planned, by entry
  retired_task,          \* task->instructions_retired_task
  retired_slot,          \* task->instructions_retired_slot
  was_preempted,         \* task->was_preempted
  state,                 \* task->state
  slot_owner,            \* task->slot_owner
  process_lateness,      \* process->lateness, by process
  process_retired,       \* process->instructions_retired
  lateness,              \* p->lateness
  instructions_retired,  \* p->instructions_retired
  plan_state,            \* p->state
  stress,                \* p->stress
  tasks_finished,        \* p->tasks_finished
  tick_counter           \* p->tick_counter

taskVars == <<planned, retired_task, retired_slot, was_preempted, state, slot_owner>>
processVars == <<process_lateness, process_retired>>
nodeVars == <<lateness, instructions_retired, plan_state, stress, tasks_finished,
              tick_counter>>
vars == <<parsed, tasks, cur, cur_process, taskVars, processVars, nodeVars, signalVars>>

-----------------------------------------------------------------------------
END == NumTasks                    \* the sentinel entry, task id -2
Indices == 0 .. NumTasks           \* of the list; also names the entries
Entries == 0 .. NumTasks - 1
Processes == 0 .. NumProcesses - 1
FREE_PID == -1
END_PID == -2
FREE_PROCESS == MAX_NUMBER_PROCESSES - 1
ProcessIndices == 0 .. MAX_NUMBER_PROCESSES - 1

PLAN_TASK_WAITING  == 0
PLAN_TASK_RUNNING  == 1
PLAN_TASK_FINISHED == 4
ON_PLAN       == 0
PLAN_FINISHED == 2
T2_SIGNAL  == 2
TM2_SIGNAL == -2

PlanType == [pid     : [Indices -> Processes \cup {FREE_PID, END_PID}],
             planned : [Indices -> Nat],
             real    : [Indices -> Nat],
             buffer  : [Processes -> Nat]]

(* parse_meta writes a terminating process behind the last one; a plan     *)
(* starts with a task (parse_plan takes its process as the current one)    *)
(* and has no two free slots in a row (asserted by handle_free_slot).      *)
ASSUME PlanAssumption ==
  /\ NumTasks \in Nat \ {0}
  /\ NumProcesses \in Nat \ {0}
  /\ NumProcesses < MAX_NUMBER_PROCESSES
  /\ \A plan \in Plans :
       /\ plan \in PlanType
       /\ plan.pid[END] = END_PID
       /\ plan.pid[0] \in Processes
       /\ \A e \in Entries : plan.pid[e] # END_PID
       /\ \A e \in Entries : plan.pid[e] = FREE_PID => plan.pid[e + 1] # FREE_PID

IsFreeSlot(e) == parsed.pid[e] = FREE_PID
IsTask(e) == parsed.pid[e] \in Processes

-----------------------------------------------------------------------------
(* parse_plan on the tokens of a plan, into a zeroed struct PBS_Plan. *)
calculate_length_plan(plan) == SumFunctionOnSet(plan.planned, Entries)

process_length_plan(plan, q) ==
  SumFunctionOnSet(plan.planned, {e \in Entries : plan.pid[e] = q})

parse_plan(plan) ==
  /\ parsed = [pid |-> plan.pid, real |-> plan.real, buffer |-> plan.buffer,
               instructions_planned |-> calculate_length_plan(plan),
               length_plan |-> [q \in Processes |-> process_length_plan(plan, q)]]
  /\ planned = plan.planned
  /\ tasks = [i \in Indices |-> i]
  /\ cur = 0
  /\ cur_process = plan.pid[0]
  /\ retired_task = [e \in Indices |-> 0]
  /\ retired_slot = [e \in Indices |-> 0]
  /\ was_preempted = [e \in Indices |-> 0]
  /\ state = [e \in Indices |-> PLAN_TASK_WAITING]
  /\ slot_owner = [e \in Indices |-> e]
  /\ process_lateness = [q \in ProcessIndices |-> 0]
  /\ process_retired = [q \in ProcessIndices |-> 0]
  /\ lateness = 0
  /\ instructions_retired = 0
  /\ plan_state = ON_PLAN
  /\ stress = 0
  /\ tasks_finished = 0
  /\ tick_counter = 0

Init ==
  /\ \E plan \in Plans : parse_plan(plan)
  /\ SignalInit

-----------------------------------------------------------------------------
(* Pieces of one call of pbs_run_timer_tick.  They are state functions of  *)
(* the state before the call.                                              *)

cur_task == tasks[cur]

(* update_retired_instructions books the instructions on the slot owner.   *)
SlotRetired(ins) == [retired_slot EXCEPT ![slot_owner[cur_task]] = @ + ins]
ProcessRetired(ins) == [process_retired EXCEPT ![cur_process] = @ + ins]

(* Variant: compares what was retired in the slot of the task.             *)
FinishesInTick_SLOT == retired_slot[cur_task] + INS_PER_TICK >= parsed.real[cur_task]

FinishesInTick == retired_task[cur_task] + INS_PER_TICK >= parsed.real[cur_task]

(* Variant: starts at the beginning of the plan.                           *)
reschedule_ALL(factor, target) ==
  [e \in Indices |-> IF parsed.pid[e] = target THEN (planned[e] * factor) \div 100
                     ELSE planned[e]]

(* reschedule: every task of process target from the cursor on is          *)
(* stretched or shrunk.                                                    *)
reschedule(factor, target) ==
  [e \in Indices |->
     IF parsed.pid[e] = target /\ \E i \in cur .. NumTasks - 1 : tasks[i] = e
     THEN (planned[e] * factor) \div 100
     ELSE planned[e]]

signal(type) ==
  add_signal([task_id |-> cur_task, process_id |-> cur_process,
              tick |-> tick_counter, type_signal |-> type])

SignalIf(transgressed, type) ==
  IF transgressed THEN signal(type) ELSE UNCHANGED signalVars

(* The index in p->processes that update_cur_process derives from a task;  *)
(* for the sentinel the pointer is out of range and not used any more.     *)
ProcessOf(e) == IF IsFreeSlot(e) THEN FREE_PROCESS ELSE parsed.pid[e]

(* Variants: skips an entry that is no free slot, too; skips a free slot   *)
(* without updating the process.                                           *)
enter_slot_SKIP(list, i, late, lengths, states) ==
  /\ cur' = i + 1
  /\ cur_process' = ProcessOf(list[i + 1])
  /\ state' = [states EXCEPT ![list[i]] = PLAN_TASK_RUNNING,
                             ![list[i + 1]] = PLAN_TASK_RUNNING]
  /\ lateness' = late - lengths[list[0]]

enter_slot_STALE(list, i, late, lengths, states) ==
  LET idle == IsFreeSlot(list[i])
      next == IF idle THEN i + 1 ELSE i
  IN  /\ cur' = next
      /\ cur_process' = ProcessOf(list[i])
      /\ state' = [states EXCEPT ![list[i]] = PLAN_TASK_RUNNING,
                                 ![list[next]] = PLAN_TASK_RUNNING]
      /\ lateness' = IF idle THEN late - lengths[list[0]] ELSE late

(* The task at index i of the list becomes the current one.  If it is a    *)
(* free slot, handle_free_slot goes on to the next one and subtracts from  *)
(* the lateness the length of the first entry of the list (p->tasks).      *)
enter_slot(list, i, late, lengths, states) ==
  LET idle == IsFreeSlot(list[i])
      next == IF idle THEN i + 1 ELSE i
  IN  /\ cur' = next
      /\ cur_process' = ProcessOf(list[next])
      /\ state' = [states EXCEPT ![list[i]] = PLAN_TASK_RUNNING,
                                 ![list[next]] = PLAN_TASK_RUNNING]
      /\ lateness' = IF idle THEN late - lengths[list[0]] ELSE late

-----------------------------------------------------------------------------
(* schedule_task_finished and switch_task *)

Tm2Transgressed ==
  \/ check_tm2_task(planned[cur_task], SlotRetired(INS_PER_TICK)[cur_task])
  \/ check_tm2_node(lateness, parsed.instructions_planned)

(* Variant: the process of the early task is rescheduled.                  *)
PlannedAfterTm2_OWN ==
  IF Tm2Transgressed THEN reschedule(SHRINK_CONSTANT, cur_process) ELSE planned

(* signal_tm2 reschedules process 0, whichever process was early. *)
PlannedAfterTm2 ==
  IF Tm2Transgressed THEN reschedule(SHRINK_CONSTANT, 0) ELSE planned

(* Variant: the lateness against the length before the rescheduling.       *)
lateness_cur_task_BEFORE == parsed.real[cur_task] - planned[cur_task]

(* How late the finished task is, against the length signal_tm2 left.      *)
lateness_cur_task == parsed.real[cur_task] - PlannedAfterTm2[cur_task]

(* switch_task goes on to the next entry of the plan. *)
switch_task(late, lengths) ==
  /\ tasks_finished' = tasks_finished + 1
  /\ enter_slot(tasks, cur + 1, late, lengths,
                [state EXCEPT ![cur_task] = PLAN_TASK_FINISHED])

TickFinishesTask ==
  LET e       == cur_task
      surplus == SlotRetired(INS_PER_TICK)[e] - parsed.real[e]
      late    == lateness_cur_task
      balanced(x) == IF Tm2Transgressed THEN 0 ELSE x
  IN  /\ e # END
      /\ FinishesInTick
      /\ retired_task' = [retired_task EXCEPT ![e] = @ + INS_PER_TICK]
      /\ retired_slot' = SlotRetired(INS_PER_TICK)
      /\ SignalIf(Tm2Transgressed, TM2_SIGNAL)
      /\ planned' = PlannedAfterTm2
      /\ process_lateness' = [process_lateness EXCEPT ![cur_process] = balanced(@) + late]
      /\ process_retired' = ProcessRetired(INS_PER_TICK - surplus)
      /\ instructions_retired' = instructions_retired + INS_PER_TICK - surplus
      /\ stress' = IF Tm2Transgressed THEN STRESS_RESET - 1
                   ELSE IF stress # 0 THEN stress - 1 ELSE stress
      /\ switch_task(balanced(lateness) + late, PlannedAfterTm2)
      /\ tick_counter' = tick_counter + 1
      /\ UNCHANGED <<parsed, tasks, was_preempted, slot_owner, plan_state>>

-----------------------------------------------------------------------------
(* schedule_timer_tick *)

T2Transgressed ==
  /\ stress <= 0 \/ check_t2_preemptions(was_preempted[cur_task])
  /\ \/ check_t2_task(planned[cur_task], SlotRetired(INS_PER_TICK)[cur_task])
     \/ check_t2_process(process_lateness[cur_process], parsed.length_plan[cur_process],
                         parsed.buffer[cur_process],
                         ProcessRetired(INS_PER_TICK)[cur_process], NumProcesses, stress)
     \/ check_t2_node(lateness, NumProcesses, parsed.instructions_planned, stress)

PlannedAfterT2 ==
  IF T2Transgressed THEN reschedule(STRETCH_CONSTANT, cur_process) ELSE planned
LatenessAfterT2 == IF T2Transgressed THEN 0 ELSE lateness
(* Variants: the stress accumulates; it is not set at all.                 *)
StressAfterT2_SUM == IF T2Transgressed THEN stress + STRESS_RESET ELSE stress
StressAfterT2_NONE == stress
StressAfterT2 == IF T2Transgressed THEN STRESS_RESET ELSE stress

(* Variant: looks at the slot as it was before the tick.                   *)
T1Transgressed_BEFORE ==
  LET task_to_check == slot_owner[cur_task]
  IN  retired_slot[task_to_check] >= calculate_t1(PlannedAfterT2[task_to_check])

(* check_t1 looks at the task whose slot the current task runs in. *)
T1Transgressed ==
  LET task_to_check == slot_owner[cur_task]
  IN  SlotRetired(INS_PER_TICK)[task_to_check]
        >= calculate_t1(PlannedAfterT2[task_to_check])

(* What every timer tick does that does not finish the task. *)
TimerTick ==
  /\ cur_task # END
  /\ ~ FinishesInTick
  /\ SignalIf(T2Transgressed, T2_SIGNAL)
  /\ planned' = PlannedAfterT2
  /\ process_lateness' = [process_lateness EXCEPT ![cur_process] =
                            IF T2Transgressed THEN 0 ELSE @]
  /\ tick_counter' = tick_counter + 1
  /\ UNCHANGED <<parsed, tasks_finished>>

(* Variant: the total is advanced by a tick, whatever was retired.         *)
Retire_TICK(ins) ==
  /\ retired_task' = [retired_task EXCEPT ![cur_task] = @ + ins]
  /\ retired_slot' = SlotRetired(ins)
  /\ process_retired' = ProcessRetired(ins)
  /\ instructions_retired' = instructions_retired + INS_PER_TICK

Retire(ins) ==
  /\ retired_task' = [retired_task EXCEPT ![cur_task] = @ + ins]
  /\ retired_slot' = SlotRetired(ins)
  /\ process_retired' = ProcessRetired(ins)
  /\ instructions_retired' = instructions_retired + ins

(* The slot is not overrun: the task keeps running. *)
TickRunsTask ==
  /\ TimerTick
  /\ ~ T1Transgressed
  /\ Retire(INS_PER_TICK)
  /\ lateness' = LatenessAfterT2
  /\ stress' = IF StressAfterT2 # 0 THEN StressAfterT2 - 1 ELSE StressAfterT2
  /\ UNCHANGED <<tasks, cur, cur_process, was_preempted, state, slot_owner, plan_state>>

(* preempt_cur_task, when a slot is found: the stack moves behind it.      *)
preempt_cur_task ==
  /\ was_preempted' = [was_preempted EXCEPT ![cur_task] = @ + 1]
  /\ \E insertion_slot, stack_size \in Indices :
       /\ IsInsertionSlot(tasks, parsed.pid, cur, NumTasks, insertion_slot)
       /\ IsStackSize(tasks, parsed.pid, slot_owner, cur, NumTasks, stack_size)
       /\ tasks' = move_tasks(tasks, cur, stack_size, insertion_slot)
       /\ slot_owner' = move_slots(slot_owner, tasks, cur, stack_size, insertion_slot)

TickPreemptsTask ==
  /\ TimerTick
  /\ T1Transgressed
  /\ Retire(INS_PER_TICK)
  /\ preempt_cur_task
  /\ enter_slot(tasks', cur, LatenessAfterT2, PlannedAfterT2, state)
  /\ stress' = StressAfterT2
  /\ UNCHANGED plan_state

(* handle_no_preemption_slot_found: no later task of the process is left   *)
(* to preempt into.  The missing instructions are booked at once and the   *)
(* plan is declared finished.                                              *)
TickFindsNoSlot ==
  /\ TimerTick
  /\ T1Transgressed
  /\ ~ \E k \in Indices : IsInsertionSlot(tasks, parsed.pid, cur, NumTasks, k)
  /\ Retire(parsed.real[cur_task] - retired_task[cur_task])
  /\ was_preempted' = [was_preempted EXCEPT ![cur_task] = @ + 1]
  /\ state' = [state EXCEPT ![cur_task] = PLAN_TASK_FINISHED]
  /\ plan_state' = PLAN_FINISHED
  /\ lateness' = LatenessAfterT2
  /\ stress' = StressAfterT2
  /\ UNCHANGED <<tasks, cur, cur_process, slot_owner>>

-----------------------------------------------------------------------------
(* At the sentinel pbs_run_timer_tick returns at once. *)
TickAfterEnd == cur_task = END /\ UNCHANGED vars

pbs_run_timer_tick ==
  \/ TickFinishesTask
  \/ TickRunsTask
  \/ TickPreemptsTask
  \/ TickFindsNoSlot

Next == pbs_run_timer_tick \/ TickAfterEnd

(* The tick function is called after each timer interrupt. *)
Spec == Init /\ [][Next]_vars /\ WF_vars(pbs_run_timer_tick)

-----------------------------------------------------------------------------
(* Every variable has its type. *)
TypeOK ==
  /\ parsed.pid \in [Indices -> Processes \cup {FREE_PID, END_PID}]
  /\ parsed.real \in [Indices -> Nat]
  /\ tasks \in [Indices -> Indices]
  /\ cur \in Indices
  /\ cur_process \in ProcessIndices \cup {END_PID}
  /\ planned \in [Indices -> Nat]
  /\ retired_task \in [Indices -> Nat]
  /\ retired_slot \in [Indices -> Nat]
  /\ was_preempted \in [Indices -> Nat]
  /\ state \in [Indices -> {PLAN_TASK_WAITING, PLAN_TASK_RUNNING, PLAN_TASK_FINISHED}]
  /\ slot_owner \in [Indices -> Indices]
  /\ process_lateness \in [ProcessIndices -> Int]
  /\ process_retired \in [ProcessIndices -> Int]
  /\ lateness \in Int
  /\ instructions_retired \in Int
  /\ plan_state \in {ON_PLAN, PLAN_FINISHED}
  /\ stress \in 0 .. STRESS_RESET
  /\ tasks_finished \in Nat
  /\ tick_counter \in Nat

(* no_id_is_duplicated, asserted after every preemption, and its           *)
(* companion same_ids: moving tasks neither duplicates nor loses an entry, *)
(* and the sentinel that ends every loop over the list stays at its end.   *)
PlanIsPermutation ==
  /\ \A i, j \in Indices : tasks[i] = tasks[j] => i = j
  /\ \A e \in Indices : \E i \in Indices : tasks[i] = e
  /\ tasks[NumTasks] = END

(* Between two ticks the current entry is never a free slot (asserted in   *)
(* full_run and by preempt_cur_task), and p->cur_process, which is updated *)
(* apart from p->cur_task, is the process of the current task.             *)
CurTaskIsRunnable ==
  /\ ~ IsFreeSlot(cur_task)
  /\ cur_process = parsed.pid[cur_task]

(* Two tasks of a process follow each other directly only in the tail of   *)
(* the plan that belongs to that process alone, as in test/plan.log.       *)
IsSpread(pid) ==
  \A e \in 0 .. NumTasks - 2 :
    pid[e] = pid[e + 1] => \A f \in e .. NumTasks - 1 : pid[f] = pid[e]

(* order_is_kept: preemptions never reorder the tasks of a process. *)
OrderIsKept ==
  \A i, j \in 0 .. NumTasks - 1 :
    i < j /\ IsTask(tasks[i]) /\ parsed.pid[tasks[i]] = parsed.pid[tasks[j]]
      => tasks[i] < tasks[j]

(* The slot an unfinished task runs in is its own place or lies ahead of   *)
(* it, never behind the cursor: find_task_with_task_id finds the owner     *)
(* although tasks keep moving, and a finished slot is not booked again.    *)
OwnerIsAhead ==
  \A i \in cur .. NumTasks - 1 :
    \E j \in i .. NumTasks - 1 : slot_owner[tasks[i]] = tasks[j]

(* Preempted tasks wait in one stack: the slot owner of an unfinished task *)
(* is at or behind it, and everything between the two belongs to the same  *)
(* process and slot, so that get_stack_size_preempted_tasks finds all of   *)
(* it and the owner can always be looked up.                               *)
SlotStacks ==
  \A i \in cur .. NumTasks - 1 :
    \E j \in i .. NumTasks - 1 :
      /\ slot_owner[tasks[i]] = tasks[j]
      /\ \A k \in i .. j : /\ slot_owner[tasks[k]] = tasks[j]
                           /\ parsed.pid[tasks[k]] = parsed.pid[tasks[i]]

(* Exactly the tasks behind the cursor are finished; only the task that    *)
(* handle_no_preemption_slot_found finishes is still under the cursor.     *)
FinishedBehindCursor ==
  /\ \A i \in 0 .. cur - 1 :
       IsTask(tasks[i]) => /\ state[tasks[i]] = PLAN_TASK_FINISHED
                           /\ retired_task[tasks[i]] >= parsed.real[tasks[i]]
  /\ \A i \in cur .. NumTasks - 1 :
       state[tasks[i]] = PLAN_TASK_FINISHED => i = cur /\ plan_state = PLAN_FINISHED
  /\ tasks_finished = Cardinality({i \in 0 .. cur - 1 : IsTask(tasks[i])})

(* The entries the predicate selects, behind and from the cursor on. *)
Behind(P(_)) == {e \in Entries : P(e) /\ \E i \in 0 .. cur - 1 : tasks[i] = e}
Ahead(P(_))  == {e \in Entries : P(e) /\ \E i \in cur .. NumTasks - 1 : tasks[i] = e}

Accounted(total, P(_)) ==
  total = SumFunctionOnSet(parsed.real, Behind(P)) + SumFunctionOnSet(retired_slot, Ahead(P))

(* The surplus is taken from the slot, not from the task, so while a       *)
(* preempted task is unfinished the totals of plan and process count its   *)
(* instructions in the slots they ran in; every finished task counts       *)
(* exactly its real length, and at the end the totals are exact.           *)
InstructionAccounting ==
  /\ Accounted(instructions_retired, IsTask)
  /\ \A q \in Processes :
       Accounted(process_retired[q], LAMBDA e : parsed.pid[e] = q)

(* No tick is lost on the way: also when tasks are preempted and finish in *)
(* other slots, they have retired exactly the instructions of all ticks    *)
(* (and more once handle_no_preemption_slot_found has booked what was      *)
(* missing), none of them more than a tick beyond its real length.  So the *)
(* number of ticks any plan can take is limited.                           *)
TicksBounded ==
  LET ticks   == tick_counter * INS_PER_TICK
      retired == SumFunctionOnSet(retired_task, Entries)
      limit   == [e \in Entries |-> IF IsTask(e) THEN parsed.real[e] + INS_PER_TICK ELSE 0]
  IN  /\ ticks <= retired
      /\ plan_state = ON_PLAN => ticks = retired
      /\ retired <= SumFunctionOnSet(limit, Entries)

(* t1 bounds the overrun of a slot: it exceeds t1 by less than a tick for  *)
(* its owner and for every preempted task that finished in it              *)
(* (schedule_task_finished does not check t1).  Stretching a slot leaves   *)
(* it more room; only a slot of process 0, which signal_tm2 shrinks, may   *)
(* already have taken more when it is rescheduled.                         *)
(* This is said of plans in which a task has no neighbour of its process;  *)
(* elsewhere a task can move into a slot whose owner is preempted itself.  *)
SlotOverrunBounded ==
  plan_state = ON_PLAN =>
    \A e \in Entries :
      LET guests == {b \in Entries \ {e} : slot_owner[b] = e
                                           /\ state[b] = PLAN_TASK_FINISHED}
      IN  prediction_failures_caused = 0 \/ parsed.pid[e] # 0 =>
            retired_slot[e] < calculate_t1(planned[e])
                              + INS_PER_TICK * (1 + Cardinality(guests))

(* A preemption uses up a later task of the process, so a task is not      *)
(* preempted more often than its process has later tasks (and once more    *)
(* when no slot is left).                                                  *)
PreemptionsBounded ==
  \A e \in Entries :
    was_preempted[e] <= Cardinality({f \in e + 1 .. NumTasks - 1 :
                                       parsed.pid[f] = parsed.pid[e]})
                        + (IF plan_state = PLAN_FINISHED THEN 1 ELSE 0)

(* What the entry at index i of the list adds to the lateness once it is   *)
(* behind the cursor; a free slot takes the length of the first entry.     *)
LatenessOf(i) ==
  IF IsFreeSlot(tasks[i]) THEN -planned[tasks[0]]
  ELSE parsed.real[tasks[i]] - planned[tasks[i]]

(* The lateness is what the entries since the latest signal took more than *)
(* is planned for them now.  A signal balances the lateness before its own *)
(* task is counted, and the task counts with the length that signal_tm2    *)
(* has shrunk, so that the lateness agrees with the rescheduled plan.      *)
LatenessAccounting ==
  \E start \in 0 .. cur :
    /\ prediction_failures_caused = 0 => start = 0
    /\ prediction_failures_caused # 0 /\ get_pbs_signal(0).type_signal = TM2_SIGNAL
         => tasks[start] = get_pbs_signal(0).task_id
    /\ lateness = SumFunctionOnSet([i \in Indices |-> LatenessOf(i)], start .. cur - 1)

(* length_plan is a total of the plan as it was parsed, which reschedule   *)
(* does not update: it is the length of the process until the first        *)
(* signal, and then a lower bound, except for process 0, which is the only *)
(* one that signal_tm2 ever shrinks.                                       *)
StaleTotals ==
  \A q \in Processes :
    LET length == SumFunctionOnSet(planned, {e \in Entries : parsed.pid[e] = q})
    IN  /\ prediction_failures_caused = 0 => length = parsed.length_plan[q]
        /\ q # 0 => length >= parsed.length_plan[q]

(* What is behind the cursor is history: no preemption, late booking on a  *)
(* slot or rescheduling changes it any more.                               *)
HistoryIsFixed ==
  [][\A i \in 0 .. cur - 1 :
       LET e == tasks[i]
       IN  /\ tasks'[i] = e
           /\ planned'[e] = planned[e]
           /\ retired_task'[e] = retired_task[e]
           /\ retired_slot'[e] = retired_slot[e]
           /\ slot_owner'[e] = slot_owner[e]]_vars

(* The ring buffer of a running scheduler: the signals get_pbs_signal      *)
(* returns get strictly older, also across a wrap around, and none is from *)
(* the future.                                                             *)
SignalsAreOrdered ==
  LET known == {k \in SigIndices : k < prediction_failures_caused}
  IN  /\ \A k \in known : get_pbs_signal(k).tick < tick_counter
      /\ \A k, m \in known : k < m => get_pbs_signal(m).tick < get_pbs_signal(k).tick

(* After a signal the stress keeps t2 quiet for STRESS_RESET ticks; only a *)
(* task that was preempted too often is signalled earlier.                 *)
T2SignalsAreSpaced ==
  [][LET before == get_pbs_signal(0)
         new    == get_pbs_signal(0)'
     IN  prediction_failures_caused # 0 /\ before # new /\ new.type_signal = T2_SIGNAL
           => \/ new.tick >= before.tick + STRESS_RESET
              \/ check_t2_preemptions(was_preempted[new.task_id])]_vars

-----------------------------------------------------------------------------
(* What the scheduler promises, see PlanExecution. *)
execution_process == [e \in {f \in Entries : IsTask(f)} |-> parsed.pid[e]]
execution_finished == {e \in Entries : IsTask(e) /\ \E i \in 0 .. cur - 1 : tasks[i] = e}

Execution == INSTANCE PlanExecution WITH
               process  <- execution_process,
               finished <- execution_finished,
               running  <- cur_task,
               None     <- END

(* Every tick is a step of PlanExecution or changes nothing it shows.      *)
ImplementsPlanExecution == Execution!Spec

(* However often its tasks are preempted or rescheduled, the whole plan is *)
(* run and the scheduler comes to rest at the sentinel.                    *)
EveryTaskFinishes ==
  <>[](execution_finished = DOMAIN execution_process /\ cur_task = END)
=============================================================================
