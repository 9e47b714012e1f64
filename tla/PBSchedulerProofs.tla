-------------------------- MODULE PBSchedulerProofs --------------------------
(***************************************************************************)
(* Proofs about the scheduler for every plan: any number of tasks and      *)
(* processes, any lengths and any values of the configuration macros.      *)
(***************************************************************************)
EXTENDS PBScheduler, CommonLemmas, TLAPS

(* The fields of the plan that the proof needs; parsed does not change.    *)
PlanOK ==
  /\ parsed.pid[END] = END_PID
  /\ \A e \in Entries : parsed.pid[e] # END_PID

(* No two free slots follow each other in the part of the list that is     *)
(* still to be run.                                                        *)
FreeSlotsApart ==
  \A i \in cur .. NumTasks - 1 : IsFreeSlot(tasks[i]) => ~ IsFreeSlot(tasks[i + 1])

(* The inductive invariant. *)
IInv ==
  /\ TypeOK
  /\ PlanOK
  /\ PlanIsPermutation
  /\ FreeSlotsApart
  /\ CurTaskIsRunnable
  /\ OwnerIsAhead

-----------------------------------------------------------------------------
(* A plan is in the struct, and nothing of it has run; what the signal      *)
(* buffer holds is left open.                                              *)
PlanIsLoaded == \E plan \in Plans : parse_plan(plan)

LEMMA InitLoads == Init => PlanIsLoaded
BY DEF Init, PlanIsLoaded

(* Loading a plan establishes the invariant. *)
LEMMA InitIInv == PlanIsLoaded => IInv
<1> SUFFICES ASSUME PlanIsLoaded PROVE IInv
  OBVIOUS
<1>1. PICK plan \in Plans : parse_plan(plan)
  BY DEF PlanIsLoaded
<1>2. /\ plan \in PlanType
      /\ plan.pid[END] = END_PID
      /\ plan.pid[0] \in Processes
      /\ \A e \in Entries : plan.pid[e] # END_PID
      /\ \A e \in Entries : plan.pid[e] = FREE_PID => plan.pid[e + 1] # FREE_PID
      /\ NumTasks \in Nat \ {0}
      /\ NumProcesses \in Nat \ {0}
  BY PlanAssumption
<1>3. /\ parsed.pid = plan.pid
      /\ parsed.real = plan.real
      /\ tasks = [i \in Indices |-> i]
      /\ cur = 0
  BY <1>1 DEF parse_plan
<1>4. TypeOK
  BY <1>1, <1>2, <1>3, PlanAssumption, ConfigAssumption
  DEF TypeOK, parse_plan, PlanType, Indices, Entries, Processes, ProcessIndices, END,
      PLAN_TASK_WAITING, ON_PLAN
<1>5. PlanOK
  BY <1>2, <1>3 DEF PlanOK
<1>6. PlanIsPermutation
  BY <1>2, <1>3 DEF PlanIsPermutation, Indices, END
<1>7. FreeSlotsApart
  BY <1>2, <1>3 DEF FreeSlotsApart, IsFreeSlot, Entries, Indices
<1>8. CurTaskIsRunnable
  <2>1. cur_task = 0
    BY <1>2, <1>3 DEF cur_task, Indices
  <2>2. cur_process = plan.pid[0]
    BY <1>1 DEF parse_plan
  <2> QED
    BY <2>1, <2>2, <1>2, <1>3 DEF CurTaskIsRunnable, IsFreeSlot, FREE_PID, Processes
<1>9. OwnerIsAhead
  <2>1. slot_owner = [e \in Indices |-> e]
    BY <1>1 DEF parse_plan
  <2> QED
    BY <2>1, <1>2, <1>3 DEF OwnerIsAhead, Indices
<1> QED
  BY <1>4, <1>5, <1>6, <1>7, <1>8, <1>9 DEF IInv

-----------------------------------------------------------------------------
(* move_tasks seen from the new list: index i holds what was at Source(i), *)
(* and what was at j is now at Target(j).                                  *)
Source(i, s, k) ==
  IF i \in k - s + 1 .. k THEN cur + (i - (k - s + 1))
  ELSE IF i \in cur .. k - s THEN i + s
  ELSE i

Target(j, s, k) ==
  IF j \in cur .. cur + s - 1 THEN (j - cur) + (k - s + 1)
  ELSE IF j \in cur + s .. k THEN j - s
  ELSE j

(* The stack and the slot the scheduler computes fit into the list.        *)
Fits(s, k) ==
  /\ s \in Nat \ {0}
  /\ k \in Nat
  /\ cur \in Nat
  /\ cur + s <= k
  /\ k <= NumTasks - 2

(* The stack ends before the first task of another process, and that task  *)
(* is at or before the insertion slot.                                     *)
LEMMA StackFits ==
  ASSUME cur \in Nat, NumTasks \in Nat, NEW s, NEW k,
         IsInsertionSlot(tasks, parsed.pid, cur, NumTasks, k),
         IsStackSize(tasks, parsed.pid, slot_owner, cur, NumTasks, s)
  PROVE  /\ Fits(s, k)
         /\ parsed.pid[tasks[k + 1]] = parsed.pid[tasks[cur]]
         /\ \A j \in cur .. cur + s - 1 : parsed.pid[tasks[j]] = parsed.pid[tasks[cur]]
<1>1. PICK gap \in cur + 1 .. k : parsed.pid[tasks[gap]] # parsed.pid[tasks[cur]]
  BY DEF IsInsertionSlot
<1>2. \A j \in cur .. cur + s - 1 : parsed.pid[tasks[j]] = parsed.pid[tasks[cur]]
  BY DEF IsStackSize
<1>3. s \in 1 .. NumTasks - cur /\ k \in cur + 1 .. NumTasks - 2
  BY DEF IsStackSize, IsInsertionSlot
<1>4. gap \notin cur .. cur + s - 1
  BY <1>1, <1>2
<1>5. Fits(s, k)
  BY <1>3, <1>4 DEF Fits
<1> QED
  BY <1>2, <1>5 DEF IsInsertionSlot

(* Moving tasks permutes the indices, leaves those before the cursor and   *)
(* behind the insertion slot alone, and shifts the others in order.        *)
LEMMA SourceAndTarget ==
  ASSUME NumTasks \in Nat, NEW s, NEW k, Fits(s, k)
  PROVE  /\ \A i \in Indices : Source(i, s, k) \in Indices
         /\ \A j \in Indices : Target(j, s, k) \in Indices
         /\ \A i, j \in Indices : Source(i, s, k) = Source(j, s, k) => i = j
         /\ \A j \in Indices : Source(Target(j, s, k), s, k) = j
         /\ \A i \in Indices : i < cur \/ i > k => Source(i, s, k) = i
         /\ \A i \in cur .. NumTasks - 1 : Source(i, s, k) \in cur .. NumTasks - 1
         /\ \A i \in cur .. NumTasks - 1 :
              \/ Source(i, s, k) \in cur .. cur + s - 1 /\ i <= k
              \/ /\ Source(i, s, k) \in cur + s .. NumTasks - 1
                 /\ \A m \in Source(i, s, k) .. NumTasks - 1 :
                      Target(m, s, k) \in i .. NumTasks - 1
BY DEF Fits, Source, Target, Indices

(* The list after move_tasks in terms of Source.                           *)
LEMMA MovedList ==
  ASSUME NumTasks \in Nat, NEW s, NEW k, Fits(s, k), tasks \in [Indices -> Indices],
         NEW list, list = move_tasks(tasks, cur, s, k)
  PROVE  /\ list \in [Indices -> Indices]
         /\ \A i \in Indices : list[i] = tasks[Source(i, s, k)]
<1>1. DOMAIN list = Indices /\ DOMAIN tasks = Indices
  BY DEF move_tasks
<1>2. ASSUME NEW i \in Indices PROVE list[i] = tasks[Source(i, s, k)]
  BY <1>1 DEF move_tasks, Source
<1>3. \A i \in Indices : Source(i, s, k) \in Indices
  BY SourceAndTarget
<1>4. list = [i \in Indices |-> list[i]]
  BY <1>1 DEF move_tasks
<1> QED
  BY <1>2, <1>3, <1>4

-----------------------------------------------------------------------------
(* Entering the slot at index i of a list whose free slots are apart ends  *)
(* at a task, or at the sentinel, and at its process.                      *)
LEMMA EnterSlot ==
  ASSUME TypeOK, PlanOK, NumTasks \in Nat \ {0},
         NEW list \in [Indices -> Indices], list[NumTasks] = END,
         NEW i \in Indices,
         \A m \in i .. NumTasks - 1 : IsFreeSlot(list[m]) => ~ IsFreeSlot(list[m + 1]),
         NEW late \in Int,
         NEW lengths \in [Indices -> Nat],
         NEW states \in [Indices -> {PLAN_TASK_WAITING, PLAN_TASK_RUNNING, PLAN_TASK_FINISHED}],
         enter_slot(list, i, late, lengths, states)
  PROVE  /\ cur' \in Indices
         /\ cur' = i \/ cur' = i + 1
         /\ ~ IsFreeSlot(list[cur'])
         /\ cur_process' = parsed.pid[list[cur']]
         /\ lateness' \in Int
         /\ state' \in [Indices -> {PLAN_TASK_WAITING, PLAN_TASK_RUNNING, PLAN_TASK_FINISHED}]
<1>1. IsFreeSlot(list[i]) => i \in 0 .. NumTasks - 1
  <2>1. ~ IsFreeSlot(list[NumTasks])
    BY DEF PlanOK, IsFreeSlot, FREE_PID, END_PID
  <2>2. IsFreeSlot(list[i]) => i # NumTasks
    BY <2>1
  <2> QED
    BY <2>2 DEF Indices
<1>2. IsFreeSlot(list[i]) => i + 1 \in Indices /\ ~ IsFreeSlot(list[i + 1])
  <2>1. i \in 0 .. NumTasks - 1 => i + 1 \in Indices
    BY DEF Indices
  <2> QED
    BY <1>1, <2>1
<1>3. /\ cur' = IF IsFreeSlot(list[i]) THEN i + 1 ELSE i
      /\ cur_process' = ProcessOf(list[cur'])
      /\ lateness' = IF IsFreeSlot(list[i]) THEN late - lengths[list[0]] ELSE late
      /\ state' = [states EXCEPT ![list[i]] = PLAN_TASK_RUNNING,
                                 ![list[cur']] = PLAN_TASK_RUNNING]
  BY DEF enter_slot
<1>4. cur' \in Indices /\ (cur' = i \/ cur' = i + 1) /\ ~ IsFreeSlot(list[cur'])
  BY <1>2, <1>3
<1>5. cur_process' = parsed.pid[list[cur']]
  BY <1>3, <1>4 DEF ProcessOf
<1>6. lateness' \in Int
  BY <1>3 DEF Indices
<1>7. state' \in [Indices -> {PLAN_TASK_WAITING, PLAN_TASK_RUNNING, PLAN_TASK_FINISHED}]
  BY <1>3
<1> QED
  BY <1>4, <1>5, <1>6, <1>7

(* Rescheduling keeps the lengths natural and what is behind the cursor.   *)
LEMMA Reschedule ==
  ASSUME TypeOK, NumTasks \in Nat, NEW factor \in Nat, NEW target
  PROVE  /\ reschedule(factor, target) \in [Indices -> Nat]
         /\ \A e \in Indices :
              (\A m \in cur .. NumTasks - 1 : tasks[m] # e)
                => reschedule(factor, target)[e] = planned[e]
<1>1. \A e \in Indices : planned[e] \in Nat
  BY DEF TypeOK
<1>2. \A e \in Indices : (planned[e] * factor) \div 100 \in Nat
  <2> SUFFICES ASSUME NEW e \in Indices PROVE (planned[e] * factor) \div 100 \in Nat
    OBVIOUS
  <2>1. planned[e] * factor \in Nat
    BY <1>1
  <2> QED
    BY <2>1
<1> QED
  BY <1>1, <1>2 DEF reschedule

LEMMA PlannedAfter ==
  ASSUME TypeOK, NumTasks \in Nat
  PROVE  /\ PlannedAfterTm2 \in [Indices -> Nat]
         /\ PlannedAfterT2 \in [Indices -> Nat]
         /\ \A e \in Indices :
              (\A m \in cur .. NumTasks - 1 : tasks[m] # e)
                => PlannedAfterTm2[e] = planned[e] /\ PlannedAfterT2[e] = planned[e]
<1>1. planned \in [Indices -> Nat]
  BY DEF TypeOK
<1>2. SHRINK_CONSTANT \in Nat /\ STRETCH_CONSTANT \in Nat
  BY DEF SHRINK_CONSTANT, STRETCH_CONSTANT
<1> QED
  BY <1>1, <1>2, Reschedule DEF PlannedAfterTm2, PlannedAfterT2

(* A tick runs a task that is in the list.                                 *)
LEMMA TaskRuns ==
  ASSUME IInv, cur_task # END
  PROVE  /\ cur \in 0 .. NumTasks - 1
         /\ cur_task \in Indices
         /\ cur_process = parsed.pid[cur_task]
         /\ cur_process \in Processes
         /\ cur_process \in ProcessIndices
         /\ slot_owner[cur_task] \in Indices
         /\ \E j \in cur .. NumTasks - 1 : slot_owner[cur_task] = tasks[j]
<1>1. cur \in Indices /\ tasks[NumTasks] = END /\ tasks \in [Indices -> Indices]
  BY DEF IInv, TypeOK, PlanIsPermutation
<1>2. cur \in 0 .. NumTasks - 1 /\ cur_task \in Indices
  BY <1>1, PlanAssumption DEF cur_task, Indices
<1>3. cur_task \in Entries
  BY <1>2, PlanAssumption DEF Indices, Entries, END
<1>4. parsed.pid[cur_task] \in Processes
  BY <1>2, <1>3 DEF IInv, TypeOK, PlanOK, CurTaskIsRunnable, IsFreeSlot, FREE_PID, END_PID
<1>5. \E j \in cur .. NumTasks - 1 : slot_owner[cur_task] = tasks[j]
  BY <1>2, PlanAssumption DEF IInv, OwnerIsAhead, cur_task
<1>6. Processes \subseteq ProcessIndices
  BY PlanAssumption, ConfigAssumption DEF Processes, ProcessIndices
<1> QED
  BY <1>2, <1>4, <1>5, <1>6 DEF IInv, TypeOK, CurTaskIsRunnable

(* Retiring instructions keeps the counters of their types.                *)
LEMMA SlotRetiredType ==
  ASSUME IInv, cur_task # END, NEW ins \in Nat
  PROVE  SlotRetired(ins) \in [Indices -> Nat]
BY TaskRuns DEF IInv, TypeOK, SlotRetired

LEMMA RetireType ==
  ASSUME IInv, cur_task # END, NEW ins \in Nat, Retire(ins)
  PROVE  /\ retired_task' \in [Indices -> Nat]
         /\ retired_slot' \in [Indices -> Nat]
         /\ process_retired' \in [ProcessIndices -> Int]
         /\ instructions_retired' \in Int
<1>1. retired_slot' \in [Indices -> Nat]
  BY SlotRetiredType DEF Retire
<1>2. retired_task' \in [Indices -> Nat]
  BY TaskRuns DEF IInv, TypeOK, Retire
<1>3. process_retired' \in [ProcessIndices -> Int]
  BY TaskRuns DEF IInv, TypeOK, Retire, ProcessRetired
<1>4. instructions_retired' \in Int
  BY DEF IInv, TypeOK, Retire
<1> QED
  BY <1>1, <1>2, <1>3, <1>4

LEMMA TimerTickType ==
  ASSUME IInv, TimerTick
  PROVE  /\ parsed' = parsed
         /\ planned' \in [Indices -> Nat]
         /\ process_lateness' \in [ProcessIndices -> Int]
         /\ tasks_finished' \in Nat
         /\ tick_counter' \in Nat
         /\ LatenessAfterT2 \in Int
         /\ StressAfterT2 \in 0 .. STRESS_RESET
<1>1. planned' \in [Indices -> Nat]
  BY PlannedAfter, PlanAssumption DEF IInv, TimerTick
<1>2. process_lateness' \in [ProcessIndices -> Int]
  BY TaskRuns DEF IInv, TypeOK, TimerTick
<1>3. parsed' = parsed /\ tasks_finished' \in Nat /\ tick_counter' \in Nat
  BY DEF IInv, TypeOK, TimerTick
<1>4. LatenessAfterT2 \in Int
  BY DEF IInv, TypeOK, LatenessAfterT2
<1>5. StressAfterT2 \in 0 .. STRESS_RESET
  BY ConfigAssumption DEF IInv, TypeOK, StressAfterT2
<1> QED
  BY <1>1, <1>2, <1>3, <1>4, <1>5

-----------------------------------------------------------------------------
(* A step that moves no task and no slot and puts the cursor on a later    *)
(* task, or leaves it, keeps the invariant.                                *)
LEMMA CursorMoves ==
  ASSUME IInv, TypeOK', UNCHANGED <<parsed, tasks, slot_owner>>,
         cur' \in Indices, cur' >= cur,
         ~ IsFreeSlot(tasks[cur']), cur_process' = parsed.pid[tasks[cur']]
  PROVE  IInv'
<1>1. cur \in Indices /\ NumTasks \in Nat
  BY PlanAssumption DEF IInv, TypeOK
<1>2. cur' .. NumTasks - 1 \subseteq cur .. NumTasks - 1
  BY <1>1 DEF Indices
<1>3. PlanOK' /\ PlanIsPermutation'
  BY DEF IInv, PlanOK, PlanIsPermutation
<1>4. FreeSlotsApart'
  BY <1>2 DEF IInv, FreeSlotsApart, IsFreeSlot
<1>5. CurTaskIsRunnable'
  BY DEF CurTaskIsRunnable, IsFreeSlot, cur_task
<1>6. OwnerIsAhead'
  BY <1>2 DEF IInv, OwnerIsAhead
<1> QED
  BY <1>3, <1>4, <1>5, <1>6 DEF IInv

LEMMA TickFinishesTaskIInv ==
  ASSUME IInv, TickFinishesTask
  PROVE  IInv'
<1> DEFINE late == lateness_cur_task
           lateNode == (IF Tm2Transgressed THEN 0 ELSE lateness) + late
           finished == [state EXCEPT ![cur_task] = PLAN_TASK_FINISHED]
<1>1. cur_task # END
  BY DEF TickFinishesTask
<1>2. /\ cur \in 0 .. NumTasks - 1
      /\ cur_task \in Indices
      /\ cur_process \in ProcessIndices
  BY <1>1, TaskRuns
<1>3. PlannedAfterTm2 \in [Indices -> Nat]
  BY PlannedAfter, PlanAssumption DEF IInv
<1>4. late \in Int /\ lateNode \in Int
  BY <1>2, <1>3 DEF IInv, TypeOK, lateness_cur_task
<1>5. finished \in [Indices -> {PLAN_TASK_WAITING, PLAN_TASK_RUNNING, PLAN_TASK_FINISHED}]
  BY DEF IInv, TypeOK
<1>6. enter_slot(tasks, cur + 1, lateNode, PlannedAfterTm2, finished)
  BY DEF TickFinishesTask, switch_task
<1>7. cur + 1 \in Indices
  BY <1>2, PlanAssumption DEF Indices
<1>8. tasks \in [Indices -> Indices] /\ tasks[NumTasks] = END
  BY DEF IInv, TypeOK, PlanIsPermutation
<1>9. \A m \in cur + 1 .. NumTasks - 1 :
        IsFreeSlot(tasks[m]) => ~ IsFreeSlot(tasks[m + 1])
  BY <1>2 DEF IInv, FreeSlotsApart
<1>10. /\ cur' \in Indices
       /\ cur' = cur + 1 \/ cur' = cur + 2
       /\ ~ IsFreeSlot(tasks[cur'])
       /\ cur_process' = parsed.pid[tasks[cur']]
       /\ lateness' \in Int
       /\ state' \in [Indices -> {PLAN_TASK_WAITING, PLAN_TASK_RUNNING, PLAN_TASK_FINISHED}]
  <2> HIDE DEF late, lateNode, finished
  <2>1. /\ cur' \in Indices
        /\ cur' = cur + 1 \/ cur' = (cur + 1) + 1
        /\ ~ IsFreeSlot(tasks[cur'])
        /\ cur_process' = parsed.pid[tasks[cur']]
        /\ lateness' \in Int
        /\ state' \in [Indices -> {PLAN_TASK_WAITING, PLAN_TASK_RUNNING, PLAN_TASK_FINISHED}]
    BY <1>3, <1>4, <1>5, <1>6, <1>7, <1>8, <1>9, EnterSlot, PlanAssumption DEF IInv
  <2> QED
    BY <2>1, <1>2
<1>11. UNCHANGED <<parsed, tasks, slot_owner, was_preempted, plan_state>>
  BY DEF TickFinishesTask
<1>12. TypeOK'
  <2>1. SlotRetired(INS_PER_TICK) \in [Indices -> Nat]
    BY <1>1, SlotRetiredType, ConfigAssumption
  <2>2. retired_task' \in [Indices -> Nat] /\ retired_slot' \in [Indices -> Nat]
    <3>1. retired_slot' \in [Indices -> Nat]
      BY <2>1 DEF TickFinishesTask
    <3>2. retired_task' = [retired_task EXCEPT ![cur_task] = @ + INS_PER_TICK]
      BY DEF TickFinishesTask
    <3>3. retired_task' \in [Indices -> Nat]
      BY <3>2, <1>2, ConfigAssumption DEF IInv, TypeOK
    <3> QED
      BY <3>1, <3>3
  <2>3. planned' \in [Indices -> Nat]
    BY <1>3 DEF TickFinishesTask
  <2>4. process_lateness' \in [ProcessIndices -> Int]
    <3>1. process_lateness' = [process_lateness EXCEPT ![cur_process] =
                                 (IF Tm2Transgressed THEN 0 ELSE @) + late]
      BY DEF TickFinishesTask
    <3> QED
      BY <3>1, <1>2, <1>4 DEF IInv, TypeOK
  <2>5. process_retired' \in [ProcessIndices -> Int] /\ instructions_retired' \in Int
    <3> DEFINE ins == INS_PER_TICK - (SlotRetired(INS_PER_TICK)[cur_task] - parsed.real[cur_task])
    <3>1. ins \in Int
      BY <2>1, <1>2, ConfigAssumption DEF IInv, TypeOK
    <3>2. /\ process_retired' = [process_retired EXCEPT ![cur_process] = @ + ins]
          /\ instructions_retired' =
               instructions_retired + INS_PER_TICK
                 - (SlotRetired(INS_PER_TICK)[cur_task] - parsed.real[cur_task])
      BY DEF TickFinishesTask, ProcessRetired
    <3> QED
      BY <3>1, <3>2, <2>1, <1>2, ConfigAssumption DEF IInv, TypeOK
  <2>6. stress' \in 0 .. STRESS_RESET
    BY ConfigAssumption DEF IInv, TypeOK, TickFinishesTask
  <2>7. tasks_finished' \in Nat /\ tick_counter' \in Nat
    BY DEF IInv, TypeOK, TickFinishesTask, switch_task
  <2>8. cur_process' \in ProcessIndices \cup {END_PID}
    <3>1. parsed.pid[tasks[cur']] \in Processes \cup {FREE_PID, END_PID}
      BY <1>8, <1>10 DEF IInv, TypeOK
    <3>2. Processes \subseteq ProcessIndices
      BY PlanAssumption, ConfigAssumption DEF Processes, ProcessIndices
    <3> QED
      BY <1>10, <3>1, <3>2 DEF IsFreeSlot
  <2> QED
    BY <1>10, <1>11, <2>2, <2>3, <2>4, <2>5, <2>6, <2>7, <2>8 DEF IInv, TypeOK
<1> QED
  BY <1>2, <1>10, <1>11, <1>12, CursorMoves

(* A tick that runs the current task on, or finds no slot for it.          *)
LEMMA TickRunsTaskIInv ==
  ASSUME IInv, TickRunsTask
  PROVE  IInv'
<1>1. cur_task # END /\ TimerTick /\ Retire(INS_PER_TICK)
  BY DEF TickRunsTask, TimerTick
<1>2. /\ parsed' = parsed
      /\ planned' \in [Indices -> Nat]
      /\ process_lateness' \in [ProcessIndices -> Int]
      /\ tasks_finished' \in Nat
      /\ tick_counter' \in Nat
      /\ lateness' \in Int
      /\ StressAfterT2 \in 0 .. STRESS_RESET
  BY <1>1, TimerTickType DEF TickRunsTask
<1>3. /\ retired_task' \in [Indices -> Nat]
      /\ retired_slot' \in [Indices -> Nat]
      /\ process_retired' \in [ProcessIndices -> Int]
      /\ instructions_retired' \in Int
  BY <1>1, RetireType, ConfigAssumption
<1>4. stress' \in 0 .. STRESS_RESET
  BY <1>2, ConfigAssumption DEF TickRunsTask
<1>5. UNCHANGED <<tasks, cur, cur_process, was_preempted, state, slot_owner, plan_state>>
  BY DEF TickRunsTask
<1>6. TypeOK'
  BY <1>2, <1>3, <1>4, <1>5 DEF IInv, TypeOK
<1>7. cur' \in Indices /\ cur' >= cur
  BY <1>5, PlanAssumption DEF IInv, TypeOK, Indices
<1> QED
  BY <1>2, <1>5, <1>6, <1>7, CursorMoves DEF IInv, CurTaskIsRunnable, cur_task

LEMMA TickFindsNoSlotIInv ==
  ASSUME IInv, TickFindsNoSlot
  PROVE  IInv'
<1> DEFINE missing == parsed.real[cur_task] - retired_task[cur_task]
<1>1. cur_task # END /\ TimerTick /\ Retire(missing)
  BY DEF TickFindsNoSlot, TimerTick
<1>2. cur_task \in Indices
  BY <1>1, TaskRuns
<1>3. missing \in Nat
  BY <1>1, <1>2, ConfigAssumption DEF IInv, TypeOK, TimerTick, FinishesInTick
<1>4. /\ parsed' = parsed
      /\ planned' \in [Indices -> Nat]
      /\ process_lateness' \in [ProcessIndices -> Int]
      /\ tasks_finished' \in Nat
      /\ tick_counter' \in Nat
      /\ lateness' \in Int
      /\ stress' \in 0 .. STRESS_RESET
  BY <1>1, TimerTickType DEF TickFindsNoSlot
<1>5. /\ retired_task' \in [Indices -> Nat]
      /\ retired_slot' \in [Indices -> Nat]
      /\ process_retired' \in [ProcessIndices -> Int]
      /\ instructions_retired' \in Int
  <2> HIDE DEF missing
  <2> QED
    BY <1>1, <1>3, RetireType
<1>6. /\ was_preempted' \in [Indices -> Nat]
      /\ state' \in [Indices -> {PLAN_TASK_WAITING, PLAN_TASK_RUNNING, PLAN_TASK_FINISHED}]
      /\ plan_state' \in {ON_PLAN, PLAN_FINISHED}
  BY <1>2 DEF IInv, TypeOK, TickFindsNoSlot
<1>7. UNCHANGED <<tasks, cur, cur_process, slot_owner>>
  BY DEF TickFindsNoSlot
<1>8. TypeOK'
  BY <1>4, <1>5, <1>6, <1>7 DEF IInv, TypeOK
<1>9. cur' \in Indices /\ cur' >= cur
  BY <1>7, PlanAssumption DEF IInv, TypeOK, Indices
<1> QED
  BY <1>4, <1>7, <1>8, <1>9, CursorMoves DEF IInv, CurTaskIsRunnable, cur_task

-----------------------------------------------------------------------------
(* A preemption.                                                           *)
LEMMA TickPreemptsTaskIInv ==
  ASSUME IInv, TickPreemptsTask
  PROVE  IInv'
<1>1. cur_task # END /\ TimerTick /\ Retire(INS_PER_TICK)
  BY DEF TickPreemptsTask, preempt_cur_task, TimerTick
<1>2. PICK k \in Indices, s \in Indices :
        /\ IsInsertionSlot(tasks, parsed.pid, cur, NumTasks, k)
        /\ IsStackSize(tasks, parsed.pid, slot_owner, cur, NumTasks, s)
        /\ tasks' = move_tasks(tasks, cur, s, k)
        /\ slot_owner' = move_slots(slot_owner, tasks, cur, s, k)
  BY DEF TickPreemptsTask, preempt_cur_task
<1>3. /\ NumTasks \in Nat
      /\ NumTasks > 0
      /\ cur \in Nat
      /\ cur < NumTasks
      /\ cur \in 0 .. NumTasks - 1
      /\ cur_task \in Indices
      /\ parsed.pid[cur_task] \in Processes
      /\ tasks \in [Indices -> Indices]
      /\ slot_owner \in [Indices -> Indices]
  BY <1>1, TaskRuns, PlanAssumption DEF IInv, TypeOK
<1>4. /\ Fits(s, k)
      /\ k + 1 \in 0 .. NumTasks - 1
      /\ k + 1 \in Indices
      /\ \A j \in cur .. cur + s - 1 : parsed.pid[tasks[j]] = parsed.pid[tasks[cur]]
  <2>1. /\ Fits(s, k)
        /\ \A j \in cur .. cur + s - 1 : parsed.pid[tasks[j]] = parsed.pid[tasks[cur]]
    BY <1>2, <1>3, StackFits
  <2> QED
    BY <2>1, <1>3 DEF Fits, Indices
<1>5. /\ tasks' \in [Indices -> Indices]
      /\ \A i \in Indices : tasks'[i] = tasks[Source(i, s, k)]
  BY <1>2, <1>3, <1>4, MovedList
<1>6. /\ parsed' = parsed
      /\ planned' \in [Indices -> Nat]
      /\ process_lateness' \in [ProcessIndices -> Int]
      /\ tasks_finished' \in Nat
      /\ tick_counter' \in Nat
      /\ LatenessAfterT2 \in Int
      /\ stress' \in 0 .. STRESS_RESET
  BY <1>1, TimerTickType DEF TickPreemptsTask, preempt_cur_task
<1>7. PlanIsPermutation'
  <2>1. \A i, j \in Indices : tasks'[i] = tasks'[j] => i = j
    BY <1>3, <1>4, <1>5, SourceAndTarget DEF IInv, PlanIsPermutation
  <2>2. ASSUME NEW e \in Indices PROVE \E i \in Indices : tasks'[i] = e
    <3>1. PICK j \in Indices : tasks[j] = e
      BY DEF IInv, PlanIsPermutation
    <3>2. Target(j, s, k) \in Indices /\ Source(Target(j, s, k), s, k) = j
      BY <1>3, <1>4, SourceAndTarget
    <3> QED
      BY <3>1, <3>2, <1>5
  <2>3. tasks'[NumTasks] = END
    <3>1. NumTasks \in Indices /\ NumTasks > k
      BY <1>3, <1>4 DEF Indices, Fits
    <3>2. Source(NumTasks, s, k) = NumTasks
      BY <1>3, <1>4, <3>1, SourceAndTarget
    <3> QED
      BY <1>5, <3>1, <3>2 DEF IInv, PlanIsPermutation
  <2> QED
    BY <2>1, <2>2, <2>3 DEF PlanIsPermutation
<1>8. \A i \in cur .. NumTasks - 1 : IsFreeSlot(tasks'[i]) => ~ IsFreeSlot(tasks'[i + 1])
  <2> SUFFICES ASSUME NEW i \in cur .. NumTasks - 1, IsFreeSlot(tasks'[i])
               PROVE  ~ IsFreeSlot(tasks'[i + 1])
    OBVIOUS
  <2>1. i \in Indices /\ i + 1 \in Indices
    BY <1>3 DEF Indices
  <2>2. \A j \in cur .. cur + s - 1 : ~ IsFreeSlot(tasks[j])
    BY <1>3, <1>4 DEF IsFreeSlot, cur_task, Processes, FREE_PID
  <2>3. Source(i, s, k) \notin cur .. cur + s - 1
    BY <1>5, <2>1, <2>2
  <2>4. /\ Source(i, s, k) \in cur .. NumTasks - 1
        /\ \/ Source(i + 1, s, k) = Source(i, s, k) + 1
           \/ Source(i + 1, s, k) \in cur .. cur + s - 1
    BY <2>3, <1>3, <1>4 DEF Source, Fits
  <2>5. IsFreeSlot(tasks[Source(i, s, k)])
    BY <1>5, <2>1
  <2>6. ~ IsFreeSlot(tasks[Source(i + 1, s, k)])
    BY <2>2, <2>4, <2>5 DEF IInv, FreeSlotsApart
  <2> QED
    BY <1>5, <2>1, <2>6
<1>9. /\ cur' \in Indices
      /\ cur' = cur \/ cur' = cur + 1
      /\ ~ IsFreeSlot(tasks'[cur'])
      /\ cur_process' = parsed.pid[tasks'[cur']]
      /\ lateness' \in Int
      /\ state' \in [Indices -> {PLAN_TASK_WAITING, PLAN_TASK_RUNNING, PLAN_TASK_FINISHED}]
  <2>1. enter_slot(tasks', cur, LatenessAfterT2, PlannedAfterT2, state)
    BY DEF TickPreemptsTask, preempt_cur_task
  <2>2. PlannedAfterT2 \in [Indices -> Nat]
    BY PlannedAfter, PlanAssumption DEF IInv
  <2>3. tasks'[NumTasks] = END
    BY <1>7 DEF PlanIsPermutation
  <2>4. cur \in Indices /\ TypeOK /\ PlanOK /\ NumTasks \in Nat \ {0}
    BY PlanAssumption DEF IInv, TypeOK
  <2>5. state \in [Indices -> {PLAN_TASK_WAITING, PLAN_TASK_RUNNING, PLAN_TASK_FINISHED}]
    BY <2>4 DEF TypeOK
  <2> QED
    BY <1>3, <1>5, <1>6, <1>8, <2>1, <2>2, <2>3, <2>4, <2>5, EnterSlot
<1>10. FreeSlotsApart'
  BY <1>3, <1>6, <1>8, <1>9 DEF FreeSlotsApart, IsFreeSlot
<1>11. CurTaskIsRunnable'
  BY <1>6, <1>9 DEF CurTaskIsRunnable, IsFreeSlot, cur_task
<1>12. slot_owner' \in [Indices -> Indices]
  <2>1. tasks[k + 1] \in Indices
    BY <1>3, <1>4
  <2> QED
    BY <1>2, <1>3, <2>1 DEF move_slots
<1>13. OwnerIsAhead'
  <2> SUFFICES ASSUME NEW i \in cur' .. NumTasks - 1
               PROVE  \E j \in i .. NumTasks - 1 : slot_owner'[tasks'[i]] = tasks'[j]
    BY DEF OwnerIsAhead
  <2>1. i \in cur .. NumTasks - 1 /\ i \in Indices
    BY <1>3, <1>9 DEF Indices
  <2>2. tasks'[i] = tasks[Source(i, s, k)] /\ tasks'[i] \in Indices
    BY <1>5, <2>1
  <2>3. CASE Source(i, s, k) \in cur .. cur + s - 1
    <3>1. slot_owner'[tasks'[i]] = tasks[k + 1]
      BY <1>2, <1>3, <2>2, <2>3 DEF move_slots
    <3>2. i <= k
      BY <1>3, <1>4, <2>1, <2>3 DEF Fits, Source
    <3>3. k + 1 \in i .. NumTasks - 1 /\ k + 1 > k
      BY <1>3, <1>4, <2>1, <3>2 DEF Fits
    <3>4. tasks'[k + 1] = tasks[k + 1]
      BY <1>3, <1>4, <1>5, <3>3, SourceAndTarget
    <3> QED
      BY <3>1, <3>3, <3>4
  <2>4. CASE Source(i, s, k) \notin cur .. cur + s - 1
    <3>1. /\ Source(i, s, k) \in cur .. NumTasks - 1
          /\ \A m \in Source(i, s, k) .. NumTasks - 1 : Target(m, s, k) \in i .. NumTasks - 1
      BY <1>3, <1>4, <2>1, <2>4, SourceAndTarget
    <3>2. cur .. cur + s - 1 \subseteq Indices /\ Source(i, s, k) \in Indices
      <4>1. cur + s - 1 <= NumTasks
        BY <1>3, <1>4 DEF Fits
      <4>2. s \in Nat
        BY <1>4 DEF Fits
      <4>3. cur .. cur + s - 1 \subseteq Indices
        BY <1>3, <4>1, <4>2 DEF Indices
      <4>4. Source(i, s, k) \in Indices
        BY <1>3, <1>4, <2>1, SourceAndTarget
      <4> QED
        BY <4>3, <4>4
    <3>3. \A j \in cur .. cur + s - 1 : tasks[j] # tasks'[i]
      BY <2>2, <2>4, <3>2 DEF IInv, PlanIsPermutation
    <3>4. slot_owner'[tasks'[i]] = slot_owner[tasks'[i]]
      BY <1>2, <1>3, <2>2, <3>3 DEF move_slots
    <3>5. PICK m \in Source(i, s, k) .. NumTasks - 1 : slot_owner[tasks[Source(i, s, k)]] = tasks[m]
      BY <3>1 DEF IInv, OwnerIsAhead
    <3>6. m \in Indices
      BY <1>3, <3>1 DEF Indices
    <3>7. Target(m, s, k) \in Indices /\ Source(Target(m, s, k), s, k) = m
      BY <1>3, <1>4, <3>6, SourceAndTarget
    <3>8. tasks'[Target(m, s, k)] = tasks[m]
      BY <1>5, <3>7
    <3> QED
      BY <2>2, <3>1, <3>4, <3>5, <3>8
  <2> QED
    BY <2>3, <2>4
<1>14. TypeOK'
  <2>1. /\ retired_task' \in [Indices -> Nat]
        /\ retired_slot' \in [Indices -> Nat]
        /\ process_retired' \in [ProcessIndices -> Int]
        /\ instructions_retired' \in Int
    BY <1>1, RetireType, ConfigAssumption
  <2>2. was_preempted' \in [Indices -> Nat] /\ plan_state' = plan_state
    BY <1>3 DEF IInv, TypeOK, TickPreemptsTask, preempt_cur_task
  <2>3. cur_process' \in ProcessIndices \cup {END_PID}
    <3>1. parsed.pid[tasks'[cur']] \in Processes \cup {FREE_PID, END_PID}
      BY <1>5, <1>9 DEF IInv, TypeOK
    <3>2. Processes \subseteq ProcessIndices
      BY PlanAssumption, ConfigAssumption DEF Processes, ProcessIndices
    <3> QED
      BY <1>9, <3>1, <3>2 DEF IsFreeSlot
  <2> QED
    BY <1>5, <1>6, <1>9, <1>12, <2>1, <2>2, <2>3 DEF IInv, TypeOK
<1>15. PlanOK'
  BY <1>6 DEF IInv, PlanOK
<1> QED
  BY <1>7, <1>10, <1>11, <1>13, <1>14, <1>15 DEF IInv

-----------------------------------------------------------------------------
(* Every step of the scheduler keeps the invariant.                        *)
LEMMA NextIInv == IInv /\ [Next]_vars => IInv'
<1> SUFFICES ASSUME IInv, [Next]_vars PROVE IInv'
  OBVIOUS
<1>1. CASE TickFinishesTask
  BY <1>1, TickFinishesTaskIInv
<1>2. CASE TickRunsTask
  BY <1>2, TickRunsTaskIInv
<1>3. CASE TickPreemptsTask
  BY <1>3, TickPreemptsTaskIInv
<1>4. CASE TickFindsNoSlot
  BY <1>4, TickFindsNoSlotIInv
<1>5. CASE UNCHANGED vars
  BY <1>5 DEF vars, taskVars, processVars, nodeVars, IInv, TypeOK, PlanOK, PlanIsPermutation,
              FreeSlotsApart, CurTaskIsRunnable, OwnerIsAhead, IsFreeSlot, cur_task
<1> QED
  BY <1>1, <1>2, <1>3, <1>4, <1>5 DEF Next, pbs_run_timer_tick, TickAfterEnd

LEMMA SpecIInv == Spec => []IInv
<1> QED
  BY InitLoads, InitIInv, NextIInv, PTL DEF Spec

(* pbs_run_timer_tick: every field keeps its type, and the cursor stays in *)
(* the list.                                                               *)
THEOREM TypeCorrect == Spec => []TypeOK
<1>1. IInv => TypeOK
  BY DEF IInv
<1> QED
  BY <1>1, SpecIInv, PTL

(* no_id_is_duplicated holds of every plan list move_tasks leaves behind.  *)
THEOREM PermutationCorrect == Spec => []PlanIsPermutation
<1>1. IInv => PlanIsPermutation
  BY DEF IInv
<1> QED
  BY <1>1, SpecIInv, PTL

(* full_run's assertion cur_task->task_id != -1, and the agreement of      *)
(* cur_process with cur_task, hold after every tick.                       *)
THEOREM RunnableCorrect == Spec => []CurTaskIsRunnable
<1>1. IInv => CurTaskIsRunnable
  BY DEF IInv
<1> QED
  BY <1>1, SpecIInv, PTL

(* find_task_with_task_id always finds the slot of an unfinished task, and *)
(* finds it at or behind that task.                                        *)
THEOREM OwnerCorrect == Spec => []OwnerIsAhead
<1>1. IInv => OwnerIsAhead
  BY DEF IInv
<1> QED
  BY <1>1, SpecIInv, PTL

-----------------------------------------------------------------------------
(* One step leaves an entry behind the cursor as it is.                    *)
LEMMA StepKeepsHistory ==
  ASSUME IInv, [Next]_vars, NEW i \in 0 .. cur - 1
  PROVE  /\ tasks'[i] = tasks[i]
         /\ planned'[tasks[i]] = planned[tasks[i]]
         /\ retired_task'[tasks[i]] = retired_task[tasks[i]]
         /\ retired_slot'[tasks[i]] = retired_slot[tasks[i]]
         /\ slot_owner'[tasks[i]] = slot_owner[tasks[i]]
<1> DEFINE e == tasks[i]
<1>1. /\ NumTasks \in Nat
      /\ cur \in 0 .. NumTasks
      /\ i \in Indices
      /\ e \in Indices
  <2>1. NumTasks \in Nat /\ cur \in 0 .. NumTasks
    BY PlanAssumption DEF IInv, TypeOK, Indices
  <2>2. i \in Indices
    BY <2>1 DEF Indices
  <2> QED
    BY <2>1, <2>2 DEF IInv, TypeOK
<1>2. \A m \in cur .. NumTasks - 1 : m \in Indices /\ tasks[m] # e
  BY <1>1 DEF IInv, PlanIsPermutation, Indices
<1>3. PlannedAfterTm2[e] = planned[e] /\ PlannedAfterT2[e] = planned[e]
  BY <1>1, <1>2, PlannedAfter DEF IInv
<1>4. ASSUME cur_task # END
      PROVE  cur_task # e /\ slot_owner[cur_task] # e
  <2>1. cur \in 0 .. NumTasks - 1 /\ \E j \in cur .. NumTasks - 1 : slot_owner[cur_task] = tasks[j]
    BY <1>4, TaskRuns
  <2>2. cur \in cur .. NumTasks - 1
    BY <1>1, <2>1
  <2> QED
    BY <1>2, <2>1, <2>2 DEF cur_task
<1>5. ASSUME cur_task # END, NEW ins
      PROVE  /\ [retired_task EXCEPT ![cur_task] = @ + ins][e] = retired_task[e]
             /\ SlotRetired(ins)[e] = retired_slot[e]
  BY <1>1, <1>4, <1>5 DEF IInv, TypeOK, SlotRetired
<1>6. CASE TickFinishesTask
  <2>1. cur_task # END
    BY <1>6 DEF TickFinishesTask
  <2>2. /\ planned' = PlannedAfterTm2
        /\ retired_task' = [retired_task EXCEPT ![cur_task] = @ + INS_PER_TICK]
        /\ retired_slot' = SlotRetired(INS_PER_TICK)
        /\ UNCHANGED <<tasks, slot_owner>>
    BY <1>6 DEF TickFinishesTask
  <2> QED
    BY <1>3, <1>5, <2>1, <2>2
<1>7. ASSUME TimerTick, NEW ins, Retire(ins)
      PROVE  /\ planned'[e] = planned[e]
             /\ retired_task'[e] = retired_task[e]
             /\ retired_slot'[e] = retired_slot[e]
  BY <1>3, <1>5, <1>7 DEF TimerTick, Retire
<1>8. CASE TickRunsTask
  <2>1. UNCHANGED <<tasks, slot_owner>> /\ TimerTick /\ Retire(INS_PER_TICK)
    BY <1>8 DEF TickRunsTask
  <2> QED
    BY <1>7, <2>1
<1>9. CASE TickFindsNoSlot
  <2>1. /\ UNCHANGED <<tasks, slot_owner>>
        /\ TimerTick
        /\ Retire(parsed.real[cur_task] - retired_task[cur_task])
    BY <1>9 DEF TickFindsNoSlot
  <2> QED
    BY <1>7, <2>1
<1>10. CASE TickPreemptsTask
  <2>1. TimerTick /\ Retire(INS_PER_TICK)
    BY <1>10 DEF TickPreemptsTask, preempt_cur_task
  <2>2. PICK k \in Indices, s \in Indices :
          /\ IsInsertionSlot(tasks, parsed.pid, cur, NumTasks, k)
          /\ IsStackSize(tasks, parsed.pid, slot_owner, cur, NumTasks, s)
          /\ tasks' = move_tasks(tasks, cur, s, k)
          /\ slot_owner' = move_slots(slot_owner, tasks, cur, s, k)
    BY <1>10 DEF TickPreemptsTask, preempt_cur_task
  <2>3. Fits(s, k)
    BY <1>1, <2>2, StackFits
  <2>4. tasks'[i] = tasks[i]
    <3>1. Source(i, s, k) = i
      BY <1>1, <2>3, SourceAndTarget
    <3> QED
      BY <1>1, <2>2, <2>3, <3>1, MovedList DEF IInv, TypeOK
  <2>5. slot_owner'[e] = slot_owner[e]
    <3>1. cur .. cur + s - 1 \subseteq cur .. NumTasks - 1
      BY <1>1, <2>3 DEF Fits
    <3>2. ~ \E j \in cur .. cur + s - 1 : tasks[j] = e
      BY <1>2, <3>1
    <3>3. DOMAIN slot_owner = Indices
      BY DEF IInv, TypeOK
    <3> QED
      BY <1>1, <2>2, <3>2, <3>3 DEF move_slots
  <2> QED
    BY <1>7, <2>1, <2>4, <2>5
<1>11. CASE UNCHANGED vars
  BY <1>11 DEF vars, taskVars
<1> QED
  BY <1>6, <1>8, <1>9, <1>10, <1>11 DEF Next, pbs_run_timer_tick, TickAfterEnd

(* No preemption, late booking on a slot or rescheduling rewrites what is  *)
(* behind the cursor.                                                      *)
THEOREM HistoryCorrect == Spec => HistoryIsFixed
<1>1. IInv /\ [Next]_vars
        => [\A i \in 0 .. cur - 1 :
              LET e == tasks[i]
              IN  /\ tasks'[i] = e
                  /\ planned'[e] = planned[e]
                  /\ retired_task'[e] = retired_task[e]
                  /\ retired_slot'[e] = retired_slot[e]
                  /\ slot_owner'[e] = slot_owner[e]]_vars
  BY StepKeepsHistory
<1> QED
  BY <1>1, SpecIInv, PTL DEF Spec, HistoryIsFixed

-----------------------------------------------------------------------------
(* find_slot_to_move_to and get_stack_size_preempted_tasks are modelled by *)
(* what they return; these lemmas show that it is one value.               *)

(* The search stops at one gap, and at the first task behind it.           *)
LEMMA InsertionSlotIsUnique ==
  ASSUME NEW list, NEW pid, NEW c \in Int, NEW end \in Int, NEW k, NEW m,
         IsInsertionSlot(list, pid, c, end, k), IsInsertionSlot(list, pid, c, end, m)
  PROVE  k = m
<1>1. PICK g \in c + 1 .. k : /\ \A j \in c .. g - 1 : pid[list[j]] = pid[list[c]]
                             /\ \A j \in g .. k : pid[list[j]] # pid[list[c]]
  BY DEF IsInsertionSlot
<1>2. PICK h \in c + 1 .. m : /\ \A j \in c .. h - 1 : pid[list[j]] = pid[list[c]]
                             /\ \A j \in h .. m : pid[list[j]] # pid[list[c]]
  BY DEF IsInsertionSlot
<1>3. /\ k \in c + 1 .. end - 2 /\ m \in c + 1 .. end - 2
      /\ pid[list[k + 1]] = pid[list[c]]
      /\ pid[list[m + 1]] = pid[list[c]]
  BY DEF IsInsertionSlot
<1>4. k \in Int /\ m \in Int /\ g \in Int /\ h \in Int /\ g <= k /\ h <= m
  BY <1>1, <1>2, <1>3
<1>5. g = h
  <2>1. ~ (g < h)
    <3>1. SUFFICES ASSUME g < h PROVE FALSE
      OBVIOUS
    <3>2. g \in c .. h - 1 /\ g \in g .. k
      BY <1>1, <1>4, <3>1
    <3> QED
      BY <1>1, <1>2, <3>2
  <2>2. ~ (h < g)
    <3>1. SUFFICES ASSUME h < g PROVE FALSE
      OBVIOUS
    <3>2. h \in c .. g - 1 /\ h \in h .. m
      BY <1>2, <1>4, <3>1
    <3> QED
      BY <1>1, <1>2, <3>2
  <2> QED
    BY <1>4, <2>1, <2>2
<1>6. ~ (k < m)
  <2>1. SUFFICES ASSUME k < m PROVE FALSE
    OBVIOUS
  <2>2. k + 1 \in h .. m
    BY <1>4, <1>5, <2>1
  <2> QED
    BY <1>2, <1>3, <2>2
<1>7. ~ (m < k)
  <2>1. SUFFICES ASSUME m < k PROVE FALSE
    OBVIOUS
  <2>2. m + 1 \in g .. k
    BY <1>4, <1>5, <2>1
  <2> QED
    BY <1>1, <1>3, <2>2
<1> QED
  BY <1>4, <1>6, <1>7

(* The tasks of the stack are counted up to the first that does not belong *)
(* to it; the sentinel at the latest does not.                             *)
LEMMA StackSizeIsUnique ==
  ASSUME NEW list, NEW pid, NEW owner, NEW c \in Int, NEW end \in Int, c < end,
         pid[list[end]] # pid[list[c]]
  PROVE  /\ \E s \in 1 .. end - c : IsStackSize(list, pid, owner, c, end, s)
         /\ \A s, t : IsStackSize(list, pid, owner, c, end, s)
                     /\ IsStackSize(list, pid, owner, c, end, t) => s = t
<1> DEFINE Together(j) == /\ pid[list[j]] = pid[list[c]]
                          /\ owner[list[j]] = owner[list[c]]
           Ends == {d \in 1 .. end - c : ~ Together(c + d)}
<1>1. \A s : IsStackSize(list, pid, owner, c, end, s)
              <=> /\ s \in 1 .. end - c
                  /\ \A j \in c .. c + s - 1 : Together(j)
                  /\ ~ Together(c + s)
  BY DEF IsStackSize
<1>2. end - c \in Ends
  <2>1. end - c \in 1 .. end - c /\ c + (end - c) = end
    OBVIOUS
  <2>2. ~ Together(end)
    OBVIOUS
  <2> HIDE DEF Together
  <2> QED
    BY <2>1, <2>2
<1>3. Together(c)
  OBVIOUS
<1> HIDE DEF Together
<1>4. PICK s \in Ends : \A d \in Ends : s <= d
  <2>1. Ends \subseteq 1 .. end - c
    OBVIOUS
  <2> HIDE DEF Ends
  <2>2. Ends # {}
    BY <1>2
  <2>3. 1 \in Int /\ end - c \in Int
    OBVIOUS
  <2> QED
    BY <2>1, <2>2, <2>3, LeastElement
<1>5. \A j \in c .. c + s - 1 : Together(j)
  <2> SUFFICES ASSUME NEW j \in c .. c + s - 1 PROVE Together(j)
    OBVIOUS
  <2>1. s \in 1 .. end - c /\ j - c \in 0 .. s - 1 /\ c + (j - c) = j
    BY <1>4
  <2>2. CASE j = c
    BY <1>3, <2>2
  <2>3. CASE j # c
    <3>1. j - c \in 1 .. end - c /\ ~ (s <= j - c)
      BY <2>1, <2>3
    <3>2. j - c \notin Ends
      BY <1>4, <3>1
    <3> QED
      BY <2>1, <3>1, <3>2
  <2> QED
    BY <2>2, <2>3
<1>6. ASSUME NEW x, NEW y, x < y,
             IsStackSize(list, pid, owner, c, end, x), IsStackSize(list, pid, owner, c, end, y)
      PROVE  FALSE
  <2>1. /\ x \in 1 .. end - c
        /\ y \in 1 .. end - c
        /\ ~ Together(c + x)
        /\ \A j \in c .. c + y - 1 : Together(j)
    BY <1>1, <1>6
  <2>2. c + x \in c .. c + y - 1
    BY <1>6, <2>1
  <2> QED
    BY <2>1, <2>2
<1>7. ASSUME NEW x, NEW y,
             IsStackSize(list, pid, owner, c, end, x), IsStackSize(list, pid, owner, c, end, y)
      PROVE  x = y
  <2>1. x \in Int /\ y \in Int
    BY <1>1, <1>7
  <2>2. ~ (x < y) /\ ~ (y < x)
    BY <1>6, <1>7
  <2> QED
    BY <2>1, <2>2
<1>8. s \in 1 .. end - c /\ ~ Together(c + s)
  BY <1>4
<1>9. IsStackSize(list, pid, owner, c, end, s)
  BY <1>1, <1>5, <1>8
<1> QED
  BY <1>7, <1>8, <1>9

(* The current task is found a stack to move with, and both searches have  *)
(* one result at most.                                                     *)
StackIsDefined ==
  /\ \E s \in Indices : IsStackSize(tasks, parsed.pid, slot_owner, cur, NumTasks, s)
  /\ \A s, t : /\ IsStackSize(tasks, parsed.pid, slot_owner, cur, NumTasks, s)
              /\ IsStackSize(tasks, parsed.pid, slot_owner, cur, NumTasks, t)
                => s = t

SlotIsDefined ==
  \A k, m : /\ IsInsertionSlot(tasks, parsed.pid, cur, NumTasks, k)
           /\ IsInsertionSlot(tasks, parsed.pid, cur, NumTasks, m)
             => k = m

PreemptionIsDefined == cur_task # END => StackIsDefined /\ SlotIsDefined

LEMMA PreemptionFollows == IInv => PreemptionIsDefined
<1> SUFFICES ASSUME IInv, cur_task # END PROVE StackIsDefined /\ SlotIsDefined
  BY DEF PreemptionIsDefined
<1>1. /\ NumTasks \in Int
      /\ cur \in Int
      /\ cur < NumTasks
      /\ \A s \in 1 .. NumTasks - cur : s \in Indices
  BY TaskRuns, PlanAssumption DEF Indices
<1>2. parsed.pid[tasks[NumTasks]] # parsed.pid[tasks[cur]]
  <2>1. parsed.pid[tasks[NumTasks]] = END_PID
    BY DEF IInv, PlanIsPermutation, PlanOK
  <2>2. parsed.pid[tasks[cur]] \in Processes
    BY TaskRuns DEF cur_task
  <2> QED
    BY <2>1, <2>2 DEF END_PID, Processes
<1>3. StackIsDefined
  BY <1>1, <1>2, StackSizeIsUnique DEF StackIsDefined
<1>4. SlotIsDefined
  BY <1>1, InsertionSlotIsUnique DEF SlotIsDefined
<1> QED
  BY <1>3, <1>4

(* Wherever a slot overrun finds the plan, preempt_cur_task has one result:*)
(* get_stack_size_preempted_tasks ends in the list, with the only size it  *)
(* can mean, and find_slot_to_move_to returns one index or none (a tick    *)
(* then takes handle_no_preemption_slot_found), so that no tick is stuck   *)
(* and none has a choice.                                                  *)
THEOREM PreemptionDefined == Spec => []PreemptionIsDefined
BY PreemptionFollows, SpecIInv, PTL

-----------------------------------------------------------------------------
(* What the ticks move, for the proofs that build on this module.          *)

(* A finished task is left behind the cursor, and with it the free slot    *)
(* that may follow; nothing else moves.                                    *)
LEMMA FinishMoves ==
  ASSUME IInv, TickFinishesTask
  PROVE  /\ cur \in 0 .. NumTasks - 1
         /\ cur + 1 \in Indices
         /\ cur' = IF IsFreeSlot(tasks[cur + 1]) THEN cur + 2 ELSE cur + 1
         /\ cur' \in Indices
         /\ UNCHANGED <<parsed, tasks, slot_owner, was_preempted, plan_state>>
         /\ tasks_finished' = tasks_finished + 1
         /\ state' = [state EXCEPT ![cur_task] = PLAN_TASK_FINISHED,
                                   ![tasks[cur + 1]] = PLAN_TASK_RUNNING,
                                   ![tasks[cur']] = PLAN_TASK_RUNNING]
<1>1. cur_task # END /\ UNCHANGED <<parsed, tasks, slot_owner, was_preempted, plan_state>>
  BY DEF TickFinishesTask
<1>2. cur \in 0 .. NumTasks - 1 /\ cur + 1 \in Indices
  BY <1>1, TaskRuns, PlanAssumption DEF Indices
<1>3. /\ cur' = IF IsFreeSlot(tasks[cur + 1]) THEN cur + 2 ELSE cur + 1
      /\ tasks_finished' = tasks_finished + 1
      /\ state' = [state EXCEPT ![cur_task] = PLAN_TASK_FINISHED,
                                ![tasks[cur + 1]] = PLAN_TASK_RUNNING,
                                ![tasks[cur']] = PLAN_TASK_RUNNING]
  BY <1>2 DEF TickFinishesTask, switch_task, enter_slot
<1>4. cur' \in Indices
  BY TickFinishesTaskIInv DEF IInv, TypeOK
<1> QED
  BY <1>1, <1>2, <1>3, <1>4

(* A preemption moves the stack of s tasks at the cursor behind index k of *)
(* the list and gives it the slot of the task there; a free slot that      *)
(* comes under the cursor is skipped.                                      *)
Preempts(s, k) ==
  /\ Fits(s, k)
  /\ IsInsertionSlot(tasks, parsed.pid, cur, NumTasks, k)
  /\ IsStackSize(tasks, parsed.pid, slot_owner, cur, NumTasks, s)
  /\ \A i \in Indices : tasks'[i] = tasks[Source(i, s, k)]
  /\ \A e \in Indices :
       slot_owner'[e] = IF \E j \in cur .. cur + s - 1 : tasks[j] = e THEN tasks[k + 1]
                        ELSE slot_owner[e]

LEMMA PreemptMoves ==
  ASSUME IInv, TickPreemptsTask
  PROVE  /\ cur \in 0 .. NumTasks - 1
         /\ \E s, k \in Indices : Preempts(s, k)
         /\ cur' = IF IsFreeSlot(tasks'[cur]) THEN cur + 1 ELSE cur
         /\ cur' \in Indices
         /\ tasks' \in [Indices -> Indices]
         /\ was_preempted' = [was_preempted EXCEPT ![cur_task] = @ + 1]
         /\ UNCHANGED <<parsed, tasks_finished, plan_state>>
         /\ state' = [state EXCEPT ![tasks'[cur]] = PLAN_TASK_RUNNING,
                                   ![tasks'[cur']] = PLAN_TASK_RUNNING]
<1>1. cur_task # END /\ UNCHANGED <<parsed, tasks_finished, plan_state>>
  BY DEF TickPreemptsTask, TimerTick
<1>2. cur \in 0 .. NumTasks - 1 /\ NumTasks \in Nat
  BY <1>1, TaskRuns, PlanAssumption
<1>3. /\ cur' = IF IsFreeSlot(tasks'[cur]) THEN cur + 1 ELSE cur
      /\ state' = [state EXCEPT ![tasks'[cur]] = PLAN_TASK_RUNNING,
                                ![tasks'[cur']] = PLAN_TASK_RUNNING]
  BY <1>2 DEF TickPreemptsTask, enter_slot
<1>4. cur' \in Indices /\ tasks' \in [Indices -> Indices]
  BY TickPreemptsTaskIInv DEF IInv, TypeOK
<1>5. was_preempted' = [was_preempted EXCEPT ![cur_task] = @ + 1]
  BY DEF TickPreemptsTask, preempt_cur_task
<1>6. \E s, k \in Indices : Preempts(s, k)
  <2>1. PICK k \in Indices, s \in Indices :
          /\ IsInsertionSlot(tasks, parsed.pid, cur, NumTasks, k)
          /\ IsStackSize(tasks, parsed.pid, slot_owner, cur, NumTasks, s)
          /\ tasks' = move_tasks(tasks, cur, s, k)
          /\ slot_owner' = move_slots(slot_owner, tasks, cur, s, k)
    BY DEF TickPreemptsTask, preempt_cur_task
  <2>2. Fits(s, k)
    BY <1>2, <2>1, StackFits
  <2>3. \A i \in Indices : tasks'[i] = tasks[Source(i, s, k)]
    BY <1>2, <2>1, <2>2, MovedList DEF IInv, TypeOK
  <2>4. DOMAIN slot_owner = Indices
    BY DEF IInv, TypeOK
  <2>5. \A e \in Indices :
          slot_owner'[e] = IF \E j \in cur .. cur + s - 1 : tasks[j] = e THEN tasks[k + 1]
                           ELSE slot_owner[e]
    BY <2>1, <2>4 DEF move_slots
  <2> QED
    BY <2>1, <2>2, <2>3, <2>5 DEF Preempts
<1> QED
  BY <1>1, <1>2, <1>3, <1>4, <1>5, <1>6

(* Every other tick leaves the list and the cursor alone.                  *)
LEMMA TickStays ==
  ASSUME IInv, TickRunsTask \/ TickFindsNoSlot
  PROVE  /\ cur \in 0 .. NumTasks - 1
         /\ UNCHANGED <<parsed, tasks, cur, slot_owner, tasks_finished>>
<1>1. cur_task # END /\ UNCHANGED <<parsed, tasks, cur, slot_owner, tasks_finished>>
  BY DEF TickRunsTask, TickFindsNoSlot, TimerTick
<1> QED
  BY <1>1, TaskRuns

-----------------------------------------------------------------------------
(* The signals of a running scheduler, for every size of the buffer and    *)
(* every reset value of the stress.                                        *)
(* Since the latest signal at least as many ticks have passed as the       *)
(* stress has been lowered.                                                *)
StressCoversSignal ==
  prediction_failures_caused # 0
    => tick_counter - get_pbs_signal(0).tick >= STRESS_RESET - stress

(* The inductive invariant, on top of that of the scheduler.               *)
SignalInv ==
  /\ SignalTypeOK
  /\ SignalsAreOrdered
  /\ StressCoversSignal

-----------------------------------------------------------------------------
(* A tick either signals nothing and lowers the stress by at most one, or  *)
(* signals once and leaves the stress at most one below its reset value.   *)
QuietTick == UNCHANGED signalVars /\ stress' >= stress - 1

SignallingTick(type) ==
  /\ signal(type)
  /\ stress' >= STRESS_RESET - 1
  /\ type = T2_SIGNAL => stress <= 0 \/ check_t2_preemptions(was_preempted[cur_task])

LEMMA StepSignals ==
  ASSUME IInv, Next
  PROVE  \/ UNCHANGED vars
         \/ /\ tick_counter' = tick_counter + 1
            /\ QuietTick \/ \E type \in {T2_SIGNAL, TM2_SIGNAL} : SignallingTick(type)
<1>1. stress \in 0 .. STRESS_RESET /\ STRESS_RESET \in Nat \ {0}
  BY ConfigAssumption DEF IInv, TypeOK
<1>2. CASE TickFinishesTask
  <2>1. /\ tick_counter' = tick_counter + 1
        /\ SignalIf(Tm2Transgressed, TM2_SIGNAL)
        /\ stress' = IF Tm2Transgressed THEN STRESS_RESET - 1
                     ELSE IF stress # 0 THEN stress - 1 ELSE stress
    BY <1>2 DEF TickFinishesTask
  <2>2. CASE Tm2Transgressed
    BY <1>1, <2>1, <2>2 DEF SignalIf, SignallingTick, T2_SIGNAL, TM2_SIGNAL
  <2>3. CASE ~ Tm2Transgressed
    BY <1>1, <2>1, <2>3 DEF SignalIf, QuietTick
  <2> QED
    BY <2>1, <2>2, <2>3
<1>3. ASSUME TimerTick, StressAfterT2 \in Int => stress' >= StressAfterT2 - 1
      PROVE  /\ tick_counter' = tick_counter + 1
             /\ QuietTick \/ SignallingTick(T2_SIGNAL)
  <2>1. /\ tick_counter' = tick_counter + 1
        /\ SignalIf(T2Transgressed, T2_SIGNAL)
    BY <1>3 DEF TimerTick
  <2>2. CASE T2Transgressed
    <3>1. stress <= 0 \/ check_t2_preemptions(was_preempted[cur_task])
      BY <2>2 DEF T2Transgressed
    <3> QED
      BY <1>1, <1>3, <2>1, <2>2, <3>1 DEF SignalIf, SignallingTick, StressAfterT2
  <2>3. CASE ~ T2Transgressed
    BY <1>1, <1>3, <2>1, <2>3 DEF SignalIf, QuietTick, StressAfterT2
  <2> QED
    BY <2>1, <2>2, <2>3
<1>4. CASE TickRunsTask
  <2>1. stress' = IF StressAfterT2 # 0 THEN StressAfterT2 - 1 ELSE StressAfterT2
    BY <1>4 DEF TickRunsTask
  <2>2. StressAfterT2 \in Int => stress' >= StressAfterT2 - 1
    BY <2>1
  <2> QED
    BY <1>3, <1>4, <2>2 DEF TickRunsTask
<1>5. CASE TickPreemptsTask \/ TickFindsNoSlot
  <2>1. TimerTick /\ stress' = StressAfterT2
    BY <1>5 DEF TickPreemptsTask, TickFindsNoSlot
  <2>2. StressAfterT2 \in Int => stress' >= StressAfterT2 - 1
    BY <2>1
  <2> QED
    BY <1>3, <2>1, <2>2
<1> QED
  BY <1>2, <1>4, <1>5 DEF Next, pbs_run_timer_tick, TickAfterEnd

(* signal adds a signal of this tick.                                      *)
LEMMA SignalAdds ==
  ASSUME IInv, NEW type \in {T2_SIGNAL, TM2_SIGNAL}
  PROVE  \E sig \in Signal :
           /\ signal(type) <=> add_signal(sig)
           /\ sig.tick = tick_counter
           /\ sig.task_id = cur_task
           /\ sig.type_signal = type
<1> DEFINE sig == [task_id |-> cur_task, process_id |-> cur_process,
                   tick |-> tick_counter, type_signal |-> type]
<1>1. cur_task \in Int
  BY PlanAssumption DEF IInv, TypeOK, cur_task, Indices
<1>2. cur_process \in Int
  BY ConfigAssumption DEF IInv, TypeOK, ProcessIndices, END_PID
<1>3. tick_counter \in Nat /\ type \in Int
  BY DEF IInv, TypeOK, T2_SIGNAL, TM2_SIGNAL
<1>4. sig \in Signal
  BY <1>1, <1>2, <1>3 DEF Signal
<1>5. signal(type) <=> add_signal(sig)
  BY DEF signal
<1> QED
  BY <1>4, <1>5

(* Before the first tick there is no signal.                               *)
LEMMA InitSignalInv == Init => SignalInv
<1> SUFFICES ASSUME Init PROVE SignalInv
  OBVIOUS
<1>1. SignalInit /\ prediction_failures_caused = 0
  BY DEF Init, SignalInit
<1>2. SignalsAreOrdered
  BY <1>1, ConfigAssumption DEF SignalsAreOrdered, SigIndices
<1> QED
  BY <1>1, <1>2, InitialSignalType DEF SignalInv, StressCoversSignal

LEMMA NextSignalInv ==
  ASSUME IInv, IInv', SignalInv, [Next]_vars
  PROVE  SignalInv'
<1>1. /\ SIZE_SIG_BUFFER \in Nat \ {0}
      /\ STRESS_RESET \in Nat
      /\ prediction_failures_caused \in Nat
      /\ stress \in Int /\ stress' \in Int
      /\ tick_counter \in Nat
      /\ 0 \in SigIndices
  BY ConfigAssumption DEF IInv, TypeOK, SignalInv, SignalTypeOK, SigIndices
<1>2. \A k \in SigIndices : get_pbs_signal(k) \in Signal
  BY <1>1 DEF SignalInv, SignalTypeOK, get_pbs_signal, SigIndices
<1>3. \A k \in SigIndices : get_pbs_signal(k).tick \in Nat
  BY <1>2 DEF Signal
<1>4. CASE UNCHANGED vars
  BY <1>4 DEF vars, signalVars, nodeVars, SignalInv, SignalTypeOK, SignalsAreOrdered,
              StressCoversSignal, get_pbs_signal
<1>5. CASE tick_counter' = tick_counter + 1 /\ QuietTick
  <2>1. /\ UNCHANGED <<lastSignals, cur_sig_buffer_position, prediction_failures_caused>>
        /\ \A k : get_pbs_signal(k)' = get_pbs_signal(k)
    BY <1>5 DEF QuietTick, signalVars, get_pbs_signal
  <2>2. SignalTypeOK'
    BY <2>1 DEF SignalInv, SignalTypeOK
  <2>3. SignalsAreOrdered'
    BY <1>1, <1>3, <1>5, <2>1 DEF SignalInv, SignalsAreOrdered, SigIndices
  <2>4. StressCoversSignal'
    BY <1>1, <1>3, <1>5, <2>1 DEF SignalInv, StressCoversSignal, QuietTick
  <2> QED
    BY <2>2, <2>3, <2>4 DEF SignalInv
<1>6. ASSUME tick_counter' = tick_counter + 1,
             NEW type \in {T2_SIGNAL, TM2_SIGNAL}, SignallingTick(type)
      PROVE  SignalInv'
  <2>1. PICK sig \in Signal : add_signal(sig) /\ sig.tick = tick_counter
    BY <1>6, SignalAdds DEF SignallingTick
  <2>2. SignalTypeOK'
    BY <2>1, AddSignalType DEF SignalInv
  <2>3. \A k \in SigIndices :
          get_pbs_signal(k)' = IF k = 0 THEN sig ELSE get_pbs_signal(k - 1)
    BY <2>1, AddSignalShifts DEF SignalInv
  <2>4. prediction_failures_caused' = prediction_failures_caused + 1
    BY <2>1 DEF add_signal
  <2>5. SignalsAreOrdered'
    <3> SUFFICES ASSUME NEW k \in SigIndices, k < prediction_failures_caused',
                        NEW m \in SigIndices, m < prediction_failures_caused'
                 PROVE  /\ get_pbs_signal(k)'.tick < tick_counter'
                        /\ k < m => get_pbs_signal(m)'.tick < get_pbs_signal(k)'.tick
      BY DEF SignalsAreOrdered, SigIndices
    <3>1. \A n \in SigIndices : n # 0 /\ n < prediction_failures_caused' =>
            /\ n - 1 \in SigIndices
            /\ n - 1 < prediction_failures_caused
            /\ get_pbs_signal(n)' = get_pbs_signal(n - 1)
            /\ get_pbs_signal(n - 1).tick < tick_counter
            /\ get_pbs_signal(n - 1).tick \in Nat
      BY <1>1, <1>3, <2>3, <2>4 DEF SignalInv, SignalsAreOrdered, SigIndices
    <3>2. get_pbs_signal(0)'.tick = tick_counter
      BY <1>1, <2>1, <2>3
    <3>3. get_pbs_signal(k)'.tick < tick_counter'
      BY <1>1, <1>6, <3>1, <3>2
    <3>4. ASSUME k < m
          PROVE  get_pbs_signal(m)'.tick < get_pbs_signal(k)'.tick
      <4>1. m # 0
        BY <3>4 DEF SigIndices
      <4>2. CASE k = 0
        BY <3>1, <3>2, <4>1, <4>2
      <4>3. CASE k # 0
        <5>1. /\ k - 1 \in {j \in SigIndices : j < prediction_failures_caused}
              /\ m - 1 \in {j \in SigIndices : j < prediction_failures_caused}
              /\ k - 1 < m - 1
          BY <3>1, <3>4, <4>1, <4>3 DEF SigIndices
        <5>2. get_pbs_signal(m - 1).tick < get_pbs_signal(k - 1).tick
          BY <5>1 DEF SignalInv, SignalsAreOrdered
        <5> QED
          BY <3>1, <4>1, <4>3, <5>2
      <4> QED
        BY <4>2, <4>3
    <3> QED
      BY <3>3, <3>4
  <2>6. StressCoversSignal'
    BY <1>1, <1>6, <2>1, <2>3 DEF StressCoversSignal, SignallingTick
  <2> QED
    BY <2>2, <2>5, <2>6 DEF SignalInv
<1> QED
  BY <1>4, <1>5, <1>6, StepSignals

LEMMA SpecSignalInv == Spec => [](IInv /\ SignalInv)
<1>1. Init => IInv /\ SignalInv
  BY InitLoads, InitIInv, InitSignalInv
<1>2. IInv /\ SignalInv /\ [Next]_vars => (IInv /\ SignalInv)'
  BY NextIInv, NextSignalInv
<1> QED
  BY <1>1, <1>2, PTL DEF Spec

-----------------------------------------------------------------------------
(* The signals of a plan get strictly older the further get_pbs_signal     *)
(* goes back, and none is from the future.                                 *)
THEOREM SignalOrderCorrect == Spec => []SignalsAreOrdered
<1>1. SignalInv => SignalsAreOrdered
  BY DEF SignalInv
<1> QED
  BY <1>1, SpecSignalInv, PTL

(* The stress keeps t2 quiet for STRESS_RESET ticks after every signal,    *)
(* whatever preemptions come in between; only a task that was preempted    *)
(* too often is signalled earlier.                                         *)
THEOREM SignalSpacingCorrect == Spec => T2SignalsAreSpaced
<1>1. ASSUME IInv, SignalInv, Next, prediction_failures_caused # 0,
             get_pbs_signal(0) # get_pbs_signal(0)',
             get_pbs_signal(0)'.type_signal = T2_SIGNAL
      PROVE  \/ get_pbs_signal(0)'.tick >= get_pbs_signal(0).tick + STRESS_RESET
             \/ check_t2_preemptions(was_preempted[get_pbs_signal(0)'.task_id])
  <2>1. PICK type \in {T2_SIGNAL, TM2_SIGNAL} : SignallingTick(type)
    <3>1. UNCHANGED signalVars => get_pbs_signal(0)' = get_pbs_signal(0)
      BY DEF signalVars, get_pbs_signal
    <3> QED
      BY <1>1, <3>1, StepSignals DEF vars, QuietTick
  <2>2. PICK sig \in Signal : /\ add_signal(sig)
                              /\ sig.tick = tick_counter
                              /\ sig.task_id = cur_task
                              /\ sig.type_signal = type
    BY <1>1, <2>1, SignalAdds DEF SignallingTick
  <2>3. get_pbs_signal(0)' = sig
    <3>1. 0 \in SigIndices
      BY ConfigAssumption DEF SigIndices
    <3> QED
      BY <1>1, <2>2, <3>1, AddSignalShifts DEF SignalInv
  <2>4. stress <= 0 \/ check_t2_preemptions(was_preempted[cur_task])
    BY <1>1, <2>1, <2>2, <2>3 DEF SignallingTick
  <2>5. CASE stress <= 0
    <3>1. stress = 0 /\ STRESS_RESET \in Nat /\ tick_counter \in Nat
      BY <1>1, <2>5, ConfigAssumption DEF IInv, TypeOK
    <3>2. get_pbs_signal(0).tick \in Nat
      <4>1. get_pbs_signal(0) \in Signal
        BY <1>1, ConfigAssumption DEF SignalInv, SignalTypeOK, get_pbs_signal, SigIndices
      <4> QED
        BY <4>1 DEF Signal
    <3>3. tick_counter - get_pbs_signal(0).tick >= STRESS_RESET - stress
      BY <1>1 DEF SignalInv, StressCoversSignal
    <3> QED
      BY <2>2, <2>3, <3>1, <3>2, <3>3
  <2> QED
    BY <2>2, <2>3, <2>4, <2>5
<1>2. IInv /\ SignalInv /\ [Next]_vars =>
        [LET before == get_pbs_signal(0)
             new    == get_pbs_signal(0)'
         IN  prediction_failures_caused # 0 /\ before # new /\ new.type_signal = T2_SIGNAL
               => \/ new.tick >= before.tick + STRESS_RESET
                  \/ check_t2_preemptions(was_preempted[new.task_id])]_vars
  BY <1>1
<1> QED
  BY <1>2, SpecSignalInv, PTL DEF Spec, T2SignalsAreSpaced
=============================================================================
