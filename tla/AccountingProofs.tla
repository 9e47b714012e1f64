--------------------------- MODULE AccountingProofs ---------------------------
(***************************************************************************)
(* Proofs about the counters of the scheduler for every plan: what the     *)
(* task states, the number of finished tasks and the totals of plan and    *)
(* processes say about the progress of the plan.                           *)
(***************************************************************************)
EXTENDS PBSchedulerProofs

-----------------------------------------------------------------------------
(* The list and the cursor. *)

(* The entries behind the cursor, and those still to be run.               *)
Done == {e \in Entries : \E i \in 0 .. cur - 1 : tasks[i] = e}
Rest == {e \in Entries : \E i \in cur .. NumTasks - 1 : tasks[i] = e}

(* The list in front of the sentinel holds every entry once, the cursor    *)
(* divides it.                                                             *)
ListIsSplit ==
  /\ \A i \in 0 .. NumTasks - 1 : tasks[i] \in Entries /\ (tasks[i] \in Rest <=> i >= cur)
  /\ \A i, j \in 0 .. NumTasks - 1 : tasks[i] = tasks[j] => i = j
  /\ \A e \in Entries : \E i \in 0 .. NumTasks - 1 : tasks[i] = e
  /\ \A e \in Entries : e \in Done <=> e \notin Rest

LEMMA EntriesFinite ==
  /\ NumTasks \in Nat \ {0}
  /\ Entries = 0 .. NumTasks - 1
  /\ Indices = 0 .. NumTasks
  /\ Entries \subseteq Indices
  /\ IsFiniteSet(Entries)
  /\ IsFiniteSet(Indices)
<1>1. NumTasks \in Nat \ {0} /\ Entries = 0 .. NumTasks - 1 /\ Indices = 0 .. NumTasks
  BY PlanAssumption DEF Entries, Indices
<1>2. IsFiniteSet(Entries) /\ IsFiniteSet(Indices)
  BY <1>1, FS_Interval
<1> QED
  BY <1>1, <1>2

LEMMA DoneAndRest == IInv => ListIsSplit
<1> SUFFICES ASSUME IInv PROVE ListIsSplit
  OBVIOUS
<1>1. /\ NumTasks \in Nat
      /\ cur \in 0 .. NumTasks
      /\ tasks \in [Indices -> Indices]
      /\ Entries = 0 .. NumTasks - 1
      /\ Indices = 0 .. NumTasks
  BY EntriesFinite DEF IInv, TypeOK
<1>2. \A i, j \in 0 .. NumTasks - 1 : tasks[i] = tasks[j] => i = j
  BY <1>1 DEF IInv, PlanIsPermutation
<1>3. \A i \in 0 .. NumTasks - 1 : tasks[i] \in Entries
  <2> SUFFICES ASSUME NEW i \in 0 .. NumTasks - 1 PROVE tasks[i] \in Entries
    OBVIOUS
  <2>1. i \in Indices /\ NumTasks \in Indices /\ i # NumTasks
    BY <1>1
  <2>2. tasks[i] \in Indices /\ tasks[i] # NumTasks
    BY <1>1, <2>1 DEF IInv, PlanIsPermutation, END
  <2> QED
    BY <1>1, <2>2
<1>4. \A e \in Entries : \E i \in 0 .. NumTasks - 1 : tasks[i] = e
  <2> SUFFICES ASSUME NEW e \in Entries PROVE \E i \in 0 .. NumTasks - 1 : tasks[i] = e
    OBVIOUS
  <2>1. PICK i \in Indices : tasks[i] = e
    BY <1>1 DEF IInv, PlanIsPermutation
  <2>2. i # NumTasks
    BY <1>1, <2>1 DEF IInv, PlanIsPermutation, END
  <2> QED
    BY <1>1, <2>1, <2>2
<1>5. \A e \in Entries : e \in Done <=> e \notin Rest
  <2> SUFFICES ASSUME NEW e \in Entries PROVE e \in Done <=> e \notin Rest
    OBVIOUS
  <2>1. PICK i \in 0 .. NumTasks - 1 : tasks[i] = e
    BY <1>4
  <2>2. \A j \in 0 .. NumTasks - 1 : tasks[j] = e => j = i
    BY <1>2, <2>1
  <2>3. e \in Done <=> i \in 0 .. cur - 1
    BY <1>1, <2>1, <2>2 DEF Done
  <2>4. e \in Rest <=> i \in cur .. NumTasks - 1
    BY <1>1, <2>1, <2>2 DEF Rest
  <2> QED
    BY <1>1, <2>3, <2>4
<1>6. \A i \in 0 .. NumTasks - 1 : tasks[i] \in Rest <=> i >= cur
  <2> SUFFICES ASSUME NEW i \in 0 .. NumTasks - 1 PROVE tasks[i] \in Rest <=> i >= cur
    OBVIOUS
  <2>1. \A j \in 0 .. NumTasks - 1 : tasks[j] = tasks[i] => j = i
    BY <1>2
  <2> QED
    BY <1>1, <1>3, <2>1 DEF Rest
<1> QED
  BY <1>2, <1>3, <1>4, <1>5, <1>6 DEF ListIsSplit

LEMMA NextDoneAndRest == IInv' => ListIsSplit'
BY DoneAndRest, PTL

(* A finished task goes behind the cursor, no other tick moves a task past *)
(* it.                                                                     *)
LEMMA FinishDone ==
  ASSUME IInv, TickFinishesTask
  PROVE  /\ cur_task \in Rest /\ cur_task \notin Done
         /\ \A e \in Entries : ~ IsFreeSlot(e) =>
              /\ e \in Done' <=> e \in Done \/ e = cur_task
              /\ e \in Rest' <=> e \in Rest /\ e # cur_task
<1>1. /\ cur \in 0 .. NumTasks - 1
      /\ cur' = IF IsFreeSlot(tasks[cur + 1]) THEN cur + 2 ELSE cur + 1
      /\ UNCHANGED <<parsed, tasks, slot_owner>>
  BY FinishMoves
<1>2. ListIsSplit /\ ListIsSplit'
  BY DoneAndRest, NextDoneAndRest, TickFinishesTaskIInv
<1>3. cur_task \in Rest /\ cur_task \notin Done
  <2>1. cur >= cur
    BY <1>1, EntriesFinite
  <2>2. cur_task \in Entries /\ cur_task \in Rest
    BY <1>1, <1>2, <2>1 DEF ListIsSplit, cur_task
  <2> QED
    BY <1>2, <2>2 DEF ListIsSplit
<1>4. ASSUME NEW e \in Entries, ~ IsFreeSlot(e)
      PROVE  e \in Rest' <=> e \in Rest /\ e # cur_task
  <2>1. PICK i \in 0 .. NumTasks - 1 : tasks[i] = e
    BY <1>2 DEF ListIsSplit
  <2>2. (e \in Rest <=> i >= cur) /\ (e \in Rest' <=> i >= cur')
    BY <1>1, <1>2, <2>1 DEF ListIsSplit
  <2>3. e = cur_task <=> i = cur
    BY <1>1, <1>2, <2>1 DEF ListIsSplit, cur_task
  <2>4. IsFreeSlot(tasks[cur + 1]) => i # cur + 1
    BY <1>4, <2>1
  <2> QED
    BY <1>1, <2>2, <2>3, <2>4, EntriesFinite
<1> QED
  BY <1>2, <1>3, <1>4 DEF ListIsSplit

LEMMA PreemptDone ==
  ASSUME IInv, TickPreemptsTask
  PROVE  \A e \in Entries : ~ IsFreeSlot(e) =>
           (e \in Done' <=> e \in Done) /\ (e \in Rest' <=> e \in Rest)
<1>1. /\ cur \in 0 .. NumTasks - 1
      /\ cur' = IF IsFreeSlot(tasks'[cur]) THEN cur + 1 ELSE cur
      /\ parsed' = parsed
  BY PreemptMoves
<1>2. PICK s \in Indices, k \in Indices : Preempts(s, k)
  BY PreemptMoves
<1>3. NumTasks \in Nat /\ Fits(s, k) /\ \A i \in Indices : tasks'[i] = tasks[Source(i, s, k)]
  BY <1>2, EntriesFinite DEF Preempts
<1>4. ListIsSplit /\ ListIsSplit'
  BY DoneAndRest, NextDoneAndRest, TickPreemptsTaskIInv
<1>5. ASSUME NEW e \in Entries, ~ IsFreeSlot(e)
      PROVE  e \in Rest' <=> e \in Rest
  <2>1. PICK i \in 0 .. NumTasks - 1 : tasks'[i] = e
    BY <1>4 DEF ListIsSplit
  <2>2. i \in Indices /\ Source(i, s, k) \in 0 .. NumTasks - 1
    BY <1>3, <2>1 DEF Source, Fits, Indices
  <2>3. tasks[Source(i, s, k)] = e
    BY <1>3, <2>1, <2>2
  <2>4. Source(i, s, k) >= cur <=> i >= cur
    BY <1>3, <2>1 DEF Source, Fits
  <2>5. e \in Rest <=> i >= cur
    BY <1>4, <2>2, <2>3, <2>4 DEF ListIsSplit
  <2>6. e \in Rest' <=> i >= cur'
    BY <1>4, <2>1 DEF ListIsSplit
  <2>7. IsFreeSlot(tasks'[cur]) => i # cur
    BY <1>5, <2>1
  <2> QED
    BY <1>1, <1>3, <2>5, <2>6, <2>7
<1> QED
  BY <1>4, <1>5 DEF ListIsSplit

-----------------------------------------------------------------------------
(* The task states.                                                        *)

(* The inductive invariant: a finished task under the cursor, left there   *)
(* by handle_no_preemption_slot_found, has retired its real length, so     *)
(* that the next tick finishes it and cannot preempt it.                   *)
FinishedInv ==
  /\ FinishedBehindCursor
  /\ cur_task # END /\ state[cur_task] = PLAN_TASK_FINISHED
       => retired_task[cur_task] >= parsed.real[cur_task]

FinishedTasks == {i \in 0 .. cur - 1 : IsTask(tasks[i])}

LEMMA FinishedInvParts ==
  FinishedInv <=>
    /\ \A i \in 0 .. cur - 1 :
         IsTask(tasks[i]) => /\ state[tasks[i]] = PLAN_TASK_FINISHED
                             /\ retired_task[tasks[i]] >= parsed.real[tasks[i]]
    /\ \A i \in cur .. NumTasks - 1 :
         state[tasks[i]] = PLAN_TASK_FINISHED => i = cur /\ plan_state = PLAN_FINISHED
    /\ tasks_finished = Cardinality(FinishedTasks)
    /\ cur_task # END /\ state[cur_task] = PLAN_TASK_FINISHED
         => retired_task[cur_task] >= parsed.real[cur_task]
BY DEF FinishedInv, FinishedBehindCursor, FinishedTasks

LEMMA NextFinishedInvParts ==
  FinishedInv' <=>
    /\ \A i \in 0 .. cur' - 1 :
         IsTask(tasks[i])' => /\ state'[tasks'[i]] = PLAN_TASK_FINISHED
                              /\ retired_task'[tasks'[i]] >= parsed'.real[tasks'[i]]
    /\ \A i \in cur' .. NumTasks - 1 :
         state'[tasks'[i]] = PLAN_TASK_FINISHED => i = cur' /\ plan_state' = PLAN_FINISHED
    /\ tasks_finished' = Cardinality(FinishedTasks')
    /\ cur_task' # END /\ state'[cur_task'] = PLAN_TASK_FINISHED
         => retired_task'[cur_task'] >= parsed'.real[cur_task']
BY DEF FinishedInv, FinishedBehindCursor, FinishedTasks, IsTask

LEMMA InitFinishedInv == PlanIsLoaded => FinishedInv
<1> SUFFICES ASSUME PlanIsLoaded PROVE FinishedInv
  OBVIOUS
<1>1. PICK plan \in Plans : parse_plan(plan)
  BY DEF PlanIsLoaded
<1>2. /\ cur = 0
      /\ tasks_finished = 0
      /\ tasks = [i \in Indices |-> i]
      /\ state = [e \in Indices |-> PLAN_TASK_WAITING]
  BY <1>1 DEF parse_plan
<1>3. FinishedTasks = {}
  BY <1>2 DEF FinishedTasks
<1>4. \A i \in cur .. NumTasks - 1 : state[tasks[i]] # PLAN_TASK_FINISHED
  BY <1>2, EntriesFinite DEF PLAN_TASK_WAITING, PLAN_TASK_FINISHED
<1>5. state[cur_task] # PLAN_TASK_FINISHED
  BY <1>2, EntriesFinite DEF PLAN_TASK_WAITING, PLAN_TASK_FINISHED, cur_task
<1>6. tasks_finished = Cardinality(FinishedTasks)
  BY <1>2, <1>3, FS_EmptySet
<1> QED
  BY <1>2, <1>4, <1>5, <1>6, FinishedInvParts

LEMMA FinishedTasksFinite == IInv => IsFiniteSet(FinishedTasks)
<1> SUFFICES ASSUME IInv PROVE IsFiniteSet(FinishedTasks)
  OBVIOUS
<1>1. cur \in Int
  BY EntriesFinite DEF IInv, TypeOK
<1>2. IsFiniteSet(0 .. cur - 1) /\ FinishedTasks \in SUBSET (0 .. cur - 1)
  BY <1>1, FS_Interval DEF FinishedTasks
<1> QED
  BY <1>2, FS_Subset

LEMMA FinishKeepsFinishedInv ==
  ASSUME IInv, FinishedInv, TickFinishesTask
  PROVE  FinishedInv'
<1>1. /\ cur \in 0 .. NumTasks - 1
      /\ cur + 1 \in Indices
      /\ cur' = IF IsFreeSlot(tasks[cur + 1]) THEN cur + 2 ELSE cur + 1
      /\ cur' \in Indices
      /\ UNCHANGED <<parsed, tasks, plan_state>>
      /\ tasks_finished' = tasks_finished + 1
      /\ state' = [state EXCEPT ![cur_task] = PLAN_TASK_FINISHED,
                                ![tasks[cur + 1]] = PLAN_TASK_RUNNING,
                                ![tasks[cur']] = PLAN_TASK_RUNNING]
  BY FinishMoves
<1>2. /\ NumTasks \in Nat
      /\ Indices = 0 .. NumTasks
      /\ tasks \in [Indices -> Indices]
      /\ \A i, j \in Indices : tasks[i] = tasks[j] => i = j
      /\ cur_task \in Indices
      /\ DOMAIN state = Indices
      /\ DOMAIN retired_task = Indices
  BY <1>1, EntriesFinite DEF IInv, TypeOK, PlanIsPermutation, cur_task
<1>1a. cur \in 0 .. NumTasks - 1 /\ (cur' = cur + 1 \/ cur' = cur + 2)
  BY <1>1
<1>2a. NumTasks \in Nat
  BY <1>2
<1>3. /\ retired_task' = [retired_task EXCEPT ![cur_task] = @ + INS_PER_TICK]
      /\ retired_task[cur_task] + INS_PER_TICK >= parsed.real[cur_task]
      /\ cur_task # END
  BY DEF TickFinishesTask, FinishesInTick
<1>4. parsed.pid[cur_task] \in Processes
  BY <1>3, TaskRuns
<1>5. \A i \in 0 .. cur' - 1 : i < cur \/ i = cur \/ (i = cur + 1 /\ IsFreeSlot(tasks[i]))
  BY <1>1, <1>2
<1>6. ASSUME NEW i \in 0 .. cur' - 1, IsTask(tasks[i])'
      PROVE  /\ state'[tasks'[i]] = PLAN_TASK_FINISHED
             /\ retired_task'[tasks'[i]] >= parsed'.real[tasks'[i]]
  <2>1. i \in Indices /\ IsTask(tasks[i])
    BY <1>1, <1>2, <1>6 DEF IsTask
  <2>2. i < cur \/ i = cur
    BY <1>5, <2>1 DEF IsTask, IsFreeSlot, FREE_PID, Processes
  <2>3. tasks[i] # tasks[cur + 1] /\ tasks[i] # tasks[cur']
    <3>1. i # cur + 1 /\ i # cur'
      <4>1. cur \in Int /\ (cur' = cur + 1 \/ cur' = cur + 2)
        BY <1>1a, <1>2a
      <4> QED
        BY <2>2, <4>1
    <3> QED
      BY <1>1, <1>2, <2>1, <3>1
  <2>4. CASE i = cur
    BY <1>1, <1>2, <1>3, <2>3, <2>4 DEF cur_task
  <2>5. CASE i < cur
    <3>1. tasks[i] # cur_task /\ i \in 0 .. cur - 1
      BY <1>1, <1>2, <2>1, <2>5 DEF cur_task
    <3>2. state[tasks[i]] = PLAN_TASK_FINISHED /\ retired_task[tasks[i]] >= parsed.real[tasks[i]]
      BY <2>1, <3>1, FinishedInvParts
    <3> QED
      BY <1>1, <1>2, <1>3, <2>1, <2>3, <3>1, <3>2
  <2> QED
    BY <2>2, <2>4, <2>5
<1>7. ASSUME NEW i \in cur' .. NumTasks - 1, state'[tasks'[i]] = PLAN_TASK_FINISHED
      PROVE  i = cur' /\ plan_state' = PLAN_FINISHED
  <2>1. i \in Indices /\ i \in cur .. NumTasks - 1 /\ i # cur
    BY <1>1, <1>2
  <2>2. tasks[i] # cur_task /\ tasks[i] \in Indices
    <3>1. cur \in Indices
      BY <1>1, <1>2
    <3> QED
      BY <1>2, <2>1, <3>1 DEF cur_task
  <2>3. tasks[i] # tasks[cur'] /\ tasks[i] # tasks[cur + 1]
    BY <1>1, <1>2, <1>7, <2>2 DEF PLAN_TASK_RUNNING, PLAN_TASK_FINISHED
  <2>4. state[tasks[i]] = PLAN_TASK_FINISHED
    BY <1>1, <1>2, <1>7, <2>2, <2>3
  <2> QED
    BY <2>1, <2>4, FinishedInvParts
<1>8. tasks_finished' = Cardinality(FinishedTasks')
  <2>1. FinishedTasks' = FinishedTasks \cup {cur}
    <3>1. \A i \in 0 .. cur' - 1 : IsTask(tasks[i]) => i < cur \/ i = cur
      BY <1>5 DEF IsTask, IsFreeSlot, FREE_PID, Processes
    <3>2. IsTask(tasks[cur])
      BY <1>4 DEF IsTask, cur_task
    <3>3. FinishedTasks' = {i \in 0 .. cur' - 1 : IsTask(tasks[i])}
      BY <1>1 DEF FinishedTasks, IsTask
    <3>4. cur \in 0 .. cur' - 1 /\ \A i \in 0 .. cur - 1 : i \in 0 .. cur' - 1
      BY <1>1, <1>2
    <3>5. \A i \in 0 .. cur' - 1 : i < cur => i \in 0 .. cur - 1
      BY <1>1, <1>2
    <3> QED
      BY <3>1, <3>2, <3>3, <3>4, <3>5 DEF FinishedTasks
  <2>2. cur \notin FinishedTasks
    BY <1>1, <1>2 DEF FinishedTasks
  <2>3. Cardinality(FinishedTasks') = Cardinality(FinishedTasks) + 1
    BY <2>1, <2>2, FinishedTasksFinite, FS_AddElement
  <2> QED
    BY <1>1, <2>3, FinishedInvParts
<1>9. state'[cur_task'] # PLAN_TASK_FINISHED
  BY <1>1, <1>2 DEF cur_task, PLAN_TASK_RUNNING, PLAN_TASK_FINISHED
<1> QED
  BY <1>6, <1>7, <1>8, <1>9, NextFinishedInvParts

(* A tick that leaves the cursor where it is adds to the current task.     *)
LEMMA StayKeepsFinishedInv ==
  ASSUME IInv, FinishedInv, TickRunsTask \/ TickFindsNoSlot
  PROVE  FinishedInv'
<1>1. /\ cur \in 0 .. NumTasks - 1
      /\ UNCHANGED <<parsed, tasks, cur, tasks_finished>>
      /\ cur_task # END
      /\ cur_task \in Indices
      /\ NumTasks \in Nat
      /\ Indices = 0 .. NumTasks
  <2>1. cur_task # END
    BY DEF TickRunsTask, TickFindsNoSlot, TimerTick
  <2> QED
    BY <2>1, TickStays, TaskRuns, EntriesFinite
<1>2. /\ tasks \in [Indices -> Indices]
      /\ state \in [Indices -> {PLAN_TASK_WAITING, PLAN_TASK_RUNNING, PLAN_TASK_FINISHED}]
      /\ retired_task \in [Indices -> Nat]
      /\ parsed.real \in [Indices -> Nat]
  BY DEF IInv, TypeOK
<1>3. retired_task[cur_task] < parsed.real[cur_task]
  BY <1>1, <1>2, ConfigAssumption DEF TickRunsTask, TickFindsNoSlot, TimerTick, FinishesInTick
<1>4. state[cur_task] # PLAN_TASK_FINISHED
  <2>1. retired_task[cur_task] \in Nat /\ parsed.real[cur_task] \in Nat
    BY <1>1, <1>2
  <2> QED
    BY <1>1, <1>3, <2>1, FinishedInvParts
<1>5. ASSUME NEW i \in 0 .. NumTasks - 1
      PROVE  i \in Indices /\ tasks[i] \in Indices /\ (tasks[i] = cur_task => i = cur)
  <2>1. i \in Indices /\ cur \in Indices
    BY <1>1
  <2> QED
    BY <1>2, <2>1 DEF IInv, PlanIsPermutation, cur_task
<1>6. /\ cur_task' = cur_task
      /\ FinishedTasks' = FinishedTasks
      /\ \A i : IsTask(tasks[i])' <=> IsTask(tasks[i])
  BY <1>1 DEF cur_task, FinishedTasks, IsTask
<1>7. CASE TickRunsTask
  <2>1. /\ state' = state
        /\ plan_state' = plan_state
        /\ retired_task' = [retired_task EXCEPT ![cur_task] = @ + INS_PER_TICK]
    BY <1>7 DEF TickRunsTask, Retire
  <2>2. \A e \in Indices : e # cur_task => retired_task'[e] = retired_task[e]
    BY <1>2, <2>1
  <2>3. \A i \in 0 .. cur - 1 : i \in 0 .. NumTasks - 1 /\ i # cur
    BY <1>1
  <2>4. \A i \in 0 .. cur - 1 : tasks[i] \in Indices /\ tasks[i] # cur_task
    BY <1>5, <2>3
  <2> QED
    BY <1>1, <1>4, <1>6, <2>1, <2>2, <2>4, FinishedInvParts, NextFinishedInvParts
<1>8. CASE TickFindsNoSlot
  <2> DEFINE ins == parsed.real[cur_task] - retired_task[cur_task]
  <2>1. /\ state' = [state EXCEPT ![cur_task] = PLAN_TASK_FINISHED]
        /\ plan_state' = PLAN_FINISHED
        /\ retired_task' = [retired_task EXCEPT ![cur_task] = @ + ins]
    BY <1>8 DEF TickFindsNoSlot, Retire
  <2>2. \A e \in Indices : e # cur_task => retired_task'[e] = retired_task[e] /\ state'[e] = state[e]
    BY <1>2, <2>1
  <2>3. \A i \in 0 .. cur - 1 : i \in 0 .. NumTasks - 1 /\ i # cur
    BY <1>1
  <2>4. \A i \in 0 .. cur - 1 : tasks[i] \in Indices /\ tasks[i] # cur_task
    BY <1>5, <2>3
  <2>5. retired_task'[cur_task] = parsed.real[cur_task]
    <3>1. parsed.real[cur_task] \in Nat /\ retired_task[cur_task] \in Nat
      BY <1>1, <1>2
    <3>2. retired_task'[cur_task] = retired_task[cur_task] + ins
      BY <1>1, <1>2, <2>1
    <3> QED
      BY <3>1, <3>2
  <2>6. \A i \in cur .. NumTasks - 1 : i \in 0 .. NumTasks - 1
    BY <1>1
  <2>7. \A i \in cur .. NumTasks - 1 : state'[tasks[i]] = PLAN_TASK_FINISHED => i = cur
    <3> SUFFICES ASSUME NEW i \in cur .. NumTasks - 1, i # cur
                 PROVE  state'[tasks[i]] # PLAN_TASK_FINISHED
      OBVIOUS
    <3>1. tasks[i] \in Indices /\ tasks[i] # cur_task
      BY <1>5, <2>6
    <3> QED
      BY <2>2, <3>1, FinishedInvParts
  <2>8. parsed.real[cur_task] >= parsed.real[cur_task]
    <3>1. parsed.real[cur_task] \in Nat
      BY <1>1, <1>2
    <3> QED
      BY <3>1
  <2>9. tasks_finished' = Cardinality(FinishedTasks')
    BY <1>1, <1>6, FinishedInvParts
  <2>10. \A i \in 0 .. cur - 1 :
           IsTask(tasks[i]) => /\ state'[tasks[i]] = PLAN_TASK_FINISHED
                               /\ retired_task'[tasks[i]] >= parsed.real[tasks[i]]
    BY <2>2, <2>4, FinishedInvParts
  <2> HIDE DEF ins
  <2>11. parsed' = parsed /\ tasks' = tasks /\ cur' = cur
    BY <1>1
  <2>12. retired_task'[cur_task'] >= parsed'.real[cur_task']
    BY <1>6, <2>5, <2>8, <2>11
  <2> QED
    BY <1>6, <2>1, <2>7, <2>9, <2>10, <2>11, <2>12, NextFinishedInvParts
<1> QED
  BY <1>7, <1>8

(* A preempted task is not finished, and what is behind the cursor, or     *)
(* passes it, stays so.                                                    *)
LEMMA PreemptKeepsFinishedInv ==
  ASSUME IInv, FinishedInv, TickPreemptsTask
  PROVE  FinishedInv'
<1>1. /\ cur \in 0 .. NumTasks - 1
      /\ cur' = IF IsFreeSlot(tasks'[cur]) THEN cur + 1 ELSE cur
      /\ cur' \in Indices
      /\ UNCHANGED <<parsed, tasks_finished, plan_state>>
      /\ NumTasks \in Nat
      /\ Indices = 0 .. NumTasks
  BY PreemptMoves, EntriesFinite
<1>2. PICK s \in Indices, k \in Indices : Preempts(s, k)
  BY PreemptMoves
<1>3. /\ state' = [state EXCEPT ![tasks'[cur]] = PLAN_TASK_RUNNING,
                                ![tasks'[cur']] = PLAN_TASK_RUNNING]
      /\ tasks' \in [Indices -> Indices]
  BY PreemptMoves
<1>4. /\ tasks \in [Indices -> Indices]
      /\ state \in [Indices -> {PLAN_TASK_WAITING, PLAN_TASK_RUNNING, PLAN_TASK_FINISHED}]
      /\ retired_task \in [Indices -> Nat]
      /\ parsed.real \in [Indices -> Nat]
  BY DEF IInv, TypeOK
<1>5. /\ cur_task # END
      /\ cur_task \in Indices
      /\ retired_task[cur_task] < parsed.real[cur_task]
      /\ retired_task' = [retired_task EXCEPT ![cur_task] = @ + INS_PER_TICK]
  <2>1. cur_task # END /\ ~ FinishesInTick /\ Retire(INS_PER_TICK)
    BY DEF TickPreemptsTask, TimerTick, preempt_cur_task
  <2>2. cur_task \in Indices
    BY <2>1, TaskRuns
  <2>3. retired_task[cur_task] \in Nat /\ parsed.real[cur_task] \in Nat
    BY <1>4, <2>2
  <2> QED
    BY <2>1, <2>2, <2>3, ConfigAssumption DEF FinishesInTick, Retire
<1>6. state[cur_task] # PLAN_TASK_FINISHED
  <2>1. retired_task[cur_task] \in Nat /\ parsed.real[cur_task] \in Nat
    BY <1>4, <1>5
  <2> QED
    BY <1>5, <2>1, FinishedInvParts
<1>7. \A i \in cur .. NumTasks - 1 : state[tasks[i]] # PLAN_TASK_FINISHED
  BY <1>6, FinishedInvParts DEF cur_task
<1>8. \A i \in cur .. NumTasks - 1 : i \in Indices /\ Source(i, s, k) \in cur .. NumTasks - 1
  <2>1. \A i \in cur .. NumTasks - 1 : i \in Indices
    BY <1>1
  <2>2. \A i \in cur .. NumTasks - 1 : Source(i, s, k) \in cur .. NumTasks - 1
    BY <1>1, <1>2, SourceAndTarget DEF Preempts
  <2> QED
    BY <2>1, <2>2
<1>9. \A i \in 0 .. cur - 1 : i \in Indices /\ i < cur /\ Source(i, s, k) = i
  <2>1. \A i \in 0 .. cur - 1 : i \in Indices /\ i < cur
    BY <1>1
  <2> QED
    BY <1>1, <1>2, <2>1, SourceAndTarget DEF Preempts
<1>10. \A i \in 0 .. cur - 1 : tasks'[i] = tasks[i]
  BY <1>2, <1>9 DEF Preempts
<1>11. ASSUME NEW e \in Indices, state[e] # PLAN_TASK_FINISHED
       PROVE  state'[e] # PLAN_TASK_FINISHED
  BY <1>3, <1>4, <1>11 DEF PLAN_TASK_RUNNING, PLAN_TASK_FINISHED
<1>12. \A i \in cur .. NumTasks - 1 : state'[tasks'[i]] # PLAN_TASK_FINISHED
  <2> SUFFICES ASSUME NEW i \in cur .. NumTasks - 1
               PROVE  state'[tasks'[i]] # PLAN_TASK_FINISHED
    OBVIOUS
  <2>1. i \in Indices /\ Source(i, s, k) \in cur .. NumTasks - 1 /\ Source(i, s, k) \in Indices
    BY <1>8
  <2>2. tasks'[i] = tasks[Source(i, s, k)]
    BY <1>2, <2>1 DEF Preempts
  <2> QED
    BY <1>4, <1>7, <1>11, <2>1, <2>2
<1>13. \A i \in 0 .. cur' - 1 : i \in 0 .. cur - 1 \/ (i = cur /\ IsFreeSlot(tasks'[i]))
  BY <1>1
<1>14. ~ (FREE_PID \in Processes)
  BY DEF FREE_PID, Processes
<1>15. \A i \in 0 .. cur' - 1 : IsTask(tasks[i])' => i \in 0 .. cur - 1 /\ IsTask(tasks[i])
  BY <1>1, <1>10, <1>13, <1>14 DEF IsTask, IsFreeSlot
<1>16. ASSUME NEW i \in 0 .. cur - 1, IsTask(tasks[i])
       PROVE  /\ state'[tasks'[i]] = PLAN_TASK_FINISHED
              /\ retired_task'[tasks'[i]] >= parsed'.real[tasks'[i]]
  <2>1. /\ tasks'[i] = tasks[i]
        /\ tasks[i] \in Indices
        /\ state[tasks[i]] = PLAN_TASK_FINISHED
        /\ retired_task[tasks[i]] >= parsed.real[tasks[i]]
    BY <1>4, <1>9, <1>10, <1>16, FinishedInvParts
  <2>2. \A m \in cur .. NumTasks - 1 : m \in Indices /\ Source(m, s, k) \in Indices /\ tasks'[m] # tasks[i]
    BY <1>7, <1>8, <1>2, <2>1 DEF Preempts
  <2>3. tasks'[cur] # tasks[i] /\ tasks'[cur'] # tasks[i]
    <3>1. cur \in cur .. NumTasks - 1
      BY <1>1
    <3>2. cur' = NumTasks \/ cur' \in cur .. NumTasks - 1
      BY <1>1
    <3>3. tasks'[NumTasks] = END /\ tasks[NumTasks] = END
      BY TickPreemptsTaskIInv DEF IInv, PlanIsPermutation
    <3>4. tasks[i] # END
      <4>1. NumTasks \in Indices /\ i \in Indices /\ i # NumTasks
        BY <1>1
      <4> QED
        BY <3>3, <4>1 DEF IInv, PlanIsPermutation
    <3> QED
      BY <2>2, <3>1, <3>2, <3>3, <3>4
  <2>4. state'[tasks[i]] = state[tasks[i]]
    BY <1>3, <1>4, <2>1, <2>3
  <2>5. retired_task'[tasks[i]] = retired_task[tasks[i]]
    BY <1>4, <1>5, <1>6, <2>1
  <2> QED
    BY <1>1, <2>1, <2>4, <2>5
<1>17. FinishedTasks' = FinishedTasks
  <2>1. \A i \in 0 .. cur - 1 : i \in 0 .. cur' - 1 /\ (IsTask(tasks[i])' <=> IsTask(tasks[i]))
    BY <1>1, <1>10 DEF IsTask
  <2>2. FinishedTasks' = {i \in 0 .. cur' - 1 : IsTask(tasks[i])'}
    BY DEF FinishedTasks
  <2> QED
    BY <1>15, <2>1, <2>2 DEF FinishedTasks
<1>18. cur_task' # END => state'[cur_task'] # PLAN_TASK_FINISHED
  <2>1. cur_task' = tasks'[cur']
    BY DEF cur_task
  <2>2. tasks'[NumTasks] = END
    BY TickPreemptsTaskIInv DEF IInv, PlanIsPermutation
  <2>3. cur' = NumTasks \/ cur' \in cur .. NumTasks - 1
    BY <1>1
  <2> QED
    BY <1>12, <2>1, <2>2, <2>3
<1>19. \A i \in cur' .. NumTasks - 1 : i \in cur .. NumTasks - 1
  BY <1>1
<1>20. tasks_finished' = Cardinality(FinishedTasks')
  BY <1>1, <1>17, FinishedInvParts
<1> QED
  BY <1>12, <1>15, <1>16, <1>18, <1>19, <1>20, NextFinishedInvParts

LEMMA NextFinishedInv == IInv /\ FinishedInv /\ [Next]_vars => FinishedInv'
<1>1. ASSUME UNCHANGED vars, FinishedInv PROVE FinishedInv'
  BY <1>1 DEF vars, taskVars, processVars, nodeVars, FinishedInv, FinishedBehindCursor, IsTask,
              cur_task
<1> QED
  BY <1>1, FinishKeepsFinishedInv, StayKeepsFinishedInv, PreemptKeepsFinishedInv
  DEF Next, pbs_run_timer_tick, TickAfterEnd

LEMMA SpecFinishedInv == Spec => []FinishedInv
BY InitLoads, InitFinishedInv, NextFinishedInv, SpecIInv, PTL DEF Spec

(* p->tasks_finished counts the tasks switch_task left behind the cursor;  *)
(* they have run for their whole length, and no task from the cursor on is *)
(* in state FINISHED but the one handle_no_preemption_slot_found put there.*)
THEOREM FinishedCorrect == Spec => []FinishedBehindCursor
<1>1. FinishedInv => FinishedBehindCursor
  BY DEF FinishedInv
<1> QED
  BY <1>1, SpecFinishedInv, PTL
-----------------------------------------------------------------------------
(* The totals of plan and processes.                                       *)

(* The slot a task runs in belongs to its process, so that the totals of   *)
(* one process never count a slot of another.                              *)
OwnerIsKin == \A e \in Indices : parsed.pid[slot_owner[e]] = parsed.pid[e]

LEMMA InitOwnerIsKin == PlanIsLoaded => OwnerIsKin
<1> SUFFICES ASSUME PlanIsLoaded PROVE OwnerIsKin
  OBVIOUS
<1>1. slot_owner = [e \in Indices |-> e]
  BY DEF PlanIsLoaded, parse_plan
<1> QED
  BY <1>1 DEF OwnerIsKin

(* A preemption gives the tasks of the stack the slot of a later task of   *)
(* their process.                                                          *)
LEMMA NextOwnerIsKin == IInv /\ OwnerIsKin /\ [Next]_vars => OwnerIsKin'
<1> SUFFICES ASSUME IInv, OwnerIsKin, [Next]_vars PROVE OwnerIsKin'
  OBVIOUS
<1>1. ASSUME UNCHANGED <<parsed, slot_owner>> PROVE OwnerIsKin'
  BY <1>1 DEF OwnerIsKin
<1>2. CASE TickPreemptsTask
  <2>1. parsed' = parsed /\ cur \in 0 .. NumTasks - 1 /\ NumTasks \in Nat
    BY <1>2, PreemptMoves, EntriesFinite
  <2>2. PICK s \in Indices, k \in Indices : Preempts(s, k)
    BY <1>2, PreemptMoves
  <2>3. /\ parsed.pid[tasks[k + 1]] = parsed.pid[tasks[cur]]
        /\ \A j \in cur .. cur + s - 1 : parsed.pid[tasks[j]] = parsed.pid[tasks[cur]]
    BY <2>1, <2>2, StackFits DEF Preempts
  <2> SUFFICES ASSUME NEW e \in Indices PROVE parsed.pid[slot_owner'[e]] = parsed.pid[e]
    BY <2>1 DEF OwnerIsKin
  <2>4. CASE \E j \in cur .. cur + s - 1 : tasks[j] = e
    BY <2>2, <2>3, <2>4 DEF Preempts
  <2>5. CASE ~ \E j \in cur .. cur + s - 1 : tasks[j] = e
    BY <2>2, <2>5 DEF Preempts, OwnerIsKin
  <2> QED
    BY <2>4, <2>5
<1>3. CASE TickFinishesTask
  BY <1>1, <1>3, FinishMoves
<1>4. CASE TickRunsTask \/ TickFindsNoSlot
  BY <1>1, <1>4, TickStays
<1>5. CASE UNCHANGED vars
  BY <1>1, <1>5 DEF vars, taskVars
<1> QED
  BY <1>2, <1>3, <1>4, <1>5 DEF Next, pbs_run_timer_tick, TickAfterEnd

(* What the entries of M count: their real length when they are behind the *)
(* cursor, what was retired in their slots when they are not.              *)
Booked(M) == SumFunctionOnSet(parsed.real, M \cap Done)
               + SumFunctionOnSet(retired_slot, M \cap Rest)

LEMMA CountsAreInt ==
  IInv => /\ \A M \in SUBSET Entries :
               IsFiniteSet(M \cap Done) /\ IsFiniteSet(M \cap Rest)
          /\ \A e \in Entries : parsed.real[e] \in Int /\ retired_slot[e] \in Int
<1> SUFFICES ASSUME IInv
             PROVE  /\ \A M \in SUBSET Entries :
                         IsFiniteSet(M \cap Done) /\ IsFiniteSet(M \cap Rest)
                    /\ \A e \in Entries : parsed.real[e] \in Int /\ retired_slot[e] \in Int
  OBVIOUS
<1>1. ASSUME NEW M \in SUBSET Entries
      PROVE  IsFiniteSet(M \cap Done) /\ IsFiniteSet(M \cap Rest)
  <2>1. M \cap Done \in SUBSET Entries /\ M \cap Rest \in SUBSET Entries
    OBVIOUS
  <2> QED
    BY <2>1, EntriesFinite, FS_Subset
<1>2. \A e \in Entries : parsed.real[e] \in Int /\ retired_slot[e] \in Int
  <2>1. Entries \subseteq Indices
    BY EntriesFinite
  <2> QED
    BY <2>1 DEF IInv, TypeOK
<1> QED
  BY <1>1, <1>2

LEMMA BookedIsInt == IInv => \A M \in SUBSET Entries : Booked(M) \in Int
<1> SUFFICES ASSUME IInv, NEW M \in SUBSET Entries PROVE Booked(M) \in Int
  OBVIOUS
<1>1. SumFunctionOnSet(parsed.real, M \cap Done) \in Int
  BY CountsAreInt, SumType
<1>2. SumFunctionOnSet(retired_slot, M \cap Rest) \in Int
  BY CountsAreInt, SumType
<1> QED
  BY <1>1, <1>2 DEF Booked

(* update_retired_instructions books on a slot that is still to be run.    *)
LEMMA SlotIsBooked ==
  ASSUME IInv, cur_task # END, NEW M \in SUBSET Entries, NEW ins \in Nat,
         slot_owner[cur_task] \in M <=> cur_task \in M
  PROVE  /\ SumFunctionOnSet(SlotRetired(ins), M \cap Rest)
              = SumFunctionOnSet(retired_slot, M \cap Rest)
                + (IF cur_task \in M THEN ins ELSE 0)
         /\ \A e \in Entries : SlotRetired(ins)[e] \in Int
<1> DEFINE owner == slot_owner[cur_task]
           new == SlotRetired(ins)
<1>1. owner \in Indices /\ owner \in Rest
  <2>1. PICK j \in cur .. NumTasks - 1 : owner = tasks[j]
    BY TaskRuns
  <2>2. j \in 0 .. NumTasks - 1 /\ j >= cur
    BY EntriesFinite DEF IInv, TypeOK
  <2>3. tasks[j] \in Rest
    BY <2>2, DoneAndRest DEF ListIsSplit
  <2> QED
    BY <2>1, <2>3, TaskRuns
<1>2. \A e \in Entries : new[e] \in Int /\ retired_slot[e] \in Int
  <2>1. Entries \subseteq Indices /\ new \in [Indices -> Nat]
    BY EntriesFinite, SlotRetiredType
  <2>2. \A e \in Entries : new[e] \in Int
    BY <2>1
  <2> QED
    BY <2>2, CountsAreInt
<1>3. /\ new[owner] = retired_slot[owner] + ins
      /\ \A e \in Indices : e # owner => new[e] = retired_slot[e]
  BY <1>1 DEF IInv, TypeOK, SlotRetired
<1>4. IsFiniteSet(M \cap Rest) /\ M \cap Rest \subseteq Entries /\ Entries \subseteq Indices
  BY CountsAreInt, EntriesFinite
<1>5. retired_slot[owner] \in Int
  BY <1>1, <1>2 DEF Rest
<1> HIDE DEF new, owner
<1>6. CASE owner \in M
  <2>1. owner \in M \cap Rest
    BY <1>1, <1>6
  <2>2. \A y \in M \cap Rest : retired_slot[y] \in Int /\ new[y] \in Int
    BY <1>2, <1>4
  <2>3. \A y \in (M \cap Rest) \ {owner} : retired_slot[y] = new[y]
    BY <1>3, <1>4
  <2>4. SumFunctionOnSet(new, M \cap Rest)
          = SumFunctionOnSet(retired_slot, M \cap Rest) + (new[owner] - retired_slot[owner])
    BY <1>4, <2>1, <2>2, <2>3, SumUpdate
  <2>5. new[owner] - retired_slot[owner] = ins
    BY <1>3, <1>5
  <2> QED
    BY <1>2, <1>6, <2>4, <2>5 DEF owner, new
<1>7. CASE owner \notin M
  <2>1. \A y \in M \cap Rest : new[y] = retired_slot[y]
    BY <1>3, <1>4, <1>7
  <2>2. SumFunctionOnSet(new, M \cap Rest) = SumFunctionOnSet(retired_slot, M \cap Rest)
    BY <1>4, <2>1, SumEqual
  <2>3. SumFunctionOnSet(retired_slot, M \cap Rest) \in Int
    BY <1>2, <1>4, SumType
  <2> QED
    BY <1>2, <1>7, <2>2, <2>3 DEF owner, new
<1> QED
  BY <1>6, <1>7

(* The tasks M belong together: no free slot, no slot of another task.     *)
Closed(M) ==
  /\ M \in SUBSET Entries
  /\ \A e \in M : ~ IsFreeSlot(e)
  /\ slot_owner[cur_task] \in M <=> cur_task \in M

(* A tick that does not finish the task books what it retired.             *)
LEMMA TimerTickBooks ==
  ASSUME IInv, cur_task # END, NEW M, Closed(M), NEW ins \in Nat,
         parsed' = parsed, retired_slot' = SlotRetired(ins),
         \A e \in Entries : ~ IsFreeSlot(e) =>
           (e \in Done' <=> e \in Done) /\ (e \in Rest' <=> e \in Rest)
  PROVE  Booked(M)' = Booked(M) + (IF cur_task \in M THEN ins ELSE 0)
<1>1. M \cap Done' = M \cap Done /\ M \cap Rest' = M \cap Rest
  BY DEF Closed
<1>2. SumFunctionOnSet(SlotRetired(ins), M \cap Rest)
        = SumFunctionOnSet(retired_slot, M \cap Rest) + (IF cur_task \in M THEN ins ELSE 0)
  BY SlotIsBooked DEF Closed
<1>3. /\ SumFunctionOnSet(parsed.real, M \cap Done) \in Int
      /\ SumFunctionOnSet(retired_slot, M \cap Rest) \in Int
  <2>1. IsFiniteSet(M \cap Done) /\ IsFiniteSet(M \cap Rest)
    BY CountsAreInt DEF Closed
  <2>2. \A e \in M : parsed.real[e] \in Int /\ retired_slot[e] \in Int
    BY CountsAreInt DEF Closed
  <2> QED
    BY <2>1, <2>2, SumType
<1>4. Booked(M)' = SumFunctionOnSet(parsed.real, M \cap Done)
                     + SumFunctionOnSet(SlotRetired(ins), M \cap Rest)
  BY <1>1 DEF Booked
<1> QED
  BY <1>2, <1>3, <1>4 DEF Booked

(* schedule_task_finished takes the surplus of the slot from the totals,   *)
(* so that the finished task counts its real length from now on.           *)
LEMMA FinishBooks ==
  ASSUME IInv, TickFinishesTask, NEW M, Closed(M)
  PROVE  Booked(M)' = Booked(M)
           + (IF cur_task \in M
              THEN INS_PER_TICK - (SlotRetired(INS_PER_TICK)[cur_task] - parsed.real[cur_task])
              ELSE 0)
<1> DEFINE new == SlotRetired(INS_PER_TICK)
           real == parsed.real
<1>1. /\ cur_task # END
      /\ parsed' = parsed
      /\ retired_slot' = new
      /\ INS_PER_TICK \in Nat
  BY ConfigAssumption DEF TickFinishesTask
<1>2. M \in SUBSET Entries /\ \A e \in M : ~ IsFreeSlot(e)
  BY DEF Closed
<1>3. SumFunctionOnSet(new, M \cap Rest)
        = SumFunctionOnSet(retired_slot, M \cap Rest)
          + (IF cur_task \in M THEN INS_PER_TICK ELSE 0)
  BY <1>1, SlotIsBooked DEF Closed
<1>4. \A e \in Entries : new[e] \in Int /\ real[e] \in Int /\ retired_slot[e] \in Int
  BY <1>1, SlotIsBooked, CountsAreInt DEF Closed
<1>5. IsFiniteSet(M \cap Done) /\ IsFiniteSet(M \cap Rest)
  BY <1>2, CountsAreInt
<1>6. /\ cur_task \in Rest /\ cur_task \notin Done
      /\ \A e \in M : /\ e \in Done' <=> e \in Done \/ e = cur_task
                      /\ e \in Rest' <=> e \in Rest /\ e # cur_task
  BY <1>2, FinishDone
<1> HIDE DEF new, real
<1>7. Booked(M)' = SumFunctionOnSet(real, M \cap Done') + SumFunctionOnSet(new, M \cap Rest')
  BY <1>1 DEF Booked, real
<1>8. /\ SumFunctionOnSet(real, M \cap Done) \in Int
      /\ SumFunctionOnSet(retired_slot, M \cap Rest) \in Int
      /\ SumFunctionOnSet(new, M \cap Rest) \in Int
  <2>1. \A e \in M : new[e] \in Int /\ real[e] \in Int /\ retired_slot[e] \in Int
    BY <1>2, <1>4
  <2> QED
    BY <1>5, <2>1, SumType
<1>9. CASE cur_task \in M
  <2>1. M \cap Done' = (M \cap Done) \cup {cur_task} /\ M \cap Rest' = (M \cap Rest) \ {cur_task}
    BY <1>6, <1>9
  <2>2. SumFunctionOnSet(real, (M \cap Done) \cup {cur_task})
          = real[cur_task] + SumFunctionOnSet(real, M \cap Done)
    <3>1. cur_task \notin M \cap Done /\ \A y \in (M \cap Done) \cup {cur_task} : real[y] \in Int
      BY <1>2, <1>4, <1>6, <1>9
    <3> QED
      BY <1>5, <3>1, SumAdd
  <2>3. SumFunctionOnSet(new, M \cap Rest)
          = new[cur_task] + SumFunctionOnSet(new, (M \cap Rest) \ {cur_task})
    <3>1. cur_task \in M \cap Rest /\ \A y \in M \cap Rest : new[y] \in Int
      BY <1>2, <1>4, <1>6, <1>9
    <3> QED
      BY <1>5, <3>1, SumRemove
  <2>4. SumFunctionOnSet(new, (M \cap Rest) \ {cur_task}) \in Int
    <3>1. IsFiniteSet((M \cap Rest) \ {cur_task})
      BY <1>5, FS_Subset
    <3>2. \A y \in (M \cap Rest) \ {cur_task} : new[y] \in Int
      BY <1>2, <1>4
    <3> QED
      BY <3>1, <3>2, SumType
  <2>5. new[cur_task] \in Int /\ real[cur_task] \in Int
    BY <1>2, <1>4, <1>9
  <2>6. Booked(M) = SumFunctionOnSet(real, M \cap Done) + SumFunctionOnSet(retired_slot, M \cap Rest)
    BY DEF Booked, real
  <2>7. Booked(M)' = Booked(M) + (INS_PER_TICK - (new[cur_task] - real[cur_task]))
    <3> DEFINE a  == SumFunctionOnSet(real, M \cap Done)
               b  == SumFunctionOnSet(retired_slot, M \cap Rest)
               bn == SumFunctionOnSet(new, M \cap Rest)
               br == SumFunctionOnSet(new, (M \cap Rest) \ {cur_task})
    <3>1. /\ a \in Int /\ b \in Int /\ bn \in Int /\ br \in Int
          /\ new[cur_task] \in Int /\ real[cur_task] \in Int /\ INS_PER_TICK \in Int
      BY <1>1, <1>8, <2>4, <2>5
    <3>2. bn = b + INS_PER_TICK
      BY <1>3, <1>9
    <3>3. bn = new[cur_task] + br
      BY <2>3
    <3>4. Booked(M)' = (real[cur_task] + a) + br
      BY <1>7, <2>1, <2>2
    <3>5. Booked(M) = a + b
      BY <2>6
    <3> HIDE DEF a, b, bn, br
    <3> QED
      BY <3>1, <3>2, <3>3, <3>4, <3>5
  <2> QED
    BY <1>9, <2>7 DEF new, real
<1>10. CASE cur_task \notin M
  <2>1. M \cap Done' = M \cap Done /\ M \cap Rest' = M \cap Rest
    BY <1>6, <1>10
  <2> QED
    <3> DEFINE a == SumFunctionOnSet(real, M \cap Done)
               b == SumFunctionOnSet(retired_slot, M \cap Rest)
    <3>1. a \in Int /\ b \in Int
      BY <1>8
    <3>2. SumFunctionOnSet(new, M \cap Rest) = b + 0
      BY <1>3, <1>10
    <3>3. Booked(M) = a + b
      BY DEF Booked, real
    <3>4. Booked(M)' = a + (b + 0)
      BY <1>7, <2>1, <3>2
    <3> HIDE DEF a, b
    <3>5. Booked(M)' = Booked(M) + 0
      BY <3>1, <3>3, <3>4
    <3> QED
      BY <1>10, <3>5
<1> QED
  BY <1>9, <1>10

(* The totals move by the same amount.                                     *)
LEMMA TickBooks ==
  ASSUME IInv, pbs_run_timer_tick
  PROVE  /\ parsed' = parsed
         /\ cur_task # END
         /\ cur_process = parsed.pid[cur_task] /\ cur_process \in Processes
         /\ \E ins \in Int :
              /\ instructions_retired' = instructions_retired + ins
              /\ process_retired' = [process_retired EXCEPT ![cur_process] = @ + ins]
              /\ \A M \in SUBSET Entries :
                   Closed(M) => Booked(M)' = Booked(M) + (IF cur_task \in M THEN ins ELSE 0)
<1>1. parsed' = parsed /\ cur_task # END
  BY DEF pbs_run_timer_tick, TickFinishesTask, TickRunsTask, TickPreemptsTask, TickFindsNoSlot,
         TimerTick
<1>2. cur_process = parsed.pid[cur_task] /\ cur_process \in Processes /\ cur_task \in Indices
  BY <1>1, TaskRuns
<1>3. ASSUME TickFinishesTask
      PROVE  \E ins \in Int :
              /\ instructions_retired' = instructions_retired + ins
              /\ process_retired' = [process_retired EXCEPT ![cur_process] = @ + ins]
              /\ \A M \in SUBSET Entries :
                   Closed(M) => Booked(M)' = Booked(M) + (IF cur_task \in M THEN ins ELSE 0)
  <2> DEFINE surplus == SlotRetired(INS_PER_TICK)[cur_task] - parsed.real[cur_task]
             ins == INS_PER_TICK - surplus
  <2>1. surplus \in Int /\ INS_PER_TICK \in Int /\ instructions_retired \in Int
    <3>1. SlotRetired(INS_PER_TICK) \in [Indices -> Nat]
      BY <1>1, SlotRetiredType, ConfigAssumption
    <3>2. SlotRetired(INS_PER_TICK)[cur_task] \in Nat /\ parsed.real[cur_task] \in Nat
      BY <1>2, <3>1 DEF IInv, TypeOK
    <3> QED
      BY <3>2, ConfigAssumption DEF IInv, TypeOK
  <2>2. /\ process_retired' = [process_retired EXCEPT ![cur_process] = @ + ins]
        /\ instructions_retired' = instructions_retired + INS_PER_TICK - surplus
    BY <1>3 DEF TickFinishesTask, ProcessRetired
  <2>3. \A M \in SUBSET Entries :
          Closed(M) => Booked(M)' = Booked(M) + (IF cur_task \in M THEN ins ELSE 0)
    BY <1>3, FinishBooks
  <2> HIDE DEF surplus
  <2>4. ins \in Int /\ instructions_retired' = instructions_retired + ins
    BY <2>1, <2>2
  <2> QED
    BY <2>2, <2>3, <2>4
<1>4. ASSUME NEW ins \in Nat, Retire(ins),
             \A e \in Entries : ~ IsFreeSlot(e) =>
               (e \in Done' <=> e \in Done) /\ (e \in Rest' <=> e \in Rest)
      PROVE  /\ instructions_retired' = instructions_retired + ins
             /\ process_retired' = [process_retired EXCEPT ![cur_process] = @ + ins]
             /\ \A M \in SUBSET Entries :
                  Closed(M) => Booked(M)' = Booked(M) + (IF cur_task \in M THEN ins ELSE 0)
  <2>1. /\ retired_slot' = SlotRetired(ins)
        /\ instructions_retired' = instructions_retired + ins
        /\ process_retired' = [process_retired EXCEPT ![cur_process] = @ + ins]
    BY <1>4 DEF Retire, ProcessRetired
  <2> QED
    BY <1>1, <1>4, <2>1, TimerTickBooks
<1>5. ASSUME TickRunsTask \/ TickFindsNoSlot
      PROVE  \A e \in Entries : ~ IsFreeSlot(e) =>
               (e \in Done' <=> e \in Done) /\ (e \in Rest' <=> e \in Rest)
  BY <1>5, TickStays DEF Done, Rest
<1>6. INS_PER_TICK \in Nat /\ INS_PER_TICK \in Int
  BY ConfigAssumption
<1>7. CASE TickRunsTask
  BY <1>1, <1>2, <1>4, <1>5, <1>6, <1>7 DEF TickRunsTask
<1>8. CASE TickFindsNoSlot
  <2> DEFINE missing == parsed.real[cur_task] - retired_task[cur_task]
  <2>1. Retire(missing) /\ ~ FinishesInTick
    BY <1>8 DEF TickFindsNoSlot, TimerTick
  <2>2. missing \in Nat /\ missing \in Int
    <3>1. parsed.real[cur_task] \in Nat /\ retired_task[cur_task] \in Nat
      BY <1>2 DEF IInv, TypeOK
    <3> QED
      BY <2>1, <3>1, ConfigAssumption DEF FinishesInTick
  <2> HIDE DEF missing
  <2> QED
    BY <1>1, <1>2, <1>4, <1>5, <1>8, <2>1, <2>2
<1>9. CASE TickPreemptsTask
  <2>1. Retire(INS_PER_TICK)
    BY <1>9 DEF TickPreemptsTask, preempt_cur_task
  <2> QED
    BY <1>1, <1>2, <1>4, <1>6, <1>9, <2>1, PreemptDone
<1> QED
  BY <1>1, <1>2, <1>3, <1>7, <1>8, <1>9 DEF pbs_run_timer_tick

(* The entries the totals of the plan and of process q are about.          *)
AllTasks == {e \in Entries : IsTask(e)}
TasksOf(q) == {e \in Entries : parsed.pid[e] = q}

LEMMA AccountingParts ==
  InstructionAccounting <=>
    /\ instructions_retired = Booked(AllTasks)
    /\ \A q \in Processes : process_retired[q] = Booked(TasksOf(q))
<1>1. /\ Behind(IsTask) = AllTasks \cap Done
      /\ Ahead(IsTask) = AllTasks \cap Rest
  BY DEF Behind, Ahead, AllTasks, Done, Rest
<1>2. ASSUME NEW q
      PROVE  /\ Behind(LAMBDA e : parsed.pid[e] = q) = TasksOf(q) \cap Done
             /\ Ahead(LAMBDA e : parsed.pid[e] = q) = TasksOf(q) \cap Rest
  BY DEF Behind, Ahead, TasksOf, Done, Rest
<1> QED
  BY <1>1, <1>2 DEF InstructionAccounting, Accounted, Booked

LEMMA NextAccountingParts ==
  InstructionAccounting' <=>
    /\ instructions_retired' = Booked(AllTasks)'
    /\ \A q \in Processes : process_retired'[q] = Booked(TasksOf(q))'
<1>1. /\ Behind(IsTask)' = AllTasks' \cap Done'
      /\ Ahead(IsTask)' = AllTasks' \cap Rest'
  BY DEF Behind, Ahead, AllTasks, Done, Rest
<1>2. ASSUME NEW q
      PROVE  /\ Behind(LAMBDA e : parsed.pid[e] = q)' = TasksOf(q)' \cap Done'
             /\ Ahead(LAMBDA e : parsed.pid[e] = q)' = TasksOf(q)' \cap Rest'
  BY DEF Behind, Ahead, TasksOf, Done, Rest
<1> QED
  BY <1>1, <1>2 DEF InstructionAccounting, Accounted, Booked

LEMMA InitAccounting == PlanIsLoaded => InstructionAccounting
<1> SUFFICES ASSUME PlanIsLoaded PROVE InstructionAccounting
  OBVIOUS
<1>1. PICK plan \in Plans : parse_plan(plan)
  BY DEF PlanIsLoaded
<1>2. /\ cur = 0
      /\ instructions_retired = 0
      /\ process_retired = [q \in ProcessIndices |-> 0]
      /\ retired_slot = [e \in Indices |-> 0]
  BY <1>1 DEF parse_plan
<1>3. Done = {}
  BY <1>2 DEF Done
<1>4. IInv
  BY InitIInv
<1>5. ASSUME NEW M \in SUBSET Entries PROVE Booked(M) = 0
  <2>1. SumFunctionOnSet(parsed.real, M \cap Done) = 0
    BY <1>3, SumEmpty
  <2>2. SumFunctionOnSet(retired_slot, M \cap Rest) = 0
    <3>1. IsFiniteSet(M \cap Rest) /\ \A e \in M \cap Rest : retired_slot[e] = 0
      BY <1>2, <1>4, CountsAreInt, EntriesFinite
    <3> QED
      BY <3>1, SumZero
  <2> QED
    BY <2>1, <2>2 DEF Booked
<1>6. AllTasks \in SUBSET Entries /\ \A q : TasksOf(q) \in SUBSET Entries
  BY DEF AllTasks, TasksOf
<1>7. Processes \subseteq ProcessIndices
  BY PlanAssumption, ConfigAssumption DEF Processes, ProcessIndices
<1> QED
  BY <1>2, <1>5, <1>6, <1>7, AccountingParts

(* A tick adds to the totals what it adds to the counts of the tasks.      *)
LEMMA TickKeepsAccounting ==
  ASSUME IInv, OwnerIsKin, InstructionAccounting, pbs_run_timer_tick
  PROVE  InstructionAccounting'
<1>1. /\ parsed' = parsed
      /\ cur_task # END
      /\ cur_process = parsed.pid[cur_task] /\ cur_process \in Processes
  BY TickBooks
<1>2. PICK ins \in Int :
        /\ instructions_retired' = instructions_retired + ins
        /\ process_retired' = [process_retired EXCEPT ![cur_process] = @ + ins]
        /\ \A M \in SUBSET Entries :
             Closed(M) => Booked(M)' = Booked(M) + (IF cur_task \in M THEN ins ELSE 0)
  BY TickBooks
<1>3. /\ cur_task \in Entries
      /\ slot_owner[cur_task] \in Entries
      /\ parsed.pid[slot_owner[cur_task]] = parsed.pid[cur_task]
  <2>1. cur_task \in Indices /\ cur \in 0 .. NumTasks - 1
    BY <1>1, TaskRuns
  <2>2. PICK j \in cur .. NumTasks - 1 : slot_owner[cur_task] = tasks[j]
    BY <1>1, TaskRuns
  <2>3. j \in 0 .. NumTasks - 1
    BY <2>1, EntriesFinite
  <2>4. tasks[cur] \in Entries /\ tasks[j] \in Entries
    BY <2>1, <2>3, DoneAndRest DEF ListIsSplit
  <2> QED
    BY <2>1, <2>2, <2>4 DEF OwnerIsKin, cur_task
<1>4. FREE_PID \notin Processes
  BY DEF FREE_PID, Processes
<1>5. instructions_retired \in Int /\ process_retired \in [ProcessIndices -> Int]
  BY DEF IInv, TypeOK
<1>6. instructions_retired' = Booked(AllTasks)'
  <2>1. PICK M : M = AllTasks
    OBVIOUS
  <2>2. AllTasks' = M
    BY <1>1, <2>1 DEF AllTasks, IsTask
  <2>3. Closed(M) /\ cur_task \in M /\ M \in SUBSET Entries
    BY <1>1, <1>3, <1>4, <2>1 DEF Closed, AllTasks, IsTask, IsFreeSlot
  <2>4. Booked(M)' = Booked(M) + ins
    BY <1>2, <2>3
  <2>5. Booked(AllTasks)' = Booked(M)'
    BY <2>2 DEF Booked
  <2> QED
    BY <1>2, <2>1, <2>4, <2>5, AccountingParts
<1>7. ASSUME NEW q \in Processes PROVE process_retired'[q] = Booked(TasksOf(q))'
  <2>1. PICK M : M = TasksOf(q)
    OBVIOUS
  <2>2. TasksOf(q)' = M
    BY <1>1, <2>1 DEF TasksOf
  <2>3. Closed(M) /\ M \in SUBSET Entries /\ (cur_task \in M <=> q = cur_process)
    BY <1>1, <1>3, <1>4, <2>1 DEF Closed, TasksOf, IsFreeSlot
  <2>4. Booked(M)' = Booked(M) + (IF cur_task \in M THEN ins ELSE 0)
    BY <1>2, <2>3
  <2>5. Booked(TasksOf(q))' = Booked(M)'
    BY <2>2 DEF Booked
  <2>6. process_retired[q] = Booked(M)
    BY <2>1, AccountingParts
  <2>7. q \in ProcessIndices
    BY PlanAssumption, ConfigAssumption DEF Processes, ProcessIndices
  <2>8. process_retired[q] \in Int
    BY <1>5, <2>7
  <2>9. process_retired'[q] = process_retired[q] + (IF q = cur_process THEN ins ELSE 0)
    BY <1>2, <1>5, <2>7, <2>8
  <2> QED
    BY <2>3, <2>4, <2>5, <2>6, <2>9
<1> QED
  BY <1>6, <1>7, NextAccountingParts

LEMMA NextAccounting ==
  IInv /\ OwnerIsKin /\ InstructionAccounting /\ [Next]_vars => InstructionAccounting'
<1>1. ASSUME UNCHANGED vars, InstructionAccounting PROVE InstructionAccounting'
  <2>1. UNCHANGED <<parsed, tasks, cur, retired_slot, instructions_retired, process_retired>>
    BY <1>1 DEF vars, taskVars, processVars, nodeVars
  <2>2. /\ Booked(AllTasks)' = Booked(AllTasks)
        /\ \A q : Booked(TasksOf(q))' = Booked(TasksOf(q))
    BY <2>1 DEF Booked, AllTasks, TasksOf, Done, Rest, IsTask
  <2> QED
    BY <1>1, <2>1, <2>2, AccountingParts, NextAccountingParts
<1> QED
  BY <1>1, TickKeepsAccounting DEF Next, TickAfterEnd

LEMMA SpecOwnerIsKin == Spec => []OwnerIsKin
BY InitLoads, InitOwnerIsKin, NextOwnerIsKin, SpecIInv, PTL DEF Spec

(* p->instructions_retired and process->instructions_retired agree with    *)
(* what the tasks have retired, for every plan and however often tasks are *)
(* preempted into the slots of others; at the end they are exact.          *)
THEOREM AccountingCorrect == Spec => []InstructionAccounting
BY InitLoads, InitAccounting, NextAccounting, SpecIInv, SpecOwnerIsKin, PTL DEF Spec

-----------------------------------------------------------------------------
(* The length of the plan.                                                 *)

(* Only a signal changes the lengths, and only signal_tm2 shrinks them,    *)
(* those of process 0.                                                     *)
LEMMA PlannedChanges ==
  ASSUME IInv, pbs_run_timer_tick
  PROVE  \/ planned' = planned /\ UNCHANGED signalVars
         \/ /\ prediction_failures_caused' = prediction_failures_caused + 1
            /\ \/ planned' = reschedule(STRETCH_CONSTANT, cur_process)
               \/ planned' = reschedule(SHRINK_CONSTANT, 0)
<1>1. CASE TickFinishesTask
  <2>1. SignalIf(Tm2Transgressed, TM2_SIGNAL) /\ planned' = PlannedAfterTm2
    BY <1>1 DEF TickFinishesTask
  <2> QED
    BY <2>1 DEF SignalIf, PlannedAfterTm2, signal, add_signal
<1>2. CASE TimerTick
  <2>1. SignalIf(T2Transgressed, T2_SIGNAL) /\ planned' = PlannedAfterT2
    BY <1>2 DEF TimerTick
  <2> QED
    BY <2>1 DEF SignalIf, PlannedAfterT2, signal, add_signal
<1> QED
  BY <1>1, <1>2 DEF pbs_run_timer_tick, TickRunsTask, TickPreemptsTask, TickFindsNoSlot

(* The lengths a reschedule gives to the tasks of a process are not        *)
(* smaller, unless it shrinks that process.                                *)
LEMMA StretchedOrKept ==
  ASSUME IInv, NEW factor \in {STRETCH_CONSTANT, SHRINK_CONSTANT}, NEW target, NEW e \in Entries,
         factor = SHRINK_CONSTANT => parsed.pid[e] # target
  PROVE  /\ planned[e] \in Int
         /\ reschedule(factor, target)[e] \in Int
         /\ planned[e] <= reschedule(factor, target)[e]
<1>1. e \in Indices
  BY EntriesFinite
<1>2. planned[e] \in Nat
  BY <1>1 DEF IInv, TypeOK
<1>3. \/ reschedule(factor, target)[e] = planned[e]
      \/ factor = STRETCH_CONSTANT /\ reschedule(factor, target)[e] = (planned[e] * factor) \div 100
  BY <1>1 DEF reschedule
<1>4. ASSUME NEW n \in Nat PROVE (n * 105) \div 100 \in Nat /\ n <= (n * 105) \div 100
  <2>1. n * 105 \in Nat /\ n * 105 >= n * 100
    OBVIOUS
  <2> QED
    BY <2>1
<1> QED
  BY <1>2, <1>3, <1>4 DEF STRETCH_CONSTANT

(* The length of process q now.                                            *)
LengthOf(q) == SumFunctionOnSet(planned, TasksOf(q))

StaleInv ==
  \A q \in Processes :
    /\ parsed.length_plan[q] \in Int
    /\ prediction_failures_caused = 0 => LengthOf(q) = parsed.length_plan[q]
    /\ q # 0 => LengthOf(q) >= parsed.length_plan[q]

LEMMA InitStaleInv == Init => StaleInv
<1> SUFFICES ASSUME Init, NEW q \in Processes
             PROVE  /\ parsed.length_plan[q] \in Int
                    /\ LengthOf(q) = parsed.length_plan[q]
  <2>1. \A a \in Int : a >= a
    OBVIOUS
  <2> QED
    BY <2>1 DEF StaleInv
<1>1. PICK plan \in Plans : parse_plan(plan)
  BY DEF Init
<1>2. /\ parsed.pid = plan.pid
      /\ parsed.length_plan = [p \in Processes |-> process_length_plan(plan, p)]
      /\ planned = plan.planned
  BY <1>1 DEF parse_plan
<1>3. LengthOf(q) = parsed.length_plan[q]
  BY <1>2 DEF process_length_plan, LengthOf, TasksOf
<1>4. IsFiniteSet(TasksOf(q)) /\ \A e \in TasksOf(q) : planned[e] \in Int
  <2>1. TasksOf(q) \in SUBSET Entries /\ Entries \subseteq Indices
    BY EntriesFinite DEF TasksOf
  <2>2. planned \in [Indices -> Nat]
    BY InitLoads, InitIInv DEF IInv, TypeOK
  <2>3. IsFiniteSet(TasksOf(q))
    BY <2>1, EntriesFinite, FS_Subset
  <2> QED
    BY <2>1, <2>2, <2>3
<1>5. LengthOf(q) \in Int
  BY <1>4, SumType DEF LengthOf
<1> QED
  BY <1>3, <1>5

LEMMA NextStaleInv == IInv /\ SignalTypeOK /\ StaleInv /\ [Next]_vars => StaleInv'
<1> SUFFICES ASSUME IInv, SignalTypeOK, StaleInv, [Next]_vars PROVE StaleInv'
  OBVIOUS
<1>1. CASE UNCHANGED <<parsed, planned>> /\ UNCHANGED signalVars
  BY <1>1 DEF StaleInv, LengthOf, TasksOf, signalVars
<1>2. CASE pbs_run_timer_tick
  <2>1. parsed' = parsed
    BY <1>2, TickBooks
  <2>2. CASE planned' = planned /\ UNCHANGED signalVars
    BY <1>1, <2>1, <2>2
  <2>3. ASSUME prediction_failures_caused' = prediction_failures_caused + 1,
               NEW factor \in {STRETCH_CONSTANT, SHRINK_CONSTANT}, NEW target,
               target = 0 \/ factor # SHRINK_CONSTANT,
               planned' = reschedule(factor, target)
        PROVE  StaleInv'
    <3>1. prediction_failures_caused' # 0
      BY <2>3 DEF SignalTypeOK
    <3>2. ASSUME NEW q \in Processes, q # 0
          PROVE  LengthOf(q)' >= parsed.length_plan[q]
      <4>1. PICK M : M = TasksOf(q)
        OBVIOUS
      <4>2. TasksOf(q)' = M
        BY <2>1, <4>1 DEF TasksOf
      <4>3. M \in SUBSET Entries /\ \A e \in M : parsed.pid[e] = q
        BY <4>1 DEF TasksOf
      <4>4. IsFiniteSet(M)
        BY <4>3, EntriesFinite, FS_Subset
      <4>5. \A e \in M : /\ planned[e] \in Int
                         /\ planned'[e] \in Int
                         /\ planned[e] <= planned'[e]
        BY <2>3, <3>2, <4>3, StretchedOrKept
      <4>6. SumFunctionOnSet(planned, M) <= SumFunctionOnSet(planned', M)
        BY <4>4, <4>5, SumMonotone
      <4>7. SumFunctionOnSet(planned, M) \in Int /\ SumFunctionOnSet(planned', M) \in Int
        BY <4>4, <4>5, SumType
      <4>8. SumFunctionOnSet(planned, M) >= parsed.length_plan[q] /\ parsed.length_plan[q] \in Int
        BY <3>2, <4>1 DEF StaleInv, LengthOf
      <4>9. LengthOf(q)' = SumFunctionOnSet(planned', M)
        BY <4>2 DEF LengthOf
      <4> QED
        BY <4>6, <4>7, <4>8, <4>9
    <3> QED
      BY <2>1, <3>1, <3>2 DEF StaleInv
  <2> QED
    BY <1>2, <2>2, <2>3, PlannedChanges DEF STRETCH_CONSTANT, SHRINK_CONSTANT
<1> QED
  BY <1>1, <1>2 DEF Next, TickAfterEnd, vars, taskVars

(* process->length_plan stays what it was when the plan was parsed, while  *)
(* reschedule stretches the tasks: it is the length of the process up to   *)
(* the first signal and a lower bound from then on, but for process 0.     *)
THEOREM StaleTotalsCorrect == Spec => []StaleTotals
<1>1. StaleInv => StaleTotals
  BY DEF StaleInv, StaleTotals, LengthOf, TasksOf
<1>2. IInv /\ SignalInv => IInv /\ SignalTypeOK
  BY DEF SignalInv
<1> QED
  BY <1>1, <1>2, InitStaleInv, NextStaleInv, SpecSignalInv, PTL DEF Spec

-----------------------------------------------------------------------------
(* The lateness of the plan.                                               *)

LateBy == [i \in Indices |-> LatenessOf(i)]

LateByOK == \A i \in Indices : LateBy[i] = LatenessOf(i) /\ LateBy[i] \in Int

LEMMA LateByIsInt == IInv => LateByOK
<1> SUFFICES ASSUME IInv, NEW i \in Indices
             PROVE  LateBy[i] = LatenessOf(i) /\ LateBy[i] \in Int
  BY DEF LateByOK
<1>1. tasks[i] \in Indices /\ tasks[0] \in Indices
  <2>1. 0 \in Indices
    BY EntriesFinite
  <2> QED
    BY <2>1 DEF IInv, TypeOK
<1>2. parsed.real[tasks[i]] \in Nat /\ planned[tasks[i]] \in Nat /\ planned[tasks[0]] \in Nat
  BY <1>1 DEF IInv, TypeOK
<1> QED
  BY <1>2 DEF LateBy, LatenessOf

LEMMA NextLateBy ==
  IInv' => \A i \in Indices :
             /\ LateBy'[i] \in Int
             /\ LateBy'[i] = IF parsed'.pid[tasks'[i]] = FREE_PID THEN -planned'[tasks'[0]]
                             ELSE parsed'.real[tasks'[i]] - planned'[tasks'[i]]
<1>1. IInv' => LateByOK'
  BY LateByIsInt, PTL
<1> QED
  BY <1>1 DEF LateByOK, LatenessOf, IsFreeSlot

(* Lists of one and two places.                                            *)
LEMMA SumOfFew ==
  ASSUME NEW f, NEW i \in Int
  PROVE  /\ SumFunctionOnSet(f, i .. i - 1) = 0
         /\ f[i] \in Int => SumFunctionOnSet(f, i .. (i + 1) - 1) = f[i]
         /\ f[i] \in Int /\ f[i + 1] \in Int
              => SumFunctionOnSet(f, i .. (i + 2) - 1) = f[i] + f[i + 1]
<1>1. i .. i - 1 = {} /\ i .. (i + 1) - 1 = {} \cup {i} /\ i .. (i + 2) - 1 = {i} \cup {i + 1}
  OBVIOUS
<1>2. SumFunctionOnSet(f, {}) = 0 /\ IsFiniteSet({})
  BY SumEmpty, FS_EmptySet
<1>3. ASSUME f[i] \in Int
      PROVE  SumFunctionOnSet(f, {} \cup {i}) = f[i]
  <2>1. SumFunctionOnSet(f, {} \cup {i}) = f[i] + SumFunctionOnSet(f, {})
    BY <1>2, <1>3, SumAdd
  <2> QED
    BY <1>2, <1>3, <2>1
<1>4. ASSUME f[i] \in Int, f[i + 1] \in Int
      PROVE  SumFunctionOnSet(f, {i} \cup {i + 1}) = f[i] + f[i + 1]
  <2>1. i + 1 \notin {i} /\ IsFiniteSet({i}) /\ {} \cup {i} = {i}
    BY FS_Singleton
  <2>2. SumFunctionOnSet(f, {i} \cup {i + 1}) = f[i + 1] + SumFunctionOnSet(f, {i})
    BY <1>4, <2>1, SumAdd
  <2>3. SumFunctionOnSet(f, {i}) = f[i]
    BY <1>3, <1>4, <2>1
  <2>4. f[i + 1] + f[i] = f[i] + f[i + 1]
    BY <1>4
  <2> QED
    BY <2>2, <2>3, <2>4
<1> QED
  BY <1>1, <1>2, <1>3, <1>4

(* What passes the cursor is added to the lateness, with the lengths the   *)
(* tick leaves behind; a signal sets the lateness to 0 before.             *)
LEMMA LatenessMoves ==
  ASSUME IInv, SignalTypeOK, pbs_run_timer_tick
  PROVE  LET passed == SumFunctionOnSet(LateBy', cur .. cur' - 1)
         IN  \/ UNCHANGED signalVars /\ lateness' = lateness + passed
             \/ /\ prediction_failures_caused' # 0
                /\ lateness' = passed
                /\ get_pbs_signal(0)'.type_signal = TM2_SIGNAL
                     => cur < cur' /\ tasks' = tasks /\ get_pbs_signal(0)'.task_id = cur_task
<1> DEFINE base(signals) == IF signals THEN 0 ELSE lateness
           passed == SumFunctionOnSet(LateBy', cur .. cur' - 1)
<1>1. IInv' /\ lateness \in Int /\ cur \in Int /\ cur \in Indices /\ cur' \in Indices /\ parsed' = parsed
  <2>1. IInv'
    BY NextIInv DEF Next
  <2>2. cur \in Int
    BY EntriesFinite DEF IInv, TypeOK
  <2> QED
    BY <2>1, <2>2, TickBooks DEF IInv, TypeOK
<1>1a. planned'[tasks'[0]] \in Int
  <2>1. 0 \in Indices
    BY EntriesFinite
  <2>2. planned' \in [Indices -> Nat] /\ tasks' \in [Indices -> Indices]
    BY <1>1 DEF IInv, TypeOK
  <2> QED
    BY <2>1, <2>2
<1>2. ASSUME NEW type \in {T2_SIGNAL, TM2_SIGNAL}, signal(type)
      PROVE  /\ prediction_failures_caused' # 0
             /\ get_pbs_signal(0)'.type_signal = type
             /\ get_pbs_signal(0)'.task_id = cur_task
  <2>1. PICK sig \in Signal : add_signal(sig) /\ sig.task_id = cur_task /\ sig.type_signal = type
    BY <1>2, SignalAdds
  <2>2. 0 \in SigIndices
    BY ConfigAssumption DEF SigIndices
  <2>3. get_pbs_signal(0)' = sig
    BY <2>1, <2>2, AddSignalShifts
  <2>4. prediction_failures_caused' = prediction_failures_caused + 1 /\ prediction_failures_caused \in Nat
    BY <2>1 DEF add_signal, SignalTypeOK
  <2> QED
    BY <2>1, <2>3, <2>4
<1>3. ASSUME TimerTick, lateness' = base(T2Transgressed) + passed, passed \in Int
      PROVE  \/ UNCHANGED signalVars /\ lateness' = lateness + passed
             \/ /\ prediction_failures_caused' # 0
                /\ lateness' = passed
                /\ get_pbs_signal(0)'.type_signal = TM2_SIGNAL
                     => cur < cur' /\ tasks' = tasks /\ get_pbs_signal(0)'.task_id = cur_task
  <2>1. SignalIf(T2Transgressed, T2_SIGNAL)
    BY <1>3 DEF TimerTick
  <2>2. T2_SIGNAL # TM2_SIGNAL
    BY DEF T2_SIGNAL, TM2_SIGNAL
  <2> QED
    BY <1>2, <1>3, <2>1, <2>2 DEF SignalIf
<1>4. CASE TickRunsTask \/ TickFindsNoSlot
  <2>1. TimerTick /\ cur' = cur /\ lateness' = base(T2Transgressed)
    BY <1>4 DEF TickRunsTask, TickFindsNoSlot, LatenessAfterT2
  <2>2. passed = 0
    BY <1>1, <2>1, SumOfFew
  <2> QED
    BY <1>1, <1>3, <2>1, <2>2
<1>5. CASE TickPreemptsTask
  <2>1. /\ TimerTick
        /\ planned' = PlannedAfterT2
        /\ lateness' = IF IsFreeSlot(tasks'[cur]) THEN base(T2Transgressed) - planned'[tasks'[0]]
                       ELSE base(T2Transgressed)
        /\ cur' = IF IsFreeSlot(tasks'[cur]) THEN cur + 1 ELSE cur
    BY <1>5 DEF TickPreemptsTask, TimerTick, enter_slot, LatenessAfterT2
  <2>2. CASE IsFreeSlot(tasks'[cur])
    <3>1. LateBy'[cur] \in Int /\ LateBy'[cur] = -planned'[tasks'[0]]
      BY <1>1, <2>2, NextLateBy DEF IsFreeSlot
    <3>2. passed = -planned'[tasks'[0]] /\ passed \in Int
      BY <1>1, <2>1, <2>2, <3>1, SumOfFew
    <3>3. planned'[tasks'[0]] \in Int
      BY <1>1a
    <3>4. base(T2Transgressed) \in Int
      BY <1>1
    <3> HIDE DEF passed, base
    <3>5. lateness' = base(T2Transgressed) + passed
      BY <2>1, <2>2, <3>2, <3>3, <3>4
    <3> QED
      BY <1>3, <2>1, <3>2, <3>5 DEF passed
  <2>3. CASE ~ IsFreeSlot(tasks'[cur])
    <3>1. passed = 0
      BY <1>1, <2>1, <2>3, SumOfFew
    <3> QED
      BY <1>1, <1>3, <2>1, <2>3, <3>1
  <2> QED
    BY <2>2, <2>3
<1>6. CASE TickFinishesTask
  <2>1. /\ SignalIf(Tm2Transgressed, TM2_SIGNAL)
        /\ planned' = PlannedAfterTm2
        /\ lateness' = IF IsFreeSlot(tasks[cur + 1])
                       THEN (base(Tm2Transgressed) + lateness_cur_task) - planned'[tasks[0]]
                       ELSE base(Tm2Transgressed) + lateness_cur_task
    BY <1>6 DEF TickFinishesTask, switch_task, enter_slot
  <2>2. /\ cur + 1 \in Indices
        /\ cur' = IF IsFreeSlot(tasks[cur + 1]) THEN cur + 2 ELSE cur + 1
        /\ tasks' = tasks
    BY <1>6, FinishMoves
  <2>3. LateBy'[cur] \in Int /\ LateBy'[cur] = lateness_cur_task
    <3>1. parsed'.pid[tasks'[cur]] # FREE_PID
      BY <1>1, <2>2 DEF IInv, CurTaskIsRunnable, IsFreeSlot, cur_task
    <3> QED
      BY <1>1, <2>1, <2>2, <3>1, NextLateBy DEF lateness_cur_task, cur_task
  <2>4. LateBy'[cur + 1] \in Int /\ (IsFreeSlot(tasks[cur + 1]) => LateBy'[cur + 1] = -planned'[tasks[0]])
    BY <1>1, <2>2, NextLateBy DEF IsFreeSlot
  <2>5. passed = IF IsFreeSlot(tasks[cur + 1]) THEN LateBy'[cur] + LateBy'[cur + 1] ELSE LateBy'[cur]
    BY <1>1, <2>2, <2>3, <2>4, SumOfFew
  <2>6. planned'[tasks[0]] \in Int /\ base(Tm2Transgressed) \in Int
    BY <1>1, <1>1a, <2>2
  <2>7. lateness' = base(Tm2Transgressed) + passed /\ passed \in Int
    <3> HIDE DEF passed, base
    <3>1. CASE IsFreeSlot(tasks[cur + 1])
      <4>1. lateness' = (base(Tm2Transgressed) + LateBy'[cur]) - planned'[tasks[0]]
        BY <2>1, <2>3, <3>1
      <4>2. LateBy'[cur + 1] = -planned'[tasks[0]] /\ passed = LateBy'[cur] + LateBy'[cur + 1]
        BY <2>4, <2>5, <3>1
      <4> DEFINE before == base(Tm2Transgressed)
                 task == LateBy'[cur]
                 first == planned'[tasks[0]]
      <4>3. before \in Int /\ task \in Int /\ first \in Int
        BY <2>3, <2>6
      <4>4. lateness' = (before + task) - first /\ passed = task + (-first)
        BY <4>1, <4>2
      <4> HIDE DEF before, task, first
      <4>5. lateness' = before + passed /\ passed \in Int
        BY <4>3, <4>4
      <4> QED
        BY <4>5 DEF before
    <3>2. CASE ~ IsFreeSlot(tasks[cur + 1])
      BY <2>1, <2>3, <2>5, <3>2
    <3> QED
      BY <3>1, <3>2
  <2>8. cur < cur'
    BY <1>1, <2>2
  <2>9. CASE Tm2Transgressed
    <3>1. signal(TM2_SIGNAL)
      BY <2>1, <2>9 DEF SignalIf
    <3> QED
      BY <1>2, <2>2, <2>7, <2>8, <2>9, <3>1
  <2>10. CASE ~ Tm2Transgressed
    BY <2>1, <2>7, <2>10 DEF SignalIf
  <2> QED
    BY <2>9, <2>10
<1> QED
  BY <1>4, <1>5, <1>6 DEF pbs_run_timer_tick

LEMMA IntervalSplit ==
  ASSUME NEW a \in Int, NEW b \in Int, NEW c \in Int, 0 <= a, a <= b, b <= c
  PROVE  /\ a .. c - 1 = (a .. b - 1) \cup (b .. c - 1)
         /\ (a .. b - 1) \cap (b .. c - 1) = {}
         /\ a .. b - 1 \subseteq 0 .. b - 1
         /\ a .. c - 1 \subseteq 0 .. c - 1
<1>1. a .. c - 1 = (a .. b - 1) \cup (b .. c - 1)
  OBVIOUS
<1>2. (a .. b - 1) \cap (b .. c - 1) = {}
  OBVIOUS
<1>3. a .. b - 1 \subseteq 0 .. b - 1 /\ a .. c - 1 \subseteq 0 .. c - 1
  OBVIOUS
<1> QED
  BY <1>1, <1>2, <1>3

(* The lateness is counted from start on.                                  *)
CountedFrom(start) ==
  /\ prediction_failures_caused = 0 => start = 0
  /\ prediction_failures_caused # 0 /\ get_pbs_signal(0).type_signal = TM2_SIGNAL
       => start < cur /\ tasks[start] = get_pbs_signal(0).task_id
  /\ lateness = SumFunctionOnSet(LateBy, start .. cur - 1)

(* The inductive invariant: the task of a tm2 signal is behind the cursor, *)
(* so that no preemption takes its place.                                  *)
LatenessInv == \E start \in 0 .. cur : CountedFrom(start)

LEMMA InitLatenessInv == Init => LatenessInv
<1> SUFFICES ASSUME Init PROVE LatenessInv
  OBVIOUS
<1>1. cur = 0 /\ lateness = 0 /\ prediction_failures_caused = 0
  BY DEF Init, parse_plan, SignalInit
<1>2. SumFunctionOnSet(LateBy, 0 .. cur - 1) = 0
  <2>1. 0 .. cur - 1 = {}
    BY <1>1
  <2> QED
    BY <2>1, SumEmpty
<1>3. CountedFrom(0) /\ 0 \in 0 .. cur
  BY <1>1, <1>2 DEF CountedFrom
<1> QED
  BY <1>3 DEF LatenessInv

(* What is behind the cursor keeps what it added to the lateness.          *)
LEMMA LatenessIsHistory ==
  ASSUME IInv, pbs_run_timer_tick
  PROVE  \A i \in 0 .. cur - 1 : LateBy'[i] = LateBy[i]
<1> SUFFICES ASSUME NEW i \in 0 .. cur - 1 PROVE LateBy'[i] = LateBy[i]
  OBVIOUS
<1>1. cur \in 0 .. NumTasks /\ NumTasks \in Nat /\ Indices = 0 .. NumTasks
  BY EntriesFinite DEF IInv, TypeOK
<1>2. i \in Indices /\ 0 \in 0 .. cur - 1
  BY <1>1
<1>3. parsed' = parsed /\ IInv' /\ [Next]_vars
  BY TickBooks, NextIInv DEF Next
<1>4. /\ tasks'[i] = tasks[i] /\ planned'[tasks[i]] = planned[tasks[i]]
      /\ tasks'[0] = tasks[0] /\ planned'[tasks[0]] = planned[tasks[0]]
  BY <1>2, <1>3, StepKeepsHistory
<1>5. LateBy[i] = LatenessOf(i)
  BY <1>2, LateByIsInt DEF LateByOK
<1> QED
  BY <1>2, <1>3, <1>4, <1>5, NextLateBy DEF LatenessOf, IsFreeSlot

LEMMA NextLatenessInv == IInv /\ SignalTypeOK /\ LatenessInv /\ [Next]_vars => LatenessInv'
<1> SUFFICES ASSUME IInv, SignalTypeOK, LatenessInv, [Next]_vars PROVE LatenessInv'
  OBVIOUS
<1>1. CASE UNCHANGED vars
  <2>1. UNCHANGED <<parsed, tasks, cur, planned, lateness>> /\ UNCHANGED signalVars
    BY <1>1 DEF vars, taskVars, nodeVars
  <2>2. LateBy' = LateBy /\ get_pbs_signal(0)' = get_pbs_signal(0)
    BY <2>1 DEF LateBy, LatenessOf, IsFreeSlot, get_pbs_signal, signalVars
  <2> QED
    BY <2>1, <2>2 DEF LatenessInv, CountedFrom, signalVars
<1>2. CASE pbs_run_timer_tick
  <2> DEFINE passed == SumFunctionOnSet(LateBy', cur .. cur' - 1)
  <2>1. /\ cur \in Int /\ cur' \in Int /\ cur <= cur' /\ cur >= 0
        /\ \A i \in 0 .. cur' - 1 : LateBy'[i] \in Int
    <3>1. IInv' /\ NumTasks \in Nat
      BY <1>2, NextIInv, EntriesFinite DEF Next
    <3>2. cur \in 0 .. NumTasks /\ cur' \in 0 .. NumTasks
      BY <3>1, EntriesFinite DEF IInv, TypeOK
    <3>3. cur' = cur \/ cur' = cur + 1 \/ cur' = cur + 2
      BY <1>2, FinishMoves, PreemptMoves, TickStays DEF pbs_run_timer_tick
    <3>4. \A i \in 0 .. cur' - 1 : i \in Indices
      <4>1. Indices = 0 .. NumTasks /\ NumTasks \in Nat
        BY EntriesFinite
      <4>2. \A m \in 0 .. NumTasks : \A i \in 0 .. m - 1 : i \in 0 .. NumTasks
        BY <4>1
      <4> QED
        BY <3>2, <4>1, <4>2
    <3>5. \A i \in 0 .. cur' - 1 : LateBy'[i] \in Int
      BY <3>1, <3>4, NextLateBy
    <3>6. cur \in Int /\ cur' \in Int /\ cur <= cur' /\ cur >= 0
      BY <3>1, <3>2, <3>3
    <3> QED
      BY <3>5, <3>6
  <2>1a. cur \in Int /\ cur' \in Int /\ cur <= cur' /\ cur >= 0
    BY <2>1
  <2>2. CASE /\ prediction_failures_caused' # 0
             /\ lateness' = passed
             /\ get_pbs_signal(0)'.type_signal = TM2_SIGNAL
                  => cur < cur' /\ tasks' = tasks /\ get_pbs_signal(0)'.task_id = cur_task
    <3>1. cur < cur' => cur \in 0 .. cur' /\ cur' \in 0 .. cur'
      BY <2>1
    <3>2. CASE get_pbs_signal(0)'.type_signal = TM2_SIGNAL
      <4>1. cur < cur' /\ tasks'[cur] = get_pbs_signal(0)'.task_id
        BY <2>2, <3>2 DEF cur_task
      <4> QED
        BY <2>2, <3>1, <4>1 DEF LatenessInv, CountedFrom
    <3>3. CASE get_pbs_signal(0)'.type_signal # TM2_SIGNAL
      BY <2>1, <2>2, <3>3 DEF LatenessInv, CountedFrom
    <3> QED
      BY <3>2, <3>3
  <2>3. CASE UNCHANGED signalVars /\ lateness' = lateness + passed
    <3>1. PICK start \in 0 .. cur : CountedFrom(start)
      BY DEF LatenessInv
    <3>2. start \in 0 .. cur'
      BY <2>1
    <3>3. UNCHANGED prediction_failures_caused /\ get_pbs_signal(0)' = get_pbs_signal(0)
      BY <2>3 DEF signalVars, get_pbs_signal
    <3>4. start < cur => start < cur' /\ tasks'[start] = tasks[start]
      <4>1. start < cur => start \in 0 .. cur - 1 /\ start < cur'
        BY <2>1
      <4> QED
        BY <4>1, <1>2, StepKeepsHistory DEF Next
    <3>5. lateness' = SumFunctionOnSet(LateBy', start .. cur' - 1)
      <4>0. start \in Int /\ 0 <= start /\ start <= cur /\ cur - 1 \in Int /\ cur' - 1 \in Int
        BY <2>1a
      <4>1. /\ start .. cur' - 1 = (start .. cur - 1) \cup (cur .. cur' - 1)
            /\ (start .. cur - 1) \cap (cur .. cur' - 1) = {}
            /\ start .. cur - 1 \subseteq 0 .. cur - 1
            /\ start .. cur' - 1 \subseteq 0 .. cur' - 1
        BY <2>1a, <4>0, IntervalSplit
      <4>2. IsFiniteSet(start .. cur - 1) /\ IsFiniteSet(cur .. cur' - 1)
        BY <2>1a, <4>0, FS_Interval
      <4>3. \A i \in (start .. cur - 1) \cup (cur .. cur' - 1) : LateBy'[i] \in Int
        BY <2>1, <4>1
      <4>4. SumFunctionOnSet(LateBy', start .. cur' - 1)
              = SumFunctionOnSet(LateBy', start .. cur - 1) + passed
        BY <4>1, <4>2, <4>3, SumUnion
      <4>5. \A i \in start .. cur - 1 : LateBy'[i] = LateBy[i]
        BY <1>2, <4>1, LatenessIsHistory
      <4>6. SumFunctionOnSet(LateBy', start .. cur - 1) = SumFunctionOnSet(LateBy, start .. cur - 1)
        BY <4>2, <4>5, SumEqual
      <4> QED
        BY <2>3, <3>1, <4>4, <4>6 DEF CountedFrom
    <3>6. CountedFrom(start)'
      BY <3>1, <3>3, <3>4, <3>5 DEF CountedFrom
    <3> QED
      BY <3>2, <3>6 DEF LatenessInv
  <2> QED
    BY <1>2, <2>2, <2>3, LatenessMoves
<1> QED
  BY <1>1, <1>2 DEF Next, TickAfterEnd

(* p->lateness is the lateness of the entries since the latest signal      *)
(* against the lengths they have now, for every plan: a finished task      *)
(* counts against what signal_tm2 left of it, and the task that raised a   *)
(* tm2 is the first to count again.                                        *)
THEOREM LatenessCorrect == Spec => []LatenessAccounting
<1>1. LatenessInv => LatenessAccounting
  BY DEF LatenessInv, CountedFrom, LatenessAccounting, LateBy
<1>2. IInv /\ SignalInv => IInv /\ SignalTypeOK
  BY DEF SignalInv
<1> QED
  BY <1>1, <1>2, InitLatenessInv, NextLatenessInv, SpecSignalInv, PTL DEF Spec

-----------------------------------------------------------------------------
(* The ticks.                                                              *)

Limit == [e \in Entries |-> IF IsTask(e) THEN parsed.real[e] + INS_PER_TICK ELSE 0]
Retired == SumFunctionOnSet(retired_task, Entries)

(* The inductive invariant: only the tick that finishes a task may take it *)
(* beyond its real length, since a tick that does not compares the task    *)
(* with it first.                                                          *)
TicksInv ==
  /\ \A e \in Entries : retired_task[e] <= Limit[e]
  /\ \A e \in Rest : retired_task[e] <= parsed.real[e]
  /\ tick_counter * INS_PER_TICK <= Retired
  /\ plan_state = ON_PLAN => tick_counter * INS_PER_TICK = Retired

LEMMA RetiredTypes ==
  ASSUME IInv
  PROVE  /\ \A e \in Entries : retired_task[e] \in Nat /\ parsed.real[e] \in Nat
         /\ \A e \in Entries : Limit[e] \in Nat
         /\ \A e \in Entries : Limit[e] = IF IsTask(e) THEN parsed.real[e] + INS_PER_TICK ELSE 0
         /\ Retired \in Int
         /\ tick_counter \in Nat
         /\ INS_PER_TICK \in Nat
<1>1. \A e \in Entries : retired_task[e] \in Nat /\ parsed.real[e] \in Nat
  BY EntriesFinite DEF IInv, TypeOK
<1>2. INS_PER_TICK \in Nat
  BY ConfigAssumption
<1>3. \A e \in Entries : Limit[e] = IF IsTask(e) THEN parsed.real[e] + INS_PER_TICK ELSE 0
  BY DEF Limit
<1>4. \A e \in Entries : Limit[e] \in Nat
  BY <1>1, <1>2, <1>3
<1>5. Retired \in Int
  <2>1. \A e \in Entries : retired_task[e] \in Int
    BY <1>1
  <2> QED
    BY <2>1, EntriesFinite, SumType DEF Retired
<1> QED
  BY <1>1, <1>2, <1>3, <1>4, <1>5 DEF IInv, TypeOK

(* Every tick retires at least the instructions of a tick, and exactly     *)
(* those while the plan runs; the task it takes beyond its real length is  *)
(* finished by it.                                                         *)
LEMMA TickRetires ==
  ASSUME IInv, pbs_run_timer_tick
  PROVE  /\ cur_task \in Rest
         /\ parsed' = parsed
         /\ tick_counter' = tick_counter + 1
         /\ \A e \in Entries : ~ IsFreeSlot(e) /\ e \in Rest' => e \in Rest
         /\ \E ins \in Nat :
              /\ ins >= INS_PER_TICK
              /\ retired_task' = [retired_task EXCEPT ![cur_task] = @ + ins]
              /\ plan_state' = ON_PLAN => plan_state = ON_PLAN /\ ins = INS_PER_TICK
              /\ \/ cur_task \notin Rest' /\ ins = INS_PER_TICK
                 \/ retired_task[cur_task] + ins <= parsed.real[cur_task]
<1>1. /\ cur_task # END
      /\ parsed' = parsed
      /\ tick_counter' = tick_counter + 1
  BY DEF pbs_run_timer_tick, TickFinishesTask, TickRunsTask, TickPreemptsTask, TickFindsNoSlot,
         TimerTick
<1>2. cur_task \in Rest /\ cur_task \in Entries
  <2>1. cur \in 0 .. NumTasks - 1 /\ cur >= cur
    BY <1>1, TaskRuns, EntriesFinite
  <2>2. tasks[cur] \in Entries /\ tasks[cur] \in Rest
    BY <2>1, DoneAndRest DEF ListIsSplit
  <2> QED
    BY <2>2 DEF cur_task
<1>3. /\ retired_task[cur_task] \in Nat
      /\ parsed.real[cur_task] \in Nat
      /\ INS_PER_TICK \in Nat
      /\ INS_PER_TICK >= INS_PER_TICK
  BY <1>2, RetiredTypes
<1>4. TimerTick => retired_task[cur_task] + INS_PER_TICK <= parsed.real[cur_task]
  BY <1>3 DEF TimerTick, FinishesInTick
<1>5. CASE TickFinishesTask
  <2>1. /\ retired_task' = [retired_task EXCEPT ![cur_task] = @ + INS_PER_TICK]
        /\ plan_state' = plan_state
    BY <1>5 DEF TickFinishesTask
  <2>2. ~ IsFreeSlot(cur_task)
    BY DEF IInv, CurTaskIsRunnable
  <2>3. /\ cur_task \notin Rest'
        /\ \A e \in Entries : ~ IsFreeSlot(e) /\ e \in Rest' => e \in Rest
    BY <1>2, <1>5, <2>2, FinishDone
  <2> QED
    BY <1>1, <1>2, <1>3, <2>1, <2>3
<1>6. CASE TickRunsTask
  <2>1. /\ retired_task' = [retired_task EXCEPT ![cur_task] = @ + INS_PER_TICK]
        /\ plan_state' = plan_state
        /\ TimerTick
    BY <1>6 DEF TickRunsTask, Retire
  <2>2. \A e \in Entries : e \in Rest' => e \in Rest
    BY <1>6, TickStays DEF Rest
  <2> QED
    BY <1>1, <1>2, <1>3, <1>4, <2>1, <2>2
<1>7. CASE TickPreemptsTask
  <2>1. /\ retired_task' = [retired_task EXCEPT ![cur_task] = @ + INS_PER_TICK]
        /\ plan_state' = plan_state
        /\ TimerTick
    BY <1>7 DEF TickPreemptsTask, Retire
  <2>2. \A e \in Entries : ~ IsFreeSlot(e) /\ e \in Rest' => e \in Rest
    BY <1>7, PreemptDone
  <2> QED
    BY <1>1, <1>2, <1>3, <1>4, <2>1, <2>2
<1>8. CASE TickFindsNoSlot
  <2> DEFINE missing == parsed.real[cur_task] - retired_task[cur_task]
  <2>1. /\ retired_task' = [retired_task EXCEPT ![cur_task] = @ + missing]
        /\ plan_state' = PLAN_FINISHED
        /\ TimerTick
    BY <1>8 DEF TickFindsNoSlot, Retire
  <2>2. \A e \in Entries : e \in Rest' => e \in Rest
    BY <1>8, TickStays DEF Rest
  <2>3. /\ missing \in Nat
        /\ missing >= INS_PER_TICK
        /\ retired_task[cur_task] + missing <= parsed.real[cur_task]
    BY <1>3, <1>4, <2>1
  <2>4. plan_state' # ON_PLAN
    BY <2>1 DEF PLAN_FINISHED, ON_PLAN
  <2> HIDE DEF missing
  <2> QED
    BY <1>1, <1>2, <2>1, <2>2, <2>3, <2>4
<1> QED
  BY <1>5, <1>6, <1>7, <1>8 DEF pbs_run_timer_tick

LEMMA InitTicksInv == PlanIsLoaded => TicksInv
<1> SUFFICES ASSUME PlanIsLoaded PROVE TicksInv
  OBVIOUS
<1>1. PICK plan \in Plans : parse_plan(plan)
  BY DEF PlanIsLoaded
<1>2. /\ tick_counter = 0
      /\ retired_task = [e \in Indices |-> 0]
  BY <1>1 DEF parse_plan
<1>3. IInv
  BY InitIInv
<1>4. \A e \in Entries : retired_task[e] = 0 /\ 0 <= Limit[e] /\ 0 <= parsed.real[e]
  BY <1>2, <1>3, EntriesFinite, RetiredTypes
<1>5. Retired = 0
  BY <1>4, EntriesFinite, SumZero DEF Retired
<1>6. tick_counter * INS_PER_TICK = 0
  BY <1>2, ConfigAssumption
<1> QED
  BY <1>4, <1>5, <1>6 DEF TicksInv, Rest

LEMMA TickKeepsTicksInv ==
  ASSUME IInv, TicksInv, pbs_run_timer_tick
  PROVE  TicksInv'
<1>1. /\ cur_task \in Rest
      /\ cur_task \in Entries
      /\ parsed' = parsed
      /\ tick_counter' = tick_counter + 1
      /\ \A e \in Entries : ~ IsFreeSlot(e) /\ e \in Rest' => e \in Rest
  BY TickRetires DEF Rest
<1>2. PICK ins \in Nat :
        /\ ins >= INS_PER_TICK
        /\ retired_task' = [retired_task EXCEPT ![cur_task] = @ + ins]
        /\ plan_state' = ON_PLAN => plan_state = ON_PLAN /\ ins = INS_PER_TICK
        /\ \/ cur_task \notin Rest' /\ ins = INS_PER_TICK
           \/ retired_task[cur_task] + ins <= parsed.real[cur_task]
  BY TickRetires
<1>3. /\ \A e \in Entries : retired_task[e] \in Nat /\ parsed.real[e] \in Nat
      /\ \A e \in Entries : Limit[e] \in Nat
      /\ \A e \in Entries : Limit[e] = IF IsTask(e) THEN parsed.real[e] + INS_PER_TICK ELSE 0
      /\ Retired \in Int
      /\ tick_counter \in Nat
      /\ INS_PER_TICK \in Nat
  BY RetiredTypes
<1>4. /\ retired_task'[cur_task] = retired_task[cur_task] + ins
      /\ \A e \in Entries : e # cur_task => retired_task'[e] = retired_task[e]
  <2>1. retired_task \in [Indices -> Nat] /\ Entries \subseteq Indices
    BY EntriesFinite DEF IInv, TypeOK
  <2> QED
    BY <1>1, <1>2, <2>1
<1>5. IsTask(cur_task)
  <2>1. cur_task # END
    BY <1>1, EntriesFinite DEF END
  <2> QED
    BY <2>1, TaskRuns DEF IsTask
<1>6. Limit' = Limit
  BY <1>1 DEF Limit, IsTask
<1>7. retired_task[cur_task] <= parsed.real[cur_task]
  BY <1>1 DEF TicksInv
<1>8. retired_task'[cur_task] <= Limit[cur_task]
  <2>1. Limit[cur_task] = parsed.real[cur_task] + INS_PER_TICK
    BY <1>1, <1>3, <1>5
  <2>2. retired_task[cur_task] \in Nat /\ parsed.real[cur_task] \in Nat
    BY <1>1, <1>3
  <2>3. retired_task[cur_task] + ins <= parsed.real[cur_task] + INS_PER_TICK
    BY <1>2, <1>3, <1>7, <2>2
  <2> QED
    BY <1>4, <2>1, <2>3
<1>9. \A e \in Entries : retired_task'[e] <= Limit'[e]
  BY <1>4, <1>6, <1>8 DEF TicksInv
<1>10. \A e \in Rest' : retired_task'[e] <= parsed'.real[e]
  <2> SUFFICES ASSUME NEW e \in Rest' PROVE retired_task'[e] <= parsed.real[e]
    BY <1>1
  <2>1. e \in Entries
    BY DEF Rest
  <2>2. CASE e = cur_task
    BY <1>2, <1>4, <2>2
  <2>3. CASE e # cur_task /\ IsFreeSlot(e)
    <3>1. Limit[e] = 0
      BY <1>3, <2>1, <2>3 DEF IsTask, IsFreeSlot, FREE_PID, Processes
    <3>2. retired_task[e] <= 0 /\ retired_task[e] \in Nat /\ parsed.real[e] \in Nat
      BY <1>3, <2>1, <3>1 DEF TicksInv
    <3>3. retired_task[e] <= parsed.real[e]
      BY <3>2
    <3> QED
      BY <1>4, <2>1, <2>3, <3>3
  <2>4. CASE e # cur_task /\ ~ IsFreeSlot(e)
    BY <1>1, <1>4, <2>1, <2>4 DEF TicksInv
  <2> QED
    BY <2>2, <2>3, <2>4
<1>11. Retired' = Retired + ins
  <2>1. \A e \in Entries : retired_task[e] \in Int /\ retired_task'[e] \in Int
    <3>1. retired_task'[cur_task] \in Int
      BY <1>1, <1>3, <1>4
    <3> QED
      BY <1>3, <1>4, <3>1
  <2>2. \A e \in Entries \ {cur_task} : retired_task[e] = retired_task'[e]
    BY <1>4
  <2>3. SumFunctionOnSet(retired_task', Entries)
          = SumFunctionOnSet(retired_task, Entries)
            + (retired_task'[cur_task] - retired_task[cur_task])
    BY <1>1, <2>1, <2>2, EntriesFinite, SumUpdate
  <2>4. retired_task'[cur_task] - retired_task[cur_task] = ins
    <3>1. retired_task[cur_task] \in Nat
      BY <1>1, <1>3
    <3> QED
      BY <1>4, <3>1
  <2> QED
    BY <2>3, <2>4 DEF Retired
<1>12. tick_counter' * INS_PER_TICK = tick_counter * INS_PER_TICK + INS_PER_TICK
  BY <1>1, <1>3
<1>13. tick_counter * INS_PER_TICK \in Int
  BY <1>3
<1>14. tick_counter' * INS_PER_TICK <= Retired'
  <2>1. tick_counter * INS_PER_TICK <= Retired
    BY DEF TicksInv
  <2> DEFINE t == tick_counter * INS_PER_TICK
  <2> HIDE DEF t
  <2>2. t \in Int /\ t <= Retired /\ ins >= INS_PER_TICK
    BY <1>2, <1>13, <2>1 DEF t
  <2>3. t + INS_PER_TICK <= Retired + ins
    BY <1>3, <2>2
  <2> QED
    BY <1>11, <1>12, <2>3 DEF t
<1>15. plan_state' = ON_PLAN => tick_counter' * INS_PER_TICK = Retired'
  BY <1>2, <1>11, <1>12 DEF TicksInv
<1> QED
  BY <1>9, <1>10, <1>14, <1>15 DEF TicksInv

LEMMA NextTicksInv == IInv /\ TicksInv /\ [Next]_vars => TicksInv'
<1>1. ASSUME UNCHANGED vars, TicksInv PROVE TicksInv'
  <2>1. UNCHANGED <<parsed, tasks, cur, retired_task, tick_counter, plan_state>>
    BY <1>1 DEF vars, taskVars, nodeVars
  <2> QED
    BY <1>1, <2>1 DEF TicksInv, Limit, Retired, Rest, IsTask
<1> QED
  BY <1>1, TickKeepsTicksInv DEF Next, TickAfterEnd

LEMMA TicksFollow == IInv /\ TicksInv => TicksBounded
<1> SUFFICES ASSUME IInv, TicksInv PROVE TicksBounded
  OBVIOUS
<1>1. Retired <= SumFunctionOnSet(Limit, Entries)
  <2>1. \A e \in Entries : /\ retired_task[e] \in Int /\ Limit[e] \in Int
                           /\ retired_task[e] <= Limit[e]
    BY RetiredTypes DEF TicksInv
  <2> QED
    BY <2>1, EntriesFinite, SumMonotone DEF Retired
<1> QED
  BY <1>1 DEF TicksBounded, TicksInv, Retired, Limit

(* No tick is lost, whatever is preempted, rescheduled or signalled: the   *)
(* tasks retire the instructions of every tick, and none of them takes     *)
(* more than a tick beyond its real length, so that any plan is limited in *)
(* the ticks it can take.                                                  *)
THEOREM TicksCorrect == Spec => []TicksBounded
BY TicksFollow, InitLoads, InitTicksInv, NextTicksInv, SpecIInv, PTL DEF Spec

-----------------------------------------------------------------------------
(* The end of the plan.                                                    *)

(* What the scheduler leaves behind when it comes to rest.                 *)
EndIsComplete ==
  cur_task = END =>
    /\ execution_finished = DOMAIN execution_process
    /\ \A e \in AllTasks : /\ state[e] = PLAN_TASK_FINISHED
                           /\ retired_task[e] >= parsed.real[e]
    /\ instructions_retired = SumFunctionOnSet(parsed.real, AllTasks)
    /\ \A q \in Processes :
         process_retired[q] = SumFunctionOnSet(parsed.real, TasksOf(q))

(* What is behind the cursor is all there is.                              *)
LEMMA EndFollows == IInv /\ FinishedInv /\ InstructionAccounting => EndIsComplete
<1> SUFFICES ASSUME IInv, FinishedInv, InstructionAccounting, cur_task = END
             PROVE  /\ execution_finished = DOMAIN execution_process
                    /\ \A e \in AllTasks : /\ state[e] = PLAN_TASK_FINISHED
                                           /\ retired_task[e] >= parsed.real[e]
                    /\ instructions_retired = SumFunctionOnSet(parsed.real, AllTasks)
                    /\ \A q \in Processes :
                         process_retired[q] = SumFunctionOnSet(parsed.real, TasksOf(q))
  BY DEF EndIsComplete
<1>1. cur = NumTasks
  <2>1. cur \in Indices /\ NumTasks \in Indices /\ tasks[cur] = tasks[NumTasks]
    BY EntriesFinite DEF IInv, TypeOK, PlanIsPermutation, cur_task
  <2> QED
    BY <2>1 DEF IInv, PlanIsPermutation
<1>2. Rest = {}
  BY <1>1, EntriesFinite DEF Rest
<1>3. Done = Entries
  BY <1>2, DoneAndRest DEF ListIsSplit, Done
<1>4. execution_finished = DOMAIN execution_process
  BY <1>3 DEF execution_finished, execution_process, Done
<1>5. ASSUME NEW e \in AllTasks
      PROVE  state[e] = PLAN_TASK_FINISHED /\ retired_task[e] >= parsed.real[e]
  <2>1. e \in Done /\ IsTask(e)
    BY <1>3, <1>5 DEF AllTasks
  <2>2. PICK i \in 0 .. cur - 1 : tasks[i] = e
    BY <2>1 DEF Done
  <2> QED
    BY <2>1, <2>2, FinishedInvParts
<1>6. \A M \in SUBSET Entries : Booked(M) = SumFunctionOnSet(parsed.real, M)
  <2> SUFFICES ASSUME NEW M \in SUBSET Entries
               PROVE  Booked(M) = SumFunctionOnSet(parsed.real, M)
    OBVIOUS
  <2>1. M \cap Done = M /\ M \cap Rest = {}
    BY <1>2, <1>3
  <2>2. Booked(M) = SumFunctionOnSet(parsed.real, M) + 0
    BY <2>1, SumEmpty DEF Booked
  <2>3. SumFunctionOnSet(parsed.real, M) \in Int
    BY <2>1, CountsAreInt, SumType
  <2> QED
    BY <2>2, <2>3
<1>7. AllTasks \in SUBSET Entries /\ \A q \in Processes : TasksOf(q) \in SUBSET Entries
  BY DEF AllTasks, TasksOf
<1> QED
  BY <1>4, <1>5, <1>6, <1>7, AccountingParts

(* The scheduler rests at the sentinel only when every task of the plan    *)
(* has run for its whole length, and then the totals of plan and processes *)
(* are the real lengths: whatever was booked on slots of other tasks on    *)
(* the way has been balanced.                                              *)
THEOREM EndCorrect == Spec => []EndIsComplete
BY EndFollows, SpecIInv, SpecFinishedInv, AccountingCorrect, PTL
=============================================================================
