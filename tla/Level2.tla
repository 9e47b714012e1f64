-------------------------------- MODULE Level2 --------------------------------
(***************************************************************************)
(* The level2 program: main.c and defense.c drive the parser and the       *)
(* scheduler through one plan after the other, while the signal buffer,    *)
(* which is global, goes on from plan to plan.  A step is a statement that *)
(* changes the plan: an assignment, a call of the code under test, or one  *)
(* turn of a loop.  The assertions of the tests are invariants.            *)
(*                                                                         *)
(* The plans have different lengths, so the scheduler is instantiated with *)
(* the size of the plan at hand.  As in PBScheduler an entry is named by   *)
(* its index in the plan as it was created.                                *)
(***************************************************************************)
EXTENDS PlanParser, Thresholds, Preemption, SignalBuffer, Functions

CONSTANTS
  Files,                \* what may be found at PLAN_PATH
  SETUP_LENGTH,         \* instructions_planned of setup_plan
  BALANCED_LATENESS,    \* the lateness set in test_lateness_balancer
  TEST_MARGIN,          \* the deviation of tasks in test_run
  TEST_TM2_OFFSET,      \* subtracted in check_run_task_tm2_early_time
  DEMO_TASKS,           \* number of tasks in show_t2_node_signal
  DEMO_TICK,            \* the tick it waits for
  TICKS_AFTER_END       \* number of ticks after the end in full_run

(* What a plan file may say: the process of a task is one of the file's,   *)
(* or that of a free slot, and the tables have room for everything and for *)
(* the ends behind it (parse_plan does not check it).                      *)
ASSUME FilesAssumption ==
  \A f \in Files :
    /\ f.buffers \in Seq(Int)
    /\ Len(f.buffers) < MAX_NUMBER_PROCESSES
    /\ f.tasks \in Seq([process_id : -1 .. Len(f.buffers) - 1, planned : Int, real : Int])
    /\ Len(f.tasks) < MAX_NUMBER_TASKS_IN_PLAN

VARIABLES
  at,       \* the next statement: <<function, number>>, number 0 is its end
  file,     \* contents of PLAN_PATH when it was last read
  locals,   \* local variables of the test
  outcome,  \* of handle_unallocated_slot
  signals_before,  \* history: signals raised before this plan was created
  size,     \* <<index of the sentinel, p->num_processes>>
  parsed, tasks, cur, cur_process, planned, retired_task, retired_slot,
  was_preempted, state, slot_owner, process_lateness, process_retired, lateness,
  instructions_retired, plan_state, stress, tasks_finished, tick_counter

planVars == <<size, parsed, tasks, cur, cur_process, planned, retired_task, retired_slot,
              was_preempted, state, slot_owner, process_lateness, process_retired,
              lateness, instructions_retired, plan_state, stress, tasks_finished,
              tick_counter>>
driverVars == <<file, locals, outcome, signals_before>>
vars == <<at, planVars, signalVars, parserVars, driverVars>>

S(n, q) == INSTANCE PBScheduler WITH NumTasks <- n, NumProcesses <- q, Plans <- {}
U(n, q) == INSTANCE UnallocatedSlot WITH
             NumTasks <- n, NumProcesses <- q, Situations <- {},
             pid <- parsed.pid, lateness <- process_lateness

INS_PER_SEC == PBS_HZ * INS_PER_TICK
PREEMPTION_LIMIT == T1_MAX_TICKS_OFF * INS_PER_TICK
ProcessTable == 0 .. MAX_NUMBER_PROCESSES - 1
NoFile == [buffers |-> <<>>, tasks |-> <<>>]
NoLocals == [address |-> 0, id |-> 0, process |-> 0, owner |-> 0, ticks |-> 0, due |-> 0]

cur_task == tasks[cur]
IsEnd(e) == parsed.pid[e] = -2

(* Task ids number the tasks of a plan; free slots and the end have their  *)
(* own.                                                                    *)
TaskId(e) == IF parsed.pid[e] < 0 THEN parsed.pid[e]
             ELSE Cardinality({f \in 0 .. e - 1 : parsed.pid[f] # -1})

-----------------------------------------------------------------------------
(* Control *)

main == <<"test_find_slot_to_move_to", "test_find_suitable_task", "test_preempt_cur_task",
          "test_find_next_task_for_all_processes", "test_replace_unallocated_slot_in_plan",
          "test_handle_unallocated", "test_task_state_changes_when_finished",
          "test_reschedule", "test_task_vs_slot_instructions", "test_lateness_balancer",
          "test_get_stack_size_of_preempted_tasks", "test_run", "show_t1_preemption",
          "show_t2_node_signal", "show_tm2_task_signal", "full_run">>

Goto(f, k, next) == at = <<f, k>> /\ at' = <<f, next>>
Step(f, k) == Goto(f, k, k + 1)

Return ==
  \E i \in DOMAIN main :
    /\ at = <<main[i], 0>>
    /\ at' = IF i = Len(main) THEN <<"main", 0>> ELSE <<main[i + 1], 1>>
    /\ UNCHANGED <<planVars, signalVars, parserVars, driverVars>>

-----------------------------------------------------------------------------
(* Creating a plan *)

create_task(task_id, process_id, instructions_planned, instructions_real) ==
  [slot_owner |-> task_id, process_id |-> process_id, was_preempted |-> 0,
   instructions_planned |-> instructions_planned, instructions_real |-> instructions_real]

(* A process at the index of its process_id.                               *)
create_process(buffer, length_plan) ==
  [buffer |-> buffer, length_plan |-> length_plan, lateness |-> 0]

ZeroProcesses == [r \in ProcessTable |-> create_process(0, 0)]
SetupProcesses == [r \in ProcessTable |-> create_process(INS_PER_SEC, INS_PER_SEC)]

(* One field of the tasks of a list and of the sentinel behind them.       *)
Field(list, name, last) ==
  [e \in 0 .. Len(list) |-> IF e = Len(list) THEN last ELSE list[e + 1][name]]

NothingRun(list) == [e \in 0 .. Len(list) |-> 0]

(* p->tasks holds the list and a sentinel, and nothing of it has run.      *)
TasksAre(list, length_of_end) ==
  /\ planned' = Field(list, "instructions_planned", length_of_end)
  /\ slot_owner' = Field(list, "slot_owner", Len(list))
  /\ was_preempted' = Field(list, "was_preempted", 0)
  /\ tasks' = [i \in 0 .. Len(list) |-> i]
  /\ retired_task' = NothingRun(list)
  /\ retired_slot' = NothingRun(list)
  /\ state' = NothingRun(list)

(* struct PBS_Plan p = {0} with the tasks, the processes and the lateness  *)
(* a test assigns; the variables of the last test are gone.                *)
NewPlan(list, q, table, total, late) ==
  /\ size' = <<Len(list), q>>
  /\ parsed' = [pid |-> Field(list, "process_id", -2),
                real |-> Field(list, "instructions_real", 0),
                buffer |-> [r \in ProcessTable |-> table[r].buffer],
                length_plan |-> [r \in ProcessTable |-> table[r].length_plan],
                instructions_planned |-> total]
  /\ TasksAre(list, 0)
  /\ cur' = 0
  /\ cur_process' = 0
  /\ process_lateness' = [r \in ProcessTable |-> table[r].lateness]
  /\ process_retired' = [r \in ProcessTable |-> 0]
  /\ lateness' = late
  /\ instructions_retired' = 0
  /\ plan_state' = 0
  /\ stress' = 0
  /\ tasks_finished' = 0
  /\ tick_counter' = 0
  /\ NewStruct
  /\ file' = NoFile
  /\ locals' = NoLocals
  /\ outcome' = "not called"
  /\ signals_before' = prediction_failures_caused
  /\ UNCHANGED signalVars

(* What a plan that is parsed finds in the struct: zeros, or the processes *)
(* and tasks of setup_plan.                                                *)
ZeroTables ==
  /\ processes' = [r \in ProcessTable |-> NoProcess]
  /\ task_list' = [i \in 0 .. MAX_NUMBER_TASKS_IN_PLAN - 1 |-> NoTask]

SetupTables ==
  /\ processes' = [r \in ProcessTable |-> [process_id |-> r, buffer |-> INS_PER_SEC,
                                           length_plan |-> INS_PER_SEC]]
  /\ task_list' = [i \in 0 .. MAX_NUMBER_TASKS_IN_PLAN - 1 |->
                     [task_id |-> IF i = MAX_NUMBER_TASKS_IN_PLAN - 1 THEN -2 ELSE i % 3,
                      process_id |-> i, instructions_planned |-> i, instructions_real |-> i]]

ZeroPlan(list, table) == NewPlan(list, MAX_NUMBER_PROCESSES, table, 0, 0) /\ ZeroTables

(* setup_plan, whose tasks the test overwrites, up to a sentinel.          *)
setup_plan(list, q, table, total, late) == NewPlan(list, q, table, total, late) /\ SetupTables

TestPlan(list) == setup_plan(list, MAX_NUMBER_PROCESSES, SetupProcesses, SETUP_LENGTH, 0)

(* Other tasks in the plan of the same test.                               *)
OverwriteTasks(list) ==
  /\ parsed' = [parsed EXCEPT !.pid = Field(list, "process_id", -2),
                              !.real = Field(list, "instructions_real", 0)]
  /\ TasksAre(list, 0)
  /\ UNCHANGED <<size, cur, cur_process, process_lateness, process_retired, lateness,
                 instructions_retired, plan_state, stress, tasks_finished, tick_counter,
                 signalVars, parserVars, driverVars>>

-----------------------------------------------------------------------------
(* Calls of the code under test *)

Tick ==
  /\ \E n \in {size[1]}, q \in {size[2]} : S(n, q)!Next
  /\ UNCHANGED <<size, parserVars, driverVars>>

(* while (condition) pbs_run_timer_tick(p), then the statement next.       *)
TickWhile(f, k, condition, next) ==
  \/ condition /\ Goto(f, k, k) /\ Tick
  \/ ~ condition /\ Goto(f, k, next) /\ UNCHANGED <<planVars, signalVars, parserVars, driverVars>>

(* preempt_cur_task between two ticks; the task that comes next is no free *)
(* slot.                                                                   *)
Preempt ==
  \E n \in {size[1]}, q \in {size[2]} :
    /\ S(n, q)!preempt_cur_task
    /\ cur_process' = S(n, q)!ProcessOf(tasks'[cur])
    /\ state' = [state EXCEPT ![tasks'[cur]] = S(n, q)!PLAN_TASK_RUNNING]
    /\ UNCHANGED <<size, parsed, cur, planned, retired_task, retired_slot, process_lateness,
                   process_retired, lateness, instructions_retired, plan_state, stress,
                   tasks_finished, tick_counter, signalVars, parserVars, driverVars>>

Reschedule(factor, target_pid) ==
  \E n \in {size[1]}, q \in {size[2]} :
    /\ planned' = S(n, q)!reschedule(factor, target_pid)
    /\ lateness' = 0
    /\ process_lateness' = [process_lateness EXCEPT ![cur_process] = 0]
    /\ UNCHANGED <<size, parsed, tasks, cur, cur_process, retired_task, retired_slot,
                   was_preempted, state, slot_owner, process_retired, instructions_retired,
                   plan_state, stress, tasks_finished, tick_counter, signalVars,
                   parserVars, driverVars>>

HandleUnallocatedSlot ==
  /\ UNCHANGED <<size, parsed, cur, cur_process, planned, retired_task, retired_slot, state,
                 process_lateness, process_retired, lateness, instructions_retired,
                 plan_state, stress, tasks_finished, tick_counter, signalVars, parserVars,
                 file, locals, signals_before>>
  /\ \E n \in {size[1]}, q \in {size[2]} : U(n, q)!handle_unallocated_slot

-----------------------------------------------------------------------------
(* Reading a plan *)

number(v) == [symbol |-> NUMBER, value |-> v]
mark(m)   == [symbol |-> m, value |-> 0]

(* What a plan file says of the process r and of the i-th task, counted    *)
(* from 1.                                                                 *)
ProcessText(f, r) == <<number(r - 1), mark(COMMA), number(f.buffers[r]), mark(SEMI)>>

FileTaskId(f, i) ==
  IF f.tasks[i].process_id = -1 THEN -1
  ELSE Cardinality({j \in 1 .. i - 1 : f.tasks[j].process_id # -1})

TaskText(f, i) ==
  <<number(f.tasks[i].process_id), mark(COMMA), number(FileTaskId(f, i)), mark(COMMA),
    number(f.tasks[i].planned), mark(COMMA), number(f.tasks[i].real), mark(SEMI)>>

(* A plan file: the numbers of processes and their buffers, the tasks, and *)
(* a line end, separated as in test/plan.log.                              *)
Written(f) ==
  LET q == Len(f.buffers)
      n == Len(f.tasks)
  IN  [k \in 1 .. 4 * q + 8 * n + 5 |->
         IF k = 1 THEN number(q)
         ELSE IF k \in 3 .. 4 * q + 2
           THEN ProcessText(f, (k + 1) \div 4)[((k + 1) % 4) + 1]
         ELSE IF k \in 4 * q + 5 .. 4 * q + 8 * n + 4
           THEN TaskText(f, (k - 4 * q + 3) \div 8)[((k - 4 * q + 3) % 8) + 1]
         ELSE mark(IF k = 4 * q + 8 * n + 5 THEN NEWLINE ELSE SEMI)]

(* read_plan: the text is read into a string of its length.                *)
ReadPlan ==
  \E f \in Files :
    /\ file' = f
    /\ StartParsing(Written(f))
    /\ UNCHANGED <<planVars, signalVars, locals, outcome, signals_before>>

(* The end of parse_plan: cursor, counters and the planned total are set;  *)
(* state, lateness, stress and instructions_retired are left as they are.  *)
ParsePlanEnd ==
  /\ section = "all"
  /\ size' = <<num_tasks, num_processes>>
  /\ LET list == [i \in 1 .. num_tasks |->
                    create_task(i - 1, task_list[i - 1].process_id,
                                task_list[i - 1].instructions_planned,
                                task_list[i - 1].instructions_real)]
         read == 0 .. num_processes - 1
     IN  /\ parsed' = [pid |-> Field(list, "process_id", task_list[num_tasks].process_id),
                       real |-> Field(list, "instructions_real",
                                      task_list[num_tasks].instructions_real),
                       buffer |-> [r \in read |-> processes[r].buffer],
                       length_plan |-> [r \in read |-> processes[r].length_plan],
                       instructions_planned |->
                         SumFunctionOnSet(Field(list, "instructions_planned", 0),
                                          0 .. num_tasks - 1)]
         /\ TasksAre(list, task_list[num_tasks].instructions_planned)
         /\ process_lateness' = [r \in ProcessTable |->
                                   IF r \in read THEN 0 ELSE process_lateness[r]]
         /\ process_retired' = [r \in ProcessTable |->
                                  IF r \in read THEN 0 ELSE process_retired[r]]
  /\ cur' = 0
  /\ cur_process' = task_list[0].process_id
  /\ tasks_finished' = 0
  /\ tick_counter' = 0
  /\ UNCHANGED <<lateness, instructions_retired, plan_state, stress, signalVars,
                 parserVars, driverVars>>

(* test_plan_parsing, the statements k, k + 1 and k + 2 of f.              *)
test_plan_parsing(f, k) ==
  \/ Step(f, k) /\ ReadPlan
  \/ Goto(f, k + 1, k + 1) /\ ParseStep /\ UNCHANGED <<planVars, signalVars, driverVars>>
  \/ Step(f, k + 1) /\ ParsePlanEnd

-----------------------------------------------------------------------------
(* The unit tests of main.c.  Those of functions that only look something  *)
(* up set up a plan; what the function returns is in the assertions below. *)

test_find_slot_to_move_to ==
  /\ Goto("test_find_slot_to_move_to", 1, 0)
  /\ TestPlan([i \in 1 .. 6 |-> create_task((i - 1) % 3, <<0, 1, 2, 3, 0, 5>>[i], i - 1, i - 1)])

test_find_suitable_task ==
  /\ Goto("test_find_suitable_task", 1, 0)
  /\ ZeroPlan(<<[create_task(0, 0, 1000, 2000) EXCEPT !.was_preempted = 1],
                [create_task(1, 1, 1000, 2000) EXCEPT !.was_preempted = 2],
                create_task(2, 2, 200, 200)>>,
              [ZeroProcesses EXCEPT ![0].lateness = -100, ![1].lateness = 200,
                                    ![2].lateness = 100])

test_preempt_cur_task ==
  LET f == "test_preempt_cur_task"
  IN  \/ /\ Step(f, 1)
         /\ TestPlan(<<create_task(0, 0, 0, 0), create_task(1, 1, 1, 1), create_task(2, 2, 2, 2),
                       create_task(3, 3, 3, 3), create_task(4, 0, 4, 4)>>)
      \/ Step(f, 2) /\ Preempt
      \/ /\ Step(f, 3)
         /\ OverwriteTasks(<<[create_task(0, 0, 0, 0) EXCEPT !.slot_owner = 1],
                             create_task(1, 0, 1, 1), create_task(2, 2, 2, 2),
                             create_task(3, 3, 3, 3), create_task(4, 0, 4, 4)>>)
      \/ Goto(f, 4, 0) /\ Preempt

test_find_next_task_for_all_processes ==
  /\ Goto("test_find_next_task_for_all_processes", 1, 0)
  /\ TestPlan(<<create_task(0, -1, 100, 100), create_task(1, 0, 10, 0), create_task(2, 1, 10, 0),
                create_task(3, 3, 3, 3), create_task(4, 4, 4, 4), create_task(5, 1, 10, 0),
                create_task(6, 0, 10, 0), create_task(7, 7, 7, 7), create_task(8, 8, 8, 8),
                create_task(9, 9, 9, 9)>>)

test_replace_unallocated_slot_in_plan ==
  LET f == "test_replace_unallocated_slot_in_plan"
  IN  \/ /\ Step(f, 1)
         /\ ZeroPlan(<<create_task(0, -1, 10, 10), create_task(1, 1, 10, 10),
                       create_task(2, 2, 10, 10), create_task(3, 3, 10, 10)>>, ZeroProcesses)
      \/ /\ Goto(f, 2, 0)
         /\ \E n \in {size[1]}, q \in {size[2]} :
              tasks' = U(n, q)!replace_unallocated_slot(0)
         /\ UNCHANGED <<size, parsed, cur, cur_process, planned, retired_task, retired_slot,
                        was_preempted, state, slot_owner, process_lateness, process_retired,
                        lateness, instructions_retired, plan_state, stress, tasks_finished,
                        tick_counter, signalVars, parserVars, driverVars>>

test_handle_unallocated ==
  LET f == "test_handle_unallocated"
  IN  \/ /\ Step(f, 1)
         /\ setup_plan(<<create_task(0, -1, 100, 100),
                      [create_task(1, 0, 100, 100) EXCEPT !.was_preempted = 1],
                      [create_task(2, 1, 100, 100) EXCEPT !.was_preempted = 1],
                      create_task(3, 2, 100, 100)>>,
                    MAX_NUMBER_PROCESSES,
                    [SetupProcesses EXCEPT ![0].lateness = 50, ![1].lateness = 100,
                                           ![2].lateness = 200],
                    SETUP_LENGTH, 0)
      \/ Goto(f, 2, 0) /\ HandleUnallocatedSlot

test_task_state_changes_when_finished ==
  LET f == "test_task_state_changes_when_finished"
  IN  \/ /\ Step(f, 1)
         /\ setup_plan(<<create_task(0, 0, INS_PER_TICK, INS_PER_TICK),
                      create_task(1, 1, INS_PER_TICK, INS_PER_TICK)>>,
                    MAX_NUMBER_PROCESSES,
                    [SetupProcesses EXCEPT ![0] = create_process(INS_PER_TICK, INS_PER_TICK \div 10)],
                    SETUP_LENGTH, 0)
      \/ Goto(f, 2, 0) /\ Tick

test_reschedule ==
  LET f == "test_reschedule"
  IN  \/ /\ Step(f, 1)
         /\ TestPlan(<<create_task(0, 0, 100, 100), create_task(1, 1, 100, 100),
                       create_task(2, 0, 1000, 1000)>>)
      \/ Goto(f, 2, 0) /\ Reschedule(STRETCH_CONSTANT, 0)

test_task_vs_slot_instructions ==
  LET f == "test_task_vs_slot_instructions"
  IN  \/ /\ Step(f, 1)
         /\ TestPlan(<<create_task(0, 0, INS_PER_TICK, 2 * INS_PER_TICK),
                       create_task(1, 1, INS_PER_TICK, INS_PER_TICK),
                       create_task(2, 0, INS_PER_TICK, INS_PER_TICK)>>)
      \/ Step(f, 2) /\ Tick
      \/ Step(f, 3) /\ Preempt
      \/ Step(f, 4) /\ Tick
      \/ Goto(f, 5, 0) /\ Tick

test_lateness_balancer ==
  LET f == "test_lateness_balancer"
  IN  \/ /\ Step(f, 1)
         /\ setup_plan(<<create_task(0, 0, INS_PER_TICK, 100 * INS_PER_TICK)>>, MAX_NUMBER_PROCESSES,
                    SetupProcesses, SETUP_LENGTH, BALANCED_LATENESS)
      \/ Goto(f, 2, 0) /\ Tick

test_get_stack_size_of_preempted_tasks ==
  /\ Goto("test_get_stack_size_of_preempted_tasks", 1, 0)
  /\ TestPlan([i \in 1 .. 4 |->
                 [create_task(i - 1, <<0, 0, 0, 1>>[i], 0, 0)
                    EXCEPT !.slot_owner = <<2, 2, 2, 3>>[i]]])

-----------------------------------------------------------------------------
(* test_run: five tasks of a plan are given another real length and run.   *)

(* A pointer into p->tasks is kept as the index it points to.              *)
SetReal(real) ==
  /\ parsed' = [parsed EXCEPT !.real[cur_task] = real]
  /\ locals' = [address |-> cur, id |-> TaskId(cur_task), process |-> cur_process,
                owner |-> slot_owner[cur_task], ticks |-> tick_counter,
                due |-> parsed.real[cur_task] \div INS_PER_TICK]
  /\ UNCHANGED <<size, tasks, cur, cur_process, planned, retired_task, retired_slot,
                 was_preempted, state, slot_owner, process_lateness, process_retired, lateness,
                 instructions_retired, plan_state, stress, tasks_finished, tick_counter,
                 signalVars, parserVars, file, outcome, signals_before>>

NotFinished == state[tasks[locals.address]] # S(0, 0)!PLAN_TASK_FINISHED

check_run_task_on_time(f, k) ==
  \/ Step(f, k) /\ SetReal(planned[cur_task])
  \/ TickWhile(f, k + 1, NotFinished, k + 2)

check_run_task_early_time(f, k) ==
  \/ Step(f, k) /\ SetReal(planned[cur_task] - TEST_MARGIN)
  \/ TickWhile(f, k + 1, cur = locals.address, k + 2)

check_run_task_tm2_early_time(f, k) ==
  \/ /\ Step(f, k)
     /\ SetReal(CDiv(planned[cur_task] * (T2_SIGMA \div 10), 100) - TEST_TM2_OFFSET)
  \/ TickWhile(f, k + 1, NotFinished, k + 2)

check_run_task_late_time(f, k) ==
  \/ Step(f, k) /\ SetReal(planned[cur_task] + TEST_MARGIN)
  \/ TickWhile(f, k + 1, NotFinished, k + 2)

check_preempt_task(f, k) ==
  \/ Step(f, k) /\ SetReal(planned[cur_task] + PREEMPTION_LIMIT + 1)
  \/ TickWhile(f, k + 1, TaskId(cur_task) = locals.id, 0)

test_run ==
  LET f == "test_run"
  IN  \/ Step(f, 1) /\ TestPlan(<<>>)
      \/ test_plan_parsing(f, 2)
      \/ check_run_task_on_time(f, 4)
      \/ check_run_task_early_time(f, 6)
      \/ check_run_task_tm2_early_time(f, 8)
      \/ check_run_task_late_time(f, 10)
      \/ check_preempt_task(f, 12)

-----------------------------------------------------------------------------
(* The demonstrations of defense.c. *)

show_t1_preemption ==
  LET f == "show_t1_preemption"
  IN  \/ /\ Step(f, 1)
         /\ TestPlan(<<create_task(0, 0, INS_PER_TICK, INS_PER_TICK),
                       create_task(1, 1, INS_PER_TICK, PREEMPTION_LIMIT + 1),
                       create_task(2, 0, INS_PER_TICK, INS_PER_TICK),
                       create_task(3, 1, INS_PER_TICK, INS_PER_TICK)>>)
      \/ Step(f, 2) /\ Tick
      \/ TickWhile(f, 3, TaskId(cur_task) = 1, 0)

show_t2_node_signal ==
  LET f == "show_t2_node_signal"
  IN  \/ /\ Step(f, 1)
         /\ setup_plan([i \in 1 .. DEMO_TASKS |->
                          create_task(i - 1, (i - 1) % 2, INS_PER_SEC, (INS_PER_SEC \div 100) * 120)],
                       2, SetupProcesses, DEMO_TASKS * INS_PER_SEC, 0)
      \/ TickWhile(f, 2, tick_counter < DEMO_TICK, 3)
      \/ Step(f, 3) /\ Tick
      \/ Goto(f, 4, 0) /\ Tick

show_tm2_task_signal ==
  LET f == "show_tm2_task_signal"
  IN  \/ /\ Step(f, 1)
         /\ TestPlan(<<create_task(0, 0, INS_PER_SEC, INS_PER_SEC \div 10),
                       create_task(1, 1, INS_PER_TICK, PREEMPTION_LIMIT + 1)>>)
      \/ TickWhile(f, 2, TaskId(cur_task) = 0, 0)

-----------------------------------------------------------------------------
(* Variant: full_run goes on with the plan of the last demonstration.      *)
full_run_USED ==
  LET f == "full_run"
  IN  \/ /\ Step(f, 1)
         /\ UNCHANGED <<planVars, signalVars, parserVars, driverVars>>
      \/ test_plan_parsing(f, 2)
      \/ TickWhile(f, 4, ~ IsEnd(cur_task), 5)

(* Variant: runs until the plan is finished, as start_run does.            *)
full_run_STATE ==
  LET f == "full_run"
  IN  \/ Step(f, 1) /\ ZeroPlan(<<>>, ZeroProcesses)
      \/ test_plan_parsing(f, 2)
      \/ TickWhile(f, 4, plan_state # S(0, 0)!PLAN_FINISHED, 0)

(* full_run: the plan is run to its end, and some ticks more come then.    *)
full_run ==
  LET f == "full_run"
  IN  \/ Step(f, 1) /\ ZeroPlan(<<>>, ZeroProcesses)
      \/ test_plan_parsing(f, 2)
      \/ TickWhile(f, 4, ~ IsEnd(cur_task), 5)
      \/ /\ Goto(f, 5, IF locals.ticks + 1 < TICKS_AFTER_END THEN 5 ELSE 0)
         /\ locals' = [locals EXCEPT !.ticks = @ + 1]
         /\ \E n \in {size[1]}, q \in {size[2]} : S(n, q)!Next
         /\ UNCHANGED <<size, parserVars, file, outcome, signals_before>>

-----------------------------------------------------------------------------
EmptyPlan == [pid |-> [e \in {0} |-> -2], planned |-> [e \in {0} |-> 0],
              real |-> [e \in {0} |-> 0], buffer |-> <<>>]

(* Every function of main begins with a plan of its own.                   *)
Init ==
  /\ at = <<main[1], 1>>
  /\ size = <<0, 0>>
  /\ S(0, 0)!parse_plan(EmptyPlan)
  /\ SignalInit
  /\ NothingRead
  /\ processes = [r \in ProcessTable |-> NoProcess]
  /\ task_list = [i \in 0 .. MAX_NUMBER_TASKS_IN_PLAN - 1 |-> NoTask]
  /\ file = NoFile
  /\ locals = NoLocals
  /\ outcome = "not called"
  /\ signals_before = 0

Next ==
  \/ test_find_slot_to_move_to
  \/ test_find_suitable_task
  \/ test_preempt_cur_task
  \/ test_find_next_task_for_all_processes
  \/ test_replace_unallocated_slot_in_plan
  \/ test_handle_unallocated
  \/ test_task_state_changes_when_finished
  \/ test_reschedule
  \/ test_task_vs_slot_instructions
  \/ test_lateness_balancer
  \/ test_get_stack_size_of_preempted_tasks
  \/ test_run
  \/ show_t1_preemption
  \/ show_t2_node_signal
  \/ show_tm2_task_signal
  \/ full_run
  \/ Return

(* The program runs until main returns.                                    *)
Spec == Init /\ [][Next]_vars /\ WF_vars(Next)

-----------------------------------------------------------------------------
(* The list, from its head, begins with these entries.                     *)
ListIs(list) == \A i \in DOMAIN list : tasks[i - 1] = list[i]
SignalsOfPlan == prediction_failures_caused - signals_before

(* Every assertion of the unit tests, and what the comments of defense.c   *)
(* say will be seen, at the statement it stands at: the tests pass one     *)
(* after the other, on the signal buffer the earlier ones left behind.     *)
UnitTestsPass ==
  \A n \in {size[1]}, q \in {size[2]} :
    LET Ended(f) == at = <<f, 0>>
        At(f, k) == at = <<f, k>>
    IN
      /\ Ended("test_find_slot_to_move_to") => IsInsertionSlot(tasks, parsed.pid, cur, n, 3)
      /\ Ended("test_find_suitable_task") => U(n, q)!IsSubstitution(1)
      /\ At("test_preempt_cur_task", 3) =>
           ListIs(<<1, 2, 3, 0, 4>>) /\ cur_task = 1 /\ cur_process = 1
      /\ Ended("test_preempt_cur_task") =>
           ListIs(<<2, 3, 0, 1, 4>>) /\ cur_task = 2 /\ cur_process = 2
      /\ Ended("test_find_next_task_for_all_processes") =>
           /\ U(n, q)!next_tasks[0] = 1
           /\ U(n, q)!next_tasks[1] = 2
           /\ Cardinality({r \in ProcessTable : U(n, q)!next_tasks[r] = -2}) = 1
      /\ Ended("test_replace_unallocated_slot_in_plan") => ListIs(<<1, 2, 3, 4>>)
      /\ Ended("test_handle_unallocated") =>
           \A i \in 0 .. 2 : parsed.pid[tasks[i]] = <<1, 0, 2>>[i + 1]
      /\ Ended("test_task_state_changes_when_finished") =>
           cur # 0 /\ state[tasks[0]] = S(n, q)!PLAN_TASK_FINISHED
      /\ Ended("test_reschedule") =>
           /\ planned[0] = (100 * STRETCH_CONSTANT) \div 100
           /\ planned[1] = 100
           /\ planned[2] = (1000 * STRETCH_CONSTANT) \div 100
      /\ At("test_task_vs_slot_instructions", 3) =>
           retired_task[tasks[0]] = INS_PER_TICK /\ retired_slot[tasks[0]] = INS_PER_TICK
      /\ At("test_task_vs_slot_instructions", 4) => cur_task = 1
      /\ At("test_task_vs_slot_instructions", 5) => cur_task = 0
      /\ Ended("test_task_vs_slot_instructions") =>
           /\ retired_task[tasks[1]] = 2 * INS_PER_TICK
           /\ retired_slot[tasks[1]] = INS_PER_TICK
           /\ retired_slot[tasks[2]] = INS_PER_TICK
      /\ Ended("test_lateness_balancer") => prediction_failures_caused = 1 /\ lateness = 0
      /\ Ended("test_get_stack_size_of_preempted_tasks") =>
           IsStackSize(tasks, parsed.pid, slot_owner, cur, n, 3)

(* What the comments of defense.c announce: task 1 is preempted behind     *)
(* task 2, the node signal comes in the announced tick and no other comes  *)
(* before or with it, and the early task is signalled.                     *)
DemonstrationsShow ==
  /\ at = <<"show_t1_preemption", 0>> => ListIs(<<0, 2, 1, 3>>)
  /\ at[1] = "show_t2_node_signal" /\ at[2] \in {2, 3} => SignalsOfPlan = 0
  /\ at = <<"show_t2_node_signal", 4>> =>
       /\ SignalsOfPlan = 1
       /\ get_pbs_signal(0).type_signal = 2
       /\ get_pbs_signal(0).tick = DEMO_TICK
       /\ lateness = 0
  /\ at = <<"show_tm2_task_signal", 0>> =>
       /\ SignalsOfPlan = 1
       /\ get_pbs_signal(0).type_signal = -2
       /\ get_pbs_signal(0).task_id = 0

(* Every assertion of test_run, which was written for the one file at      *)
(* PLAN_PATH: it passes for every plan of three processes that begins like *)
(* that one.  test_plan_parsing, which full_run calls, too, asserts the    *)
(* number of processes.                                                    *)
TestRunPasses ==
  /\ at \in {<<"test_run", 4>>, <<"full_run", 4>>} => IsNumberOfProcesses(3)
  /\ at[1] = "test_run" =>
     LET k == at[2]
         finished(m) == tasks_finished = m
     IN  /\ k = 6 => finished(1) /\ TaskId(cur_task) = 1 /\ cur_process # locals.process
         /\ k = 8 => /\ tick_counter - locals.ticks \in {locals.due, locals.due + 1}
                     /\ finished(2)
         /\ k = 9 => /\ parsed.real[tasks[locals.address]] < planned[tasks[locals.address]]
                     /\ NotFinished => TaskId(cur_task) = 2
         /\ k = 10 => finished(3)
         /\ k = 11 /\ NotFinished => TaskId(cur_task) = 3
         /\ k = 12 => finished(4)
         /\ k = 0 => LET t4 == CHOOSE e \in DOMAIN planned : TaskId(e) = locals.id
                     IN  tasks[locals.address] # t4 /\ slot_owner[t4] # locals.owner

(* parse_plan, which leaves lateness, stress, plan state and retired       *)
(* instructions of the struct as they were: in the two structs it is       *)
(* given, a zeroed one and one that setup_plan has filled, what it leaves  *)
(* at the end is the plan of the text with nothing run, and the processes  *)
(* can be counted (number_processes_in_plan).                              *)
PlanIsRead ==
  at \in {<<"test_run", 4>>, <<"full_run", 4>>} /\ tick_counter = 0 =>
    \A n \in {Len(file.tasks)}, q \in {Len(file.buffers)} :
      LET entry(e) == file.tasks[e + 1]
          plan == [pid     |-> [e \in 0 .. n |-> IF e = n THEN -2 ELSE entry(e).process_id],
                   planned |-> [e \in 0 .. n |-> IF e = n THEN planned[n] ELSE entry(e).planned],
                   real    |-> [e \in 0 .. n |-> IF e = n THEN parsed.real[n] ELSE entry(e).real],
                   buffer  |-> [r \in 0 .. q - 1 |-> file.buffers[r + 1]]]
      IN  /\ size = <<n, q>>
          /\ S(n, q)!parse_plan(plan)
          /\ IsNumberOfProcesses(q)
          /\ \A e \in 0 .. n : task_list[e].task_id = TaskId(e)

(* The assertions of main.c, threshold_checking.c and process.c that come  *)
(* before and in every tick: there is a task to run, and, also after any   *)
(* rescheduling, thresholds of lateness are positive and those of          *)
(* earliness are negative or below the planned length.  The first entry of *)
(* the plan keeps a length, for handle_free_slot, which subtracts it,      *)
(* asserts that the lateness of the node has fallen.                       *)
AssertionsHold ==
  at[1] \in {"test_run", "full_run"} /\ section = "all" /\ ~ IsEnd(cur_task) =>
    LET length == parsed.length_plan[cur_process]
    IN  /\ planned[tasks[0]] > 0
        /\ parsed.pid[cur_task] # -1
        /\ calculate_tm2_task(planned[cur_task]) \in 1 .. planned[cur_task] - 1
        /\ calculate_t2_node(size[2], parsed.instructions_planned, stress) > 0
        /\ calculate_tm2_node(parsed.instructions_planned) < 0
        /\ calculate_capacity_buffer(length) > length
        /\ process_retired[cur_process] >= 0

(* The buffer outlives the plans while each plan counts its ticks from 0:  *)
(* get_pbs_signal returns the signals of the running plan before those of  *)
(* earlier plans, and only among them the ticks are in order.              *)
SignalsOfPlanAreOrdered ==
  LET known == {k \in SigIndices : k < SignalsOfPlan}
  IN  /\ \A k \in known : get_pbs_signal(k).tick < tick_counter
      /\ \A k, m \in known : k < m => get_pbs_signal(m).tick < get_pbs_signal(k).tick

(* main returns: every loop of the tests and demonstrations over the ticks *)
(* and every loop of the parser ends, for every file.                      *)
MainReturns == <>(at = <<"main", 0>>)
=============================================================================
