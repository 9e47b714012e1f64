# Verification of the level-two PBS scheduler

TLA+ models of the prediction-failure handling in this repository: the timer
tick that executes a plan of tasks, detects tasks that run longer or shorter
than planned, preempts them within the plan and signals prediction failures.
The models are checked with TLC on small plans, and the invariants the
scheduler depends on are proved with TLAPS for every plan.

## The system

A *plan* is a list of tasks of several processes, with free slots in between
(task id -1) and a sentinel at the end (task id -2). Every task has a planned
length (its *slot*) and, since this is a simulation, a real length. A timer
interrupt calls `pbs_run_timer_tick`, which books `INS_PER_TICK` instructions
and then either finishes the current task or checks the thresholds t2 (signal a
prediction failure and let level one stretch the rest of the plan) and t1
(preempt the task: move it in front of the next task of its process, whose slot
it then uses up). A task that finishes too early raises t-2, which shrinks the
plan. The program `level2` (`main.c`) runs unit tests, a test on a plan file, three
demonstrations (`defense.c`) and finally a whole plan from the file, all in one
process: each has a plan of its own, but the buffer of signals is global.
Everything runs in the interrupt handler, to completion: there is no concurrency inside a tick, no message and no persistent state. What is hard is
the *sequence* of ticks: preemptions permute the array under a cursor pointer,
tasks run in slots of other tasks, several counters are to agree on the same
instructions, and rescheduling moves the thresholds while all this goes on.

| Component | Source | State | Operations | What makes it correct |
|---|---|---|---|---|
| tick handler | `pb-scheduler.c` | cursor (`cur_task`, `index_cur_task`), `cur_process`, lateness, stress, tick counter | `pbs_run_timer_tick`, `schedule_task_finished`, `schedule_timer_tick`, `switch_task`, `handle_free_slot`, `start_run` | never runs a free slot, finishes every task once, in order; terminates |
| preemption | `prediction_failure_handling.c` | order of `p->tasks`, `slot_owner`, `was_preempted` | `preempt_cur_task`, `find_slot_to_move_to`, `get_stack_size_preempted_tasks`, `move_tasks`, `handle_no_preemption_slot_found` | a permutation, the order of a process is kept, slot owners can be found |
| signals | `prediction_failure_signaling.c` | ring buffer, number of signals; planned lengths | `signal_t2`, `signal_tm2`, `reschedule`, `add_signal`, `get_pbs_signal` | the latest signals in order; only the future is rescheduled; signals are spaced by the stress |
| thresholds | `threshold_checking.c`, `config.h` | none | `calculate_*`, `check_*` | bound the overrun of a slot |
| plan, tasks, processes | `plan.c`, `task.c`, `process.c`, `pbs_entities.h` | counters of tasks, slots, processes and plan | `update_retired_instructions`, `update_cur_process`, `find_task_with_task_id`, `balance_lateness`, ... | totals agree with what was run |
| plan parser | `parse_plan.c` | position in the text, tables of processes and tasks | `parse_meta`, `parse_tasks`, `parse_next_task`, `count_tasks`, ... | stays in the text and the tables; a list that ends in the sentinel, totals of the lengths |
| unallocated slots | `pb-scheduler.c`, `plan.c`, `task.c` | order of `p->tasks` | `handle_unallocated_slot` and what it calls (unit tests only) | no task is lost, the order of a process is kept |
| PMU interface | `pmu_interface.c` | none | `get_retired_instructions` | returns `INS_PER_TICK` |
| unit tests, demonstrations | `main.c`, `defense.c` | one plan after the other | `main` and everything it calls | every assertion holds in this order, on one signal buffer; `main` returns |
| helpers, scripts | `userland_only_helper.c`, `kernel_dummies.h`, `helper/` | none of the scheduler's | output, text processing | not modelled |

## Modules

    PBSConfig          macros of config.h; those that set a scale are CONSTANTS
      Thresholds       threshold_checking.c, process completion
      SignalBuffer     ring buffer of signals
        SignalBufferSpec    the buffer on its own; implements SignalHistory
    Preemption         list operations of prediction_failure_handling.c
    PBScheduler        the scheduler: Thresholds + Preemption + SignalBuffer;
                       implements PlanExecution
      StartRun         the loop of start_run around it
      DocumentedClaims statements of comments about counters and T2_SIGMA
    UnallocatedSlot    handle_unallocated_slot
    PlanParser         parse_plan.c
    Level2             main.c and defense.c: the parser, the scheduler and
                       handle_unallocated_slot on one plan after the other
    SignalHistory, PlanExecution    abstract specifications
    MCPBScheduler, MCSignalBuffer, MCUnallocatedSlot, MCLevel2    instances for TLC
    CommonLemmas       lemmas about the buffer and about sums over finite sets
      SignalBufferProofs   the buffer: its type, SignalHistory, print_signals
      PBSchedulerProofs    the scheduler: type, list, history, order of signals
        AccountingProofs   ... its counters, totals, lateness, ticks and end
          PreemptionProofs     ... preemptions, stacks, overrun, assertions,
                               PlanExecution
      Level2Proofs         the program: parser, plans read, signals of a plan;
                           full_run implements PBScheduler
    ThresholdProofs, UnallocatedSlotProofs    the modules they are named after

**PBScheduler.** One action is one call of `pbs_run_timer_tick`, and there is
one action for each way it can end: `TickFinishesTask` (the task is done:
`schedule_task_finished`, `switch_task`, and `handle_free_slot` if a free slot
follows), `TickRunsTask` (t1 is not reached), `TickPreemptsTask`
(`preempt_cur_task`, and `handle_free_slot` if the preemption brings a free slot
under the cursor), `TickFindsNoSlot` (`handle_no_preemption_slot_found`) and
`TickAfterEnd` (the cursor is at the sentinel). A tick is deterministic; the
plan is chosen in `Init`. Entries are named by their position in the parsed
plan, so `tasks` is a permutation and the fields of the C structs are functions
of the entry. `p->cur_task` and `p->index_cur_task` advance together in every
function of the code and are one variable, `cur`. The order of effects inside a
tick is kept where later ones read earlier ones: the instructions are booked
before the checks (`SlotRetired`), a t2 signal resets lateness and stretches the
plan before t1 is checked (`PlannedAfterT2`), and a t-2 signal shrinks it before
the lateness of the task is computed (`PlannedAfterTm2`).

Not represented: `task->lateness`, `finished_tasks`, `num_tasks_remaining` and
`lateness_balancer`, which nothing reads; logging; and the assertions of the
code, which do not change state (those about the list, the cursor and the free
slots appear as invariants).

**StartRun** adds `start_run`'s loop. **UnallocatedSlot** models one call of
`handle_unallocated_slot`; a call without a candidate ends in the outcome
"null pointer", because the code dereferences the `NULL` it gets.

**PlanParser** reads a text that is a sequence of symbols, a number being one
symbol. A step is a turn of the loop of `parse_meta` or of `parse_tasks`; positions are
counted as the code counts them, so that an error in counting semicolons or in the
step over a separator leaves the text. Only well-formed texts are read: the code
checks nothing.

**Level2** is the program. Its state is that of the scheduler and of the parser
together; `at` names the next statement, and a step is one statement that changes a
plan: creating it, a call of the code under test, a turn of a loop over the ticks.
`S(n, q)` and `U(n, q)` are `PBScheduler` and `UnallocatedSlot` for a plan of `n`
entries and `q` processes, so every test calls the very operators the other runs
check. The only choice is the file, each time it is read; it may differ between the
two readings. `setup_plan` and `NewPlan` set up the struct as the tests do, with the tasks
and processes up to the sentinel the test writes. What `handle_no_preemption_slot_found`
and the ticks leave in the global buffer is carried on to the next function.
`signals_before`, the signals raised before the plan at hand was created, is a
history variable. Some sentinels of the tests have other values in the fields
nothing reads (`main.c:180`), they are uniform here; `find_next_task_for_all_processes`
is taken to find no -2 in the uninitialised array two of the tests pass it.

**SignalHistory** says what readers of the ring buffer rely on: a window over
the latest signals. **PlanExecution** says what the processes of a plan rely on:
one task runs at a time, each process runs its tasks in plan order, a
preemption gives way to *another* process, and every task gets finished. It
knows no slots, thresholds or free slots.

Operators whose name ends in a capitalised word (`move_tasks_SHIFT`) are
variants of the definition that follows them, each with a bug one might make.
They are not used in any specification; each property of a passing run has one
in `PROJECT.json` that violates it when it replaces the original.

## Runs

Configuration for all runs of the scheduler: a tick retires 10 instructions,
`T1_MIN_TICKS_OFF` = `T1_MAX_TICKS_OFF` = 1, `T2_MAX_PREEMPTIONS` = 1,
`STRESS_RESET` = 3, a signal buffer of 2, two processes. The header's
ratios (100 ticks a second, stress for 3000 ticks, t2 after five preemptions)
only make the same cases take longer to reach. A task has one of two or three
pairs of planned and real length: `<<20, 20>>` on time, `<<40, 10>>` early enough
for t-2, `<<20, 80>>` late enough to be preempted up to three times and to be
signalled. Free slots are 30 long. `t2_sigma` has tasks of a tick
(up to six ticks in fact), and 100 ticks a second, so that t2 of a process and of the node do not come first.

The run of the whole program has a scale of its own, see below.

| Run | Plans | Result |
|---|---|---|
| `any_plan` | all of 5 entries, any order | fourteen properties hold, 176,350 states |
| `spread_plan` | all of 7 entries, tasks of a process adjacent only in the tail | `OrderIsKept`, `SlotStacks`, `SlotOverrunBounded` hold, refinement of `PlanExecution`, 177,924 states |
| `signal_buffer` | buffer of 3, up to 8 signals of two ticks | refinement of `SignalHistory`, `PrintedSignals`, 3,145 states |
| `unallocated_slot` | all of 6 entries with stacks of up to two preempted tasks | order and tasks are kept, 21,460 states |
| `program` | 81 files of three processes and 7 entries, read twice | the program returns, its tests and assertions hold, 32,932 states |
| `order_any_plan`, `free_space`, `surplus`, `start_run_returns`, `start_run_finished`, `clear_preemption`, `t2_sigma` | small plans | each finds one disagreement, see below |

The bounds are enough for the cases that matter. In `any_plan` TLC reaches
preemptions in front of a free slot, tasks preempted repeatedly, plans that run
out of slots, slots overrun by guests, wrap arounds of the signal buffer and t2
signals caused by preemptions during stress; a stack of two moves with 5
entries, a stack of three needs the 7 of `spread_plan`. Lengthening the plan
repeats these patterns; the theorems do without the bounds. No counter is
bounded in the scheduler: every run of a plan is finite. `MaxSignals` bounds the
signals of `MCSignalBuffer`, enough to go round the buffer more than twice.
Deadlock is not an error there (the bound ends the behaviour), in `StartRun`
(the loop returns), in `UnallocatedSlot` (one call) and in `Level2` (`main` returns).

`program` uses a tick of 100 instructions and 20 ticks a second, the header's ticks of t1,
five preemptions, a stress of 30 seconds and ten processes. The tables
hold 33 tasks, and `show_t2_node_signal` has 32 instead of 200 (`DEMO_TASKS`); the tick in which it
announces its signal, 11528 in the header's scale, is then 305 (`DEMO_TICK`). 305 is not derived
from 11528: it is the tick the C program, compiled with this scale, signals in, and the model must
signal in the same one, so that `DemonstrationsShow` is a regression test as far as this tick goes. The
announced tick itself was checked once, outside the regular runs because it takes minutes: with the header's
ratios (100 ticks a second, stress for 3000 ticks, `DEMO_TASKS` = 200, `DEMO_TICK` = 11528) and
one file, `DemonstrationsShow` holds in the 11,878 states of that program. `TICKS_AFTER_END` is 3 instead of 100:
nothing changes in them. `TEST_MARGIN` and `TEST_TM2_OFFSET` are the literals 100 and 13430718
in ticks of this size. The signal buffer has two entries, so that it
wraps around within the tests. The files have three processes and seven entries, tasks and free
slots; they meet what `test_run` presupposes of the file it was written for: three processes
(asserted at `main.c:544`, so `TestRunPasses` requires the literal 3 at both readings), a second task of
another process, a later task of the fifth's process to preempt it into. Tasks are on time, early
enough for t-2, or late enough to be preempted in the plan. For a file with another number of
processes the real program aborts at that assertion; the theorems about all files (`Level2Proofs`) describe the
program compiled without assertions.

What the properties say:

- `PlanIsPermutation`, `OwnerIsAhead`, `SlotStacks`: after any sequence of
  preemptions the list holds every entry once, and the slot of each unfinished
  task can be looked up, at the end of the stack the task belongs to.
- `CurTaskIsRunnable`, `FinishedBehindCursor`: cursor, current process, task
  states and the number of finished tasks describe the same progress.
- `OrderIsKept`: the tasks of a process keep their order, for plans in which they
  are not adjacent (for others see `order_any_plan`).
- `InstructionAccounting`: what the totals of plan and processes mean while tasks
  are preempted, and that they are exact at the end.
- `TicksBounded`: no tick is lost. Until a task finds no slot the tasks have retired
  exactly the instructions of all ticks, afterwards at least those, and none of them runs more
  than a tick beyond its real length. So preemptions cannot put off the end of a plan for ever.
- `SlotOverrunBounded`: t1 bounds the overrun of a slot up to a tick for its
  owner and for each guest that finished in it, also after signals, which stretch slots;
  only those of process 0, which `signal_tm2` shrinks, may already have taken more when they are
  rescheduled. Again for plans in which tasks of a process are not adjacent: in a plan of
  the processes 0 0 1 0 1 0 a task moves into a slot whose owner is preempted itself, and
  the slot gets a tick more.
- `PreemptionsBounded`: preemptions of a task are bounded by the later tasks of its
  process, in every plan.
- `LatenessAccounting`: what the lateness of the node means, also after signals in the
  middle of a plan: the deviation of the entries since the latest signal from
  what is *now* planned for them. `StaleTotals`: which of the parsed totals, which
  no rescheduling updates, are still exact or a bound.
- `HistoryIsFixed`: no step rewrites what is behind the cursor.
- `SignalsAreOrdered`, `T2SignalsAreSpaced`: the buffer returns ever older
  signals; t2 signals keep the distance the stress asks for, unless a task was
  preempted too often.
- `EveryTaskFinishes`, `ImplementsPlanExecution`: every plan runs to its end.
- `PrintedSignals`: `print_signals` prints the array and not the history. Before
  the first wrap around it prints no signal at all, since `add_signal` leaves index 0 empty
  until then; whether it prints anything depends on an uninitialised variable.
- `ParserTypeOK`, `PlanIsRead`: the parser never leaves the text or the tables, the
  counted tasks end where the text ends, and the plan it leaves is the initial state of
  `PBScheduler` for this file, from either of the two structs the program reads a file
  into: the one of `setup_plan` in `test_run`, and a zeroed one in `full_run`. `parse_plan` itself
  leaves state, lateness, stress and retired instructions alone, so a struct in which something had run would
  not do.
- `UnitTestsPass`, `DemonstrationsShow`, `TestRunPasses`: every assertion of `main.c` and
  `defense.c` (that of `main.c:192` included), and what the comments of `defense.c` announce.
- `AssertionsHold`: the assertions of `threshold_checking.c` and `process.c` before every tick, and that
  of `handle_free_slot` about the length it reads (`pb-scheduler.c:173`), also for lengths that were
  rescheduled. The lengths here stay far from those at which the assertions begin to fail (a task of one
  instruction, a plan of fewer than five); the theorems are about these (see Thresholds).
- `SignalsOfPlanAreOrdered`: plans start counting ticks at 0 while the buffer goes
  on; what `get_pbs_signal` returns is in order for the running plan only.
- `MainReturns`: every loop over ticks of the tests, and both loops of the parser, end.

The model was also compared with the program: the C sources, compiled with these
constants and with assertions enabled, were run on every plan of `any_plan` and on
the spread plans of 6 entries, and the states after each tick are exactly the reachable
states of `PBScheduler`. The whole program, compiled at the scale of `program` and with its assertions
as they are, was run with 216 files of three processes, the 81 of the run
among them: all assertions hold, as in the model.

**Fairness.** `WF_vars(pbs_run_timer_tick)`: "called by the tick-function after
each timer interrupt" (`pb-scheduler.c:23`), and `full_run` (`main.c:591`) calls
it in a loop. The tick is the only process, so weak fairness is enough.
`StartRun` assumes the same of its own loop, and `Level2` weak fairness of its only
process: a program that has not returned executes its next statement.

## Disagreements found

1. `order_any_plan`: with two adjacent tasks of one process, `move_tasks` carries
   only the tasks of the current slot, and the first ends up behind the second
   (`prediction_failure_handling.c:116`, against `order_is_kept` at `:204`).
2. `free_space`: `handle_free_slot` subtracts the length of the first entry of
   the plan, not that of the free slot (`pb-scheduler.c:167`, against `plan.c:80`).
3. `surplus`: the surplus removed when a task finishes is that of its slot
   (`pb-scheduler.c:58`). The totals are still exact at the end
   (`InstructionAccounting`), but not in between.
4. `start_run_returns`: a plan that ends normally never sets `PLAN_FINISHED`, and
   `start_run` does not return (`pb-scheduler.c:145`).
5. `start_run_finished`: a task without a preemption slot finishes the *plan*
   (`prediction_failure_handling.c:61`).
6. `clear_preemption`: `handle_unallocated_slot` clears the preemption of the wrong
   task (`pb-scheduler.c:193`).
7. `t2_sigma`: `T2_SIGMA`, "percentage as int; max allowed deviation % of a task from its plan"
   (`config.h:24`), is a factor in `calculate_t2_task`, which multiplies the planned length by
   175 (`threshold_checking.c:65`). A slot that deviates by more than 175 percent, and by more
   than `T2_SPACER` from t1, is not signalled. Since t1 comes first, only guests that finish in a
   slot take it that far, each by a tick, and with the header's macros a slot of a tick or more would need 171 of
   them (`T2TaskCorrect`, `T2TaskOutOfReachCorrect`).

## Proofs

Everything below is for any number of tasks and processes, any lengths and any
values of the macros. The assumptions:

- `ConfigAssumption`: the scale macros are positive.
- `PlanAssumption`: the sentinel ends the plan, the plan starts with a task
  (`parse_plan` takes its process for the current one), no two free slots follow each
  other (asserted by `handle_free_slot`), and there is room for the terminating
  process `parse_meta` writes.
- `SituationAssumption`, for `handle_unallocated_slot`: it is called at a free slot.
- `ParserAssumption`, `FilesAssumption`: what a plan file says fits the tables, the
  entries written behind it included, and its tasks belong to its processes or are
  free slots. `parse_plan` checks none of this and would write elsewhere.

The theorems about the order of tasks, stacks, overrun and the refinement of
`PlanExecution` are about spread plans and have the form
`Spec /\ IsSpread(parsed.pid) => ...`: two tasks of a process are adjacent only in a
tail of the plan that is all its own. For other plans these properties are false
(`order_any_plan`). All other theorems about the scheduler are about every plan, those about
the program about every file that meets the assumptions above (`FullRunCorrect`,
`FullRunImplements`: and is runnable, see there).

**The list** (`PBSchedulerProofs`). `TypeOK`, `PlanIsPermutation`,
`CurTaskIsRunnable` and `OwnerIsAhead` follow from one inductive invariant `IInv`,
which adds `PlanOK` (the fixed fields of the plan) and `FreeSlotsApart`. The parts
need each other: that the current entry is a task needs `FreeSlotsApart`, because a
free slot is skipped only once; that `FreeSlotsApart` survives a preemption needs the
order of the moved list, and that the moved stack holds no free slot; the index a tick
writes through `slot_owner` is in the list by `OwnerIsAhead`; and `OwnerIsAhead`
survives only because a preemption moves a stack in front of its new owner and
keeps the rest in order. The proof describes `move_tasks` by the permutation
`Source` and its inverse `Target` (lemmas `SourceAndTarget`, `MovedList`), shows
in `StackFits` that the stack always fits in front of the insertion slot, and then
treats one action per lemma. `HistoryIsFixed` follows from the same invariant: every
write of a tick goes to an entry at or ahead of the cursor. `PreemptionDefined` says that the
model's `CHOOSE` stands for the loops of the code: from every reachable state the search
for the stack under the cursor finds exactly one, and that for the insertion slot at most one.

**Signals** (`PBSchedulerProofs`, `SignalBufferProofs`). `AddSignalShifts` says what
adding a signal does: everything `get_pbs_signal` returns moves on by one, whether or
not the position wraps. With it the ring buffer implements `SignalHistory`, and
`SignalsAreOrdered` and `T2SignalsAreSpaced` hold for every plan, buffer and reset
value of the stress. Neither is inductive: that a new signal is far enough behind the
last one needs `StressCoversSignal`, which says that since the last signal at least as many
ticks have passed as the stress has been lowered (it is lowered at most once a tick, and
not at all on a tick that preempts). `StepSignals` reduces the five ways a tick ends to
two: it signals nothing, or it signals once and sets the stress. `PrintedSignals` needs
to know where the signals of the first round are: `FirstRound`, index 0 is empty until
the first wrap around.

**Counters and totals** (`AccountingProofs`). The cursor divides the entries into `Done`
and `Rest`. `FinishedBehindCursor` becomes inductive with one conjunct: a finished task
under the cursor, which only `handle_no_preemption_slot_found` leaves there, has retired its
real length, so that the next tick finishes it and does not preempt it a second time. The
totals are sums over sets of entries. `CommonLemmas` proves what is needed of
`SumFunctionOnSet` (`SumAdd`, `SumRemove`, `SumEqual`, `SumZero`) from its definition, by
taking a minimal subset of a finite set that contradicts the claim, where an induction
over the set is not available. `InstructionAccounting` says that a total is what `Booked`
adds up: the real lengths of what is done and the slots of the rest. When a task
finishes, the surplus taken off is that of its *slot*, so what guests left there is
settled at that moment; that the process total never counts a slot of another process
needs `OwnerIsKin`. `StaleTotals` needs `PlannedChanges` (only a signal changes lengths,
only t-2 shrinks them, those of process 0). `LatenessAccounting` needs to know from which
place lateness is counted: `CountedFrom` keeps that the task of a t-2 signal is behind
the cursor, where no preemption moves it and no rescheduling changes its length.

Two theorems are the safety core of `EveryTaskFinishes`, whose liveness is out of reach.
`TicksCorrect` proves `TicksBounded`: `TicksInv` adds to it that an entry at or ahead of the
cursor has retired no more than its real length (the task that found no slot exactly that), so
that the tick that finishes it takes it a tick beyond at most. `EndCorrect` says what a plan that comes to
its end leaves: every task of every process finished with at least its real length retired,
and the totals of plan and processes equal to the real lengths. Together: a plan can take only
so many ticks, and where it stops nothing is missing.

**Preemption** (`PreemptionProofs`). `PreemptionsBounded` counts runs: every preemption
moves a task in front of a run of tasks of its process and merges with it, so the
preemptions of a task and the runs still behind it together never exceed the later
tasks of its process (`RunsBounded`). For spread plans `StackInv` is inductive: the
entries of a slot are one stack that ends in its owner (`Stacked`), only the first tasks of a
process are guests, all in one slot (`FirstStacked`), and adjacent tasks of a process
share a slot or are in the tail (`Together`). That is where adjacency
matters: with two adjacent tasks in different slots `move_tasks` carries the first past the
second. `OrderIsKept` and `SlotStacks` follow. `OverrunInv` gives `SlotOverrunBounded`:
as long as its unfinished owner still has it, a slot has no tick more over t1 than
guests; only the last booking adds one. It survives signals because t1 grows with the planned
length and only `signal_tm2` shrinks one, that of process 0. Together with the thresholds, `T2TaskCorrect`
says what t2 of a task takes in a slot that was not shrunk: `T1_MAX_TICKS_OFF` guests finished in
it, and `T2_SIGMA - 1 - T1_MIN_TICKS_OFF` of them if a tick or more is planned for it. The guests of a
slot are tasks of one process, so `T2TaskOutOfReachCorrect` shows that `check_t2_task` never
signals a task for its slot in spread plans with fewer tasks in a process (`FewTasks`), as long as no length is shrunk
(`NothingShrinks`, a condition on the behaviour: `signal_tm2` is not called or finds nothing to shrink).
`AssertionsCorrect` proves the assertions of `threshold_checking.c` and `process.c` in every
tick of every plan, whatever was preempted and rescheduled before (`TickAsserts`). The lengths
they need are part of it: `instructions_planned` and `length_plan` are never
rescheduled, but the task's length is, and a task shrunk to one instruction fails
`check_tm2_task`.
`ExecutionRefined` is the safety part of `ImplementsPlanExecution`: by `OrderIsKept`
the task under the cursor is always one its process may run next, a tick finishes it,
gives way to another process or shows nothing.

**Thresholds** (`ThresholdProofs`). The assertions of `threshold_checking.c` hold for
every scale and every length, with the lengths for which they hold:
`calculate_tm2_node` needs a plan of at least five instructions, `check_tm2_task` a
task of more than one, and shrinking (`planned * 95 / 100`) can bring a very short task
down to that. `T1IsPlannedAndSpacer` shows that `T1_SIGMA` never matters.

**Unallocated slots** (`UnallocatedSlotProofs`). `SubstitutionKeepsOrder` and
`SubstitutionKeepsTasks` for every plan: the substitute is the first task of its process
in the list, so it passes none of its own, and only the free slot leaves the list.

**The program** (`Level2Proofs`). `ParserMoves` reduces a statement of the program to
what it does to the parser: nothing, a new struct, a file opened, or a turn of a loop.
`ParserInv` ties the position to the section and the number of entries read so far, for
`Written(f)`, the text of any file; `ParserTypeOK` follows (`TasksAreCounted`: the semicolons
behind the meta section are as many as the tasks). `TablesInv` says what the tables
hold when part of the tasks is read, the length of a process being the sum over its tasks
so far. `ReadingInv` adds that nothing has run in the struct a reader of files
has just set up (`NothingRan`: `parse_plan` itself leaves lateness, stress and
plan state as they are), and `PlanEnd` then shows that `PlanIsRead`: what is left is the
initial state of `PBScheduler` for the plan of the file. `PlanSignalInv` gives
`SignalsOfPlanAreOrdered`: creating a plan makes the signals of the running plan none,
every tick adds at most one, of its own tick, and the plan whose ticks
`parse_plan` sets back to 0 has not run any.

The theorems about one plan are carried over to the program. `R` is `PreemptionProofs` for
the plans that files give, with sizes `PlanTasks` and `PlanProcesses` that are arbitrary. A file is
`Runnable` when its plan starts with a task, has no two free slots in a row and no negative
length; `SizesAreSound` shows that these plans meet `PlanAssumption`, so the assumption about plans
is discharged for them. `Init` of the scheduler is split for this: `PlanIsLoaded` says how the
struct begins, and nothing about the signal buffer, which is global and not empty here.
`PlanInv` is the inductive invariant of one plan without the buffer (`LoadedPlanInv`, `NextPlanInv`),
`PlanIsSafe` what it shows. `ReadLoads` proves that the end of `parse_plan` loads a plan (the
lengths of the sentinel are what the struct held: `UnreadInv`, they are not negative), and
`TickKeepsPlan` that a `Tick` of the program is a `Next` of the scheduler. Hence
`FullRunCorrect`: up to the last tick of `full_run` the plan is as safe as
`PBScheduler` shows of one plan, and the loop ends at the sentinel; and `FullRunImplements`,
the refinement: the end of `parse_plan` loads a plan of `PBScheduler` and every later step of the
program is one of its ticks or leaves the plan alone.

**Only model-checked.** Liveness (`EveryTaskFinishes`, `MainReturns`, the fairness of
`ImplementsPlanExecution`), which is out of the prover's reach. That t2 is out of reach is proved only
under the conditions above, and no run checks it (at the scale of the runs t2 is beyond a whole plan). For slots
that `signal_tm2` has shrunk nothing is known: a slot may hold what it took under its old length, and no bound
on it was proved; for plans that are not spread or have more tasks in a process it is not true in
general. `UnitTestsPass`, `DemonstrationsShow` and `TestRunPasses` are about single runs of the
program at one scale. `AssertionsHold` includes the plan whose real lengths `test_run` sets by hand
(`main.c:442`), and says nothing of how short a task may get, so it stays with the files of that
run; within a plan, and so within `full_run`, `TickAsserts` is its proved form. For plans that
are not spread, `OrderIsKept`, `SlotStacks` and `SlotOverrunBounded` are false.

## Not modelled

`userland_only_helper.c` and the print functions only produce output (except for
`print_signals`, whose choice of entries is modelled); `kernel_dummies.h` and `helper/` adapt the source
to the kernel. In `main.c` the unused function `run`, `check_thresholds`, which changes
nothing, and printing are left out. The parser's reading of the characters of a
number is one symbol, and malformed texts are not read. `task->lateness`, `finished_tasks`,
`num_tasks_remaining`, `lateness_balancer` and `does_task_turn_late` have no effect on
anything else. Arithmetic is unbounded: the counters are 64-bit
longs, and the largest product of the code (a planned length times 175, or a
buffer times 110 and 50) stays far below their range for lengths in instructions.

Noted while modelling, without a run: the comment on `test_run` (`main.c:414`) says that it
runs the full remaining plan, which it does not; `add_signal` wraps at a literal 100 where
the rest of the file has `SIZE_SIG_BUFFER`, which is 100 too (in the model the operator `WRAP_AROUND`, equal
to the constant as in the source; its variants `WRAP_AROUND_LONG` and `WRAP_AROUND_SHORT`, a literal and a buffer size
that differ, are found by `SignalTypeOK` and `ImplementsSignalHistory`); `config.h:26` calls `T2_TASK_SIGNALING_LIMIT` the
maximum of t2 of a task, which `calculate_t2_task` does not apply; the last process of the table is never
a candidate for a free slot, because its place in `next_tasks` is the -2 that ends the array (`UnallocatedSlot`);
the process `parse_meta` writes "for unallocated time slots"
(`parse_plan.c:92`) is `processes[num_processes]`, while `update_cur_process` uses the last of the table.

## Plan

1. Core: scheduler, preemption, thresholds, signals, `start_run`, unallocated slots, with
   the proofs of the list operations and the signal buffer (done).
2. The parser, and the program that drives parser, scheduler and signals through one plan after
   the other; the meaning of lateness and of the stale totals; proofs of the thresholds and of
   the order of signals (done).
3. Proofs of the counters and totals, of preemptions, stacks, order and overrun, of the
   safety part of the refinement of `PlanExecution`, of unallocated slots, and of the
   parser and the signals within the program (done).
4. Proofs of the ticks a plan takes and of its end, of overrun and t2 after signals, of the
   assertions within a run, and of `full_run` as an implementation of the scheduler (done).
5. Left: t2 of slots that were shrunk, what holds of stacks and order in plans that are not
   spread, and the ticks of `test_run` as steps of the scheduler, which its assignments to the real
   lengths keep apart from a plan chosen in `Init`.
