---------------------------- MODULE UnallocatedSlot ----------------------------
(***************************************************************************)
(* handle_unallocated_slot of pb-scheduler.c: a free slot at the head of   *)
(* the plan is given to a preempted task.  Only the unit tests of main.c   *)
(* call it; pbs_run_timer_tick skips free slots with handle_free_slot.     *)
(* Entries are named as in PBScheduler, by their index in the plan the     *)
(* call is given.                                                          *)
(***************************************************************************)
EXTENDS Integers

CONSTANTS
  MAX_NUMBER_PROCESSES,  \* length of p->processes and of next_tasks
  NumTasks,              \* length of the list before the call
  NumProcesses,
  Situations             \* the plans the call may be given

VARIABLES
  pid,            \* task->process_id, by entry
  tasks,          \* p->tasks
  was_preempted,  \* task->was_preempted, by entry
  slot_owner,     \* task->slot_owner, by entry
  lateness,       \* process->lateness, by process
  outcome         \* of the call

vars == <<pid, tasks, was_preempted, slot_owner, lateness, outcome>>

END == NumTasks
Indices == 0 .. NumTasks
Processes == 0 .. NumProcesses - 1
FREE_PID == -1
END_PID == -2

SituationType == [pid           : [Indices -> Processes \cup {FREE_PID, END_PID}],
                  was_preempted : [Indices -> Nat],
                  slot_owner    : [Indices -> Indices],
                  lateness      : [Processes -> Int]]

(* The call finds a free slot at the head of the list, and next_tasks has  *)
(* a place for every process.                                              *)
ASSUME SituationAssumption ==
  /\ NumTasks \in Nat \ {0}
  /\ NumProcesses \in Nat \ {0}
  /\ MAX_NUMBER_PROCESSES \in Nat
  /\ NumProcesses <= MAX_NUMBER_PROCESSES
  /\ \A s \in Situations : /\ s \in SituationType
                           /\ s.pid[0] = FREE_PID
                           /\ \A e \in Indices : s.pid[e] = END_PID <=> e = END

Init ==
  /\ \E s \in Situations : /\ pid = s.pid
                           /\ was_preempted = s.was_preempted
                           /\ slot_owner = s.slot_owner
                           /\ lateness = s.lateness
  /\ tasks = [i \in Indices |-> i]
  /\ outcome = "not called"

-----------------------------------------------------------------------------
(* Variant: any task of a process instead of the next one.                 *)
IsNextTask_ANY(i) == pid[tasks[i]] \in Processes

(* find_next_task_for_all_processes: at i is the next task of its process. *)
IsNextTask(i) ==
  /\ pid[tasks[i]] \in Processes
  /\ \A j \in 0 .. i - 1 : pid[tasks[j]] # pid[tasks[i]]

(* What it leaves in next_tasks: the next task of each process or -1.  The *)
(* last place is overwritten with the end of the array, task id -2,        *)
(* whatever was found for that process.                                    *)
next_tasks ==
  [q \in 0 .. MAX_NUMBER_PROCESSES - 1 |->
     LET found == {i \in Indices : IsNextTask(i) /\ pid[tasks[i]] = q}
     IN  IF q = MAX_NUMBER_PROCESSES - 1 THEN -2
         ELSE IF found = {} THEN -1
         ELSE CHOOSE i \in found : TRUE]

(* find_substitution_task: of the next tasks that were preempted, the one  *)
(* of the latest process; a process that is not late is not considered.    *)
Candidates ==
  {i \in Indices : /\ IsNextTask(i)
                   /\ next_tasks[pid[tasks[i]]] # -2
                   /\ was_preempted[tasks[i]] # 0
                   /\ lateness[pid[tasks[i]]] > 0}

IsSubstitution(i) ==
  /\ i \in Candidates
  /\ \A j \in Candidates :
       LET q == pid[tasks[i]]
           r == pid[tasks[j]]
       IN  lateness[r] < lateness[q] \/ (lateness[r] = lateness[q] /\ q <= r)

(* Variant: moves the task at the index itself forward, too.               *)
replace_unallocated_slot_EARLY(i) ==
  [j \in Indices |-> IF j = 0 THEN tasks[i]
                     ELSE IF j \in i - 1 .. NumTasks - 1 THEN tasks[j + 1]
                     ELSE tasks[j]]

(* replace_unallocated_slot_in_plan: the task at i takes the place of the  *)
(* free slot, everything behind it, up to the sentinel, moves forward.     *)
replace_unallocated_slot(i) ==
  [j \in Indices |-> IF j \in i .. NumTasks - 1 THEN tasks[j + 1]
                     ELSE IF j = 0 THEN tasks[i]
                     ELSE tasks[j]]

(* clear_preemption gets the pointer to index i after the list has moved.  *)
Substitute ==
  /\ outcome = "not called"
  /\ \E i \in Indices :
       /\ IsSubstitution(i)
       /\ tasks' = replace_unallocated_slot(i)
       /\ was_preempted' = [was_preempted EXCEPT ![tasks'[i]] = 0]
       /\ slot_owner' = [slot_owner EXCEPT ![tasks'[i]] = tasks'[i]]
  /\ outcome' = "replaced"
  /\ UNCHANGED <<pid, lateness>>

(* find_substitution_task returns NULL, which is dereferenced: undefined   *)
(* behaviour, in practice the end of the run.                              *)
NothingToSubstitute ==
  /\ outcome = "not called"
  /\ Candidates = {}
  /\ outcome' = "null pointer"
  /\ UNCHANGED <<pid, tasks, was_preempted, slot_owner, lateness>>

handle_unallocated_slot == Substitute \/ NothingToSubstitute

Spec == Init /\ [][handle_unallocated_slot]_vars

-----------------------------------------------------------------------------
(* The slots of the list in front of the sentinel. *)
Listed(list) == {i \in Indices : \A j \in 0 .. i : list[j] # END}

(* A substitution keeps every task exactly once: the list only loses the   *)
(* free slot, so the run still executes every task and ends.               *)
SubstitutionKeepsTasks ==
  [][outcome' = "replaced" =>
       /\ Listed(tasks') = 0 .. NumTasks - 2
       /\ \A i \in 1 .. NumTasks - 1 : \E j \in Listed(tasks') : tasks'[j] = tasks[i]]_vars

(* order_is_kept: the tasks of a process stay in order, although one of    *)
(* them is brought forward past others.                                    *)
SubstitutionKeepsOrder ==
  \A i, j \in Listed(tasks) :
    i < j /\ pid[tasks[i]] \in Processes /\ pid[tasks[i]] = pid[tasks[j]]
      => tasks[i] < tasks[j]

(* handle_unallocated_slot: next_task_to_run, the "task that is preempted  *)
(* & most late", is the task whose preemption is cleared, and no other.    *)
PreemptionIsCleared ==
  [][outcome' = "replaced" =>
       \A e \in Indices \ {END} :
         IF e = tasks'[0] THEN was_preempted'[e] = 0 /\ slot_owner'[e] = e
         ELSE was_preempted'[e] = was_preempted[e] /\ slot_owner'[e] = slot_owner[e]]_vars
=============================================================================
