---------------------------- MODULE PlanExecution ----------------------------
(***************************************************************************)
(* What level two promises to the processes of a plan, without slots,      *)
(* lists and thresholds: one task runs at a time, a finished task stays    *)
(* finished, a process runs its tasks in the order of the plan, a          *)
(* preemption gives way to another process, and every task is finished.    *)
(***************************************************************************)
EXTENDS Integers

CONSTANT None  \* no task is running

VARIABLES
  process,   \* the process of each task, tasks being numbered in plan order
  finished,  \* the tasks that are done
  running    \* the task that runs, None at the end

executionVars == <<process, finished, running>>

(* The tasks a process may run next when the tasks done are finished. *)
Eligible(done) ==
  {t \in DOMAIN process \ done :
     \A u \in DOMAIN process \ done : process[u] = process[t] => t <= u}

Init ==
  /\ finished = {}
  /\ running \in Eligible({})

Finish ==
  /\ running # None
  /\ finished' = finished \cup {running}
  /\ IF Eligible(finished') = {} THEN running' = None
                                 ELSE running' \in Eligible(finished')
  /\ UNCHANGED process

Preempt ==
  /\ running # None
  /\ running' \in Eligible(finished)
  /\ process[running'] # process[running]
  /\ UNCHANGED <<process, finished>>

Next == Finish \/ Preempt

(* However often a task is preempted, tasks keep finishing. *)
Spec == Init /\ [][Next]_executionVars /\ WF_executionVars(Finish)
=============================================================================
