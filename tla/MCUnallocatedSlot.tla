--------------------------- MODULE MCUnallocatedSlot ---------------------------
(***************************************************************************)
(* Situations for the model checker: every distribution of the tasks over  *)
(* the processes and free slots; of the tasks of each process the first    *)
(* none, one or two were preempted into the slot of the next one.          *)
(***************************************************************************)
EXTENDS UnallocatedSlot

PidFunctions ==
  {p \in [Indices -> Processes \cup {FREE_PID, END_PID}] :
     /\ p[0] = FREE_PID
     /\ \A e \in Indices : p[e] = END_PID <=> e = END}

(* How many tasks of its process e has before and behind it.               *)
Before(p, e) == {f \in 0 .. e - 1 : p[f] = p[e]}
Later(p, e) == {f \in e + 1 .. NumTasks - 1 : p[f] = p[e]}

(* The stack of process q has height[q] preempted tasks, as far as a slot  *)
(* is left for them.                                                       *)
InStack(p, height, e) ==
  /\ p[e] \in Processes
  /\ Later(p, e) # {}
  /\ \/ height[p[e]] >= 1 /\ Before(p, e) = {}
     \/ height[p[e]] >= 2 /\ \A f, g \in Before(p, e) : f = g

(* The owner of the stack is the first task that is not in it.             *)
Owner(p, height, e) ==
  IF InStack(p, height, e)
  THEN CHOOSE f \in Later(p, e) :
         /\ ~ InStack(p, height, f)
         /\ \A g \in Later(p, e) : InStack(p, height, g) \/ f <= g
  ELSE e

MCSituations ==
  {[pid |-> p,
    was_preempted |-> [e \in Indices |-> IF InStack(p, height, e) THEN 1 ELSE 0],
    slot_owner |-> [e \in Indices |-> Owner(p, height, e)],
    lateness |-> late] :
     p \in PidFunctions, height \in [Processes -> 0 .. 2], late \in [Processes -> -1 .. 2]}
=============================================================================
