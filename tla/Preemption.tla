------------------------------ MODULE Preemption ------------------------------
(***************************************************************************)
(* The list operations of prediction_failure_handling.c.  A plan list is   *)
(* a function list from 0 .. end to plan entries, list[end] being the      *)
(* sentinel; pid gives the process of an entry and owner the entry in      *)
(* whose slot it runs.                                                     *)
(*                                                                         *)
(* Here and in the other modules a name that ends in a word in capitals is *)
(* a variant of the definition that follows it, with a bug one might well  *)
(* make.  The specification does not use it: substituted for the original  *)
(* it shows that a property notices the bug.                               *)
(***************************************************************************)
EXTENDS Integers

(* Variant: stops at the first task of another process.                    *)
IsInsertionSlot_ANY(list, pid, cur, end, k) ==
  /\ k \in cur + 1 .. end - 2
  /\ pid[list[k]] # pid[list[cur]]
  /\ \A j \in cur .. k - 1 : pid[list[j]] = pid[list[cur]]

(* k is the index find_slot_to_move_to returns for the task at cur: the    *)
(* tasks of its process that follow it directly are skipped, and k + 1 is  *)
(* the next task of the process after them.  No such k: the result is -2.  *)
IsInsertionSlot(list, pid, cur, end, k) ==
  /\ k \in cur + 1 .. end - 2
  /\ pid[list[k + 1]] = pid[list[cur]]
  /\ \E gap \in cur + 1 .. k :
       /\ \A j \in cur .. gap - 1 : pid[list[j]] = pid[list[cur]]
       /\ \A j \in gap .. k : pid[list[j]] # pid[list[cur]]

(* Variant: only the preempted task moves.                                 *)
IsStackSize_ONE(list, pid, owner, cur, end, s) == s = 1

(* s is the number of tasks that move with the task at cur: it and the     *)
(* tasks behind it that belong to the same process and the same slot.      *)
IsStackSize(list, pid, owner, cur, end, s) ==
  LET together(j) == /\ pid[list[j]] = pid[list[cur]]
                     /\ owner[list[j]] = owner[list[cur]]
  IN  /\ s \in 1 .. end - cur
      /\ \A j \in cur .. cur + s - 1 : together(j)
      /\ ~ together(cur + s)

(* Variant: the tasks in between move forward by one place.                *)
move_tasks_SHIFT(list, cur, s, k) ==
  [i \in DOMAIN list |->
     IF i \in k - s + 1 .. k THEN list[cur + (i - (k - s + 1))]
     ELSE IF i \in cur .. k - s THEN list[i + 1]
     ELSE list[i]]

(* The list after move_tasks: the tasks between the stack and k move s     *)
(* places forward, and the stack is written to the s places that end at k. *)
move_tasks(list, cur, s, k) ==
  [i \in DOMAIN list |->
     IF i \in k - s + 1 .. k THEN list[cur + (i - (k - s + 1))]
     ELSE IF i \in cur .. k - s THEN list[i + s]
     ELSE list[i]]

(* Variant: takes the slot of the task at the insertion slot itself.       *)
move_slots_BEFORE(owner, list, cur, s, k) ==
  [e \in DOMAIN owner |->
     IF \E j \in cur .. cur + s - 1 : list[j] = e THEN list[k] ELSE owner[e]]

(* Variant: the tasks keep the slot they had.                              *)
move_slots_NONE(owner, list, cur, s, k) == owner

(* The slot of every task of the stack becomes that of the task behind k. *)
move_slots(owner, list, cur, s, k) ==
  [e \in DOMAIN owner |->
     IF \E j \in cur .. cur + s - 1 : list[j] = e THEN list[k + 1] ELSE owner[e]]
=============================================================================
