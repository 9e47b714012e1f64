---------------------------- MODULE MCPBScheduler ----------------------------
(***************************************************************************)
(* Plans for the model checker.                                            *)
(***************************************************************************)
EXTENDS PBScheduler

CONSTANTS
  Lengths,  \* the <<planned, real>> pairs a task may have
  Spread    \* may tasks of a process be next to each other only at the end?

MCBuffer == [q \in Processes |-> 20]

(* Planned length of every free slot. *)
MCFreeLength == 30

PidFunctions ==
  {pid \in [Indices -> Processes \cup {FREE_PID, END_PID}] :
     /\ pid[END] = END_PID
     /\ pid[0] \in Processes
     /\ \A e \in Entries : pid[e] # END_PID
     /\ \A e \in Entries : pid[e] = FREE_PID => pid[e + 1] # FREE_PID}

PlanOf(pid, length) ==
  [pid |-> pid,
   planned |-> [e \in Indices |-> IF pid[e] \in Processes THEN length[e][1]
                                  ELSE IF e = END THEN 0 ELSE MCFreeLength],
   real |-> [e \in Indices |-> IF pid[e] \in Processes THEN length[e][2] ELSE 0],
   buffer |-> MCBuffer]

MCPlans ==
  {PlanOf(pid, length) :
     pid \in {pid \in PidFunctions : Spread => IsSpread(pid)},
     length \in [Entries -> Lengths]}

(* <<planned, real>> of tasks that are on time, that are early enough for  *)
(* t-2, and that are late enough to be preempted several times and for t2; *)
(* a tick retires 10.                                                      *)
MCLengths == {<<20, 20>>, <<40, 10>>, <<20, 80>>}

(* Fewer kinds for longer plans. *)
MCLengthsOfLongPlans == {<<40, 10>>, <<20, 80>>}

(* Tasks planned for one tick that take one, two and six: two of them may  *)
(* finish in the slot of a third before t1 of this slot is checked.        *)
MCTickLengths == {<<10, 10>>, <<10, 20>>, <<10, 60>>}
=============================================================================
