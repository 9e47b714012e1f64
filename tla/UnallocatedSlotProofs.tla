------------------------- MODULE UnallocatedSlotProofs -------------------------
(***************************************************************************)
(* Proofs about handle_unallocated_slot for every plan whose first entry   *)
(* is a free slot, whichever of its tasks were preempted and however late  *)
(* the processes are.                                                      *)
(***************************************************************************)
EXTENDS UnallocatedSlot, TLAPS

(* Before the call the list is as it was parsed; after it only the order   *)
(* of the tasks of each process is known.                                  *)
CallInv ==
  /\ pid \in [Indices -> Processes \cup {FREE_PID, END_PID}]
  /\ pid[0] = FREE_PID
  /\ pid[END] = END_PID
  /\ outcome = "not called" => tasks = [i \in Indices |-> i]
  /\ SubstitutionKeepsOrder

LEMMA InitCallInv == Init => CallInv
<1> SUFFICES ASSUME Init PROVE CallInv
  OBVIOUS
<1>1. PICK s \in Situations : pid = s.pid
  BY DEF Init
<1>2. s \in SituationType /\ s.pid[0] = FREE_PID /\ s.pid[END] = END_PID
  BY <1>1, SituationAssumption DEF Indices, END
<1>3. pid \in [Indices -> Processes \cup {FREE_PID, END_PID}]
  BY <1>1, <1>2 DEF SituationType
<1>4. tasks = [i \in Indices |-> i]
  BY DEF Init
<1>5. SubstitutionKeepsOrder
  BY <1>4 DEF SubstitutionKeepsOrder, Listed
<1> QED
  BY <1>1, <1>2, <1>3, <1>4, <1>5 DEF CallInv

(* The list after a call that finds the task at i to run in the slot: the  *)
(* task is the first of its process, everything in front of it stays, and  *)
(* everything behind it, with the sentinel, is one place further ahead.    *)
LEMMA SubstituteMoves ==
  ASSUME CallInv, Substitute
  PROVE  \E i \in 1 .. NumTasks - 1 :
           /\ tasks' = replace_unallocated_slot(i)
           /\ pid[i] \in Processes
           /\ \A j \in 0 .. i - 1 : pid[j] # pid[i]
           /\ tasks'[0] = i
           /\ \A j \in 1 .. i - 1 : tasks'[j] = j
           /\ \A j \in i .. NumTasks - 1 : tasks'[j] = j + 1
           /\ tasks'[NumTasks] = END
<1>1. NumTasks \in Nat \ {0} /\ NumProcesses \in Nat \ {0}
  BY SituationAssumption
<1>2. tasks = [i \in Indices |-> i] /\ Indices = 0 .. NumTasks
  BY DEF CallInv, Substitute, Indices
<1>3. PICK i \in Indices : IsSubstitution(i) /\ tasks' = replace_unallocated_slot(i)
  BY DEF Substitute
<1>4. IsNextTask(i)
  BY <1>3 DEF IsSubstitution, Candidates
<1>5. pid[i] \in Processes /\ \A j \in 0 .. i - 1 : pid[j] # pid[i]
  <2>1. \A j \in 0 .. i - 1 : j \in Indices
    BY <1>1, <1>2
  <2> QED
    BY <1>2, <1>4, <2>1 DEF IsNextTask
<1>6. FREE_PID \notin Processes /\ END_PID \notin Processes
  BY <1>1 DEF FREE_PID, END_PID, Processes
<1>7. i # 0 /\ i # NumTasks
  <2>1. pid[0] \notin Processes /\ pid[NumTasks] \notin Processes
    BY <1>6 DEF CallInv, END
  <2> QED
    BY <1>5, <2>1
<1>8. i \in 1 .. NumTasks - 1
  BY <1>1, <1>2, <1>7
<1>9. \A j \in Indices : tasks'[j] = IF j \in i .. NumTasks - 1 THEN tasks[j + 1]
                                     ELSE IF j = 0 THEN tasks[i] ELSE tasks[j]
  BY <1>3 DEF replace_unallocated_slot
<1>10. /\ tasks'[0] = i
       /\ \A j \in 1 .. i - 1 : tasks'[j] = j
       /\ \A j \in i .. NumTasks - 1 : tasks'[j] = j + 1
       /\ tasks'[NumTasks] = END
  <2>1. tasks'[0] = i
    BY <1>1, <1>2, <1>8, <1>9
  <2>2. \A j \in 1 .. i - 1 : tasks'[j] = j
    <3>1. \A j \in 1 .. i - 1 : j \in Indices /\ j # 0 /\ j \notin i .. NumTasks - 1
      BY <1>1, <1>2, <1>8
    <3> QED
      BY <1>2, <1>9, <3>1
  <2>3. \A j \in i .. NumTasks - 1 : tasks'[j] = j + 1
    <3>1. \A j \in i .. NumTasks - 1 : j \in Indices /\ j + 1 \in Indices
      BY <1>1, <1>2, <1>8
    <3> QED
      BY <1>2, <1>9, <3>1
  <2>4. tasks'[NumTasks] = END
    <3>1. NumTasks \in Indices /\ NumTasks # 0 /\ NumTasks \notin i .. NumTasks - 1
      BY <1>1, <1>2
    <3> QED
      BY <1>2, <1>9, <3>1 DEF END
  <2> QED
    BY <2>1, <2>2, <2>3, <2>4
<1> QED
  BY <1>3, <1>5, <1>8, <1>10

(* Only the slots in front of the sentinel are listed: one less than       *)
(* before.                                                                 *)
LEMMA SubstituteLists ==
  ASSUME CallInv, Substitute
  PROVE  Listed(tasks') = 0 .. NumTasks - 2
<1>1. NumTasks \in Nat \ {0} /\ Indices = 0 .. NumTasks
  BY SituationAssumption DEF Indices
<1>2. PICK i \in 1 .. NumTasks - 1 :
        /\ tasks'[0] = i
        /\ \A j \in 1 .. i - 1 : tasks'[j] = j
        /\ \A j \in i .. NumTasks - 1 : tasks'[j] = j + 1
  BY SubstituteMoves
<1>3. \A j \in 0 .. NumTasks - 2 : tasks'[j] # NumTasks
  <2> SUFFICES ASSUME NEW j \in 0 .. NumTasks - 2 PROVE tasks'[j] # NumTasks
    OBVIOUS
  <2>1. j = 0 \/ j \in 1 .. i - 1 \/ j \in i .. NumTasks - 1
    BY <1>1
  <2> QED
    BY <1>1, <1>2, <2>1
<1>4. tasks'[NumTasks - 1] = NumTasks
  BY <1>1, <1>2
<1>5. ASSUME NEW j \in Indices
      PROVE  (\A m \in 0 .. j : tasks'[m] # NumTasks) <=> j \in 0 .. NumTasks - 2
  <2>1. CASE j \in 0 .. NumTasks - 2
    <3>1. \A m \in 0 .. j : m \in 0 .. NumTasks - 2
      BY <1>1, <2>1
    <3> QED
      BY <1>3, <2>1, <3>1
  <2>2. CASE j \notin 0 .. NumTasks - 2
    <3>1. NumTasks - 1 \in 0 .. j
      BY <1>1, <2>2
    <3> QED
      BY <1>4, <2>2, <3>1
  <2> QED
    BY <2>1, <2>2
<1>6. 0 .. NumTasks - 2 \subseteq Indices
  BY <1>1
<1> QED
  BY <1>5, <1>6 DEF Listed, END

LEMMA SubstituteKeepsOrder ==
  ASSUME CallInv, Substitute
  PROVE  SubstitutionKeepsOrder'
<1>1. NumTasks \in Nat \ {0}
  BY SituationAssumption
<1>2. Listed(tasks') = 0 .. NumTasks - 2 /\ pid' = pid
  BY SubstituteLists DEF Substitute
<1>3. PICK i \in 1 .. NumTasks - 1 :
        /\ \A j \in 0 .. i - 1 : pid[j] # pid[i]
        /\ tasks'[0] = i
        /\ \A j \in 1 .. i - 1 : tasks'[j] = j
        /\ \A j \in i .. NumTasks - 1 : tasks'[j] = j + 1
  BY SubstituteMoves
<1>4. ASSUME NEW a \in 0 .. NumTasks - 2, NEW b \in 0 .. NumTasks - 2, a < b,
             pid[tasks'[a]] = pid[tasks'[b]]
      PROVE  tasks'[a] < tasks'[b]
  <2>1. b \in 1 .. i - 1 \/ b \in i .. NumTasks - 1
    BY <1>1, <1>4
  <2>2. CASE a = 0
    <3>1. b \notin 1 .. i - 1
      <4> SUFFICES ASSUME b \in 1 .. i - 1 PROVE FALSE
        OBVIOUS
      <4>1. b \in 0 .. i - 1
        BY <1>1
      <4> QED
        BY <1>3, <1>4, <2>2, <4>1
    <3> QED
      BY <1>1, <1>3, <2>1, <2>2, <3>1
  <2>3. CASE a # 0
    <3>1. a \in 1 .. i - 1 \/ a \in i .. NumTasks - 1
      BY <1>1, <2>3
    <3>2. a < b /\ a \in Int /\ b \in Int
      BY <1>4
    <3>3. tasks'[a] = a \/ (tasks'[a] = a + 1 /\ a >= i)
      BY <1>1, <1>3, <3>1
    <3>4. (tasks'[b] = b /\ b < i) \/ tasks'[b] = b + 1
      BY <1>1, <1>3, <2>1
    <3> QED
      BY <1>1, <3>2, <3>3, <3>4
  <2> QED
    BY <2>2, <2>3
<1>5. SubstitutionKeepsOrder' <=>
        \A a, b \in Listed(tasks') :
          a < b /\ pid'[tasks'[a]] \in Processes /\ pid'[tasks'[a]] = pid'[tasks'[b]]
            => tasks'[a] < tasks'[b]
  BY DEF SubstitutionKeepsOrder, Listed
<1> QED
  BY <1>2, <1>4, <1>5

LEMMA NextCallInv == CallInv /\ [handle_unallocated_slot]_vars => CallInv'
<1>1. ASSUME CallInv, UNCHANGED <<pid, tasks>>, outcome' # "not called" \/ outcome' = outcome
      PROVE  CallInv'
  BY <1>1 DEF CallInv, SubstitutionKeepsOrder, Listed
<1>2. ASSUME CallInv, UNCHANGED vars PROVE CallInv'
  BY <1>1, <1>2 DEF vars
<1>3. ASSUME CallInv, NothingToSubstitute PROVE CallInv'
  BY <1>1, <1>3 DEF NothingToSubstitute
<1>4. ASSUME CallInv, Substitute PROVE CallInv'
  <2>1. outcome' # "not called" /\ pid' = pid
    BY <1>4 DEF Substitute
  <2>2. SubstitutionKeepsOrder'
    BY <1>4, SubstituteKeepsOrder
  <2> QED
    BY <1>4, <2>1, <2>2 DEF CallInv
<1> QED
  BY <1>2, <1>3, <1>4 DEF handle_unallocated_slot

LEMMA SpecCallInv == Spec => []CallInv
BY InitCallInv, NextCallInv, PTL DEF Spec

(* order_is_kept after a substitution, for every plan: the task brought    *)
(* forward is the first of its process, so it passes none of its own.      *)
THEOREM SubstitutionOrderCorrect == Spec => []SubstitutionKeepsOrder
<1>1. CallInv => SubstitutionKeepsOrder
  BY DEF CallInv
<1> QED
  BY <1>1, SpecCallInv, PTL

(* The list after a substitution ends one place earlier and still holds    *)
(* every task of the plan.                                                 *)
THEOREM SubstitutionTasksCorrect == Spec => SubstitutionKeepsTasks
<1>1. ASSUME CallInv, Substitute
      PROVE  /\ Listed(tasks') = 0 .. NumTasks - 2
             /\ \A i \in 1 .. NumTasks - 1 : \E j \in Listed(tasks') : tasks'[j] = tasks[i]
  <2>1. NumTasks \in Nat \ {0}
    BY SituationAssumption
  <2>2. tasks = [i \in Indices |-> i] /\ Indices = 0 .. NumTasks
    BY <1>1 DEF CallInv, Substitute, Indices
  <2>3. Listed(tasks') = 0 .. NumTasks - 2
    BY <1>1, SubstituteLists
  <2>4. PICK i \in 1 .. NumTasks - 1 :
          /\ tasks'[0] = i
          /\ \A j \in 1 .. i - 1 : tasks'[j] = j
          /\ \A j \in i .. NumTasks - 1 : tasks'[j] = j + 1
    BY <1>1, SubstituteMoves
  <2>5. ASSUME NEW m \in 1 .. NumTasks - 1
        PROVE  \E j \in 0 .. NumTasks - 2 : tasks'[j] = tasks[m]
    <3>1. tasks[m] = m
      BY <2>1, <2>2
    <3>2. CASE m = i
      <4>1. 0 \in 0 .. NumTasks - 2
        BY <2>1
      <4> QED
        BY <2>4, <3>1, <3>2, <4>1
    <3>3. CASE m < i
      <4>1. m \in 1 .. i - 1 /\ m \in 0 .. NumTasks - 2
        BY <2>1, <3>3
      <4> QED
        BY <2>4, <3>1, <4>1
    <3>4. CASE m > i
      <4>1. m - 1 \in i .. NumTasks - 1 /\ m - 1 \in 0 .. NumTasks - 2 /\ m - 1 + 1 = m
        BY <2>1, <3>4
      <4> QED
        BY <2>4, <3>1, <4>1
    <3> QED
      BY <2>1, <3>2, <3>3, <3>4
  <2> QED
    BY <2>3, <2>5
<1>2. ASSUME CallInv, handle_unallocated_slot, outcome' = "replaced" PROVE Substitute
  BY <1>2 DEF handle_unallocated_slot, NothingToSubstitute
<1>3. CallInv /\ [handle_unallocated_slot]_vars =>
        [outcome' = "replaced" =>
           /\ Listed(tasks') = 0 .. NumTasks - 2
           /\ \A i \in 1 .. NumTasks - 1 :
                \E j \in Listed(tasks') : tasks'[j] = tasks[i]]_vars
  BY <1>1, <1>2
<1> QED
  BY <1>3, SpecCallInv, PTL DEF Spec, SubstitutionKeepsTasks
=============================================================================
