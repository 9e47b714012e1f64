---------------------------- MODULE Level2Proofs ----------------------------
(***************************************************************************)
(* Proofs about the program, for every plan file and every size of the     *)
(* tables: parse_plan stays in the text and the tables, what it reads is   *)
(* the plan of the file, the signals of a plan stay in order although the  *)
(* buffer outlives the plans, and the plan that is run keeps what is       *)
(* proved of the scheduler.                                                *)
(***************************************************************************)
EXTENDS Level2, CommonLemmas

CONSTANTS
  PlanTasks,      \* the numbers of tasks and of processes in a plan file,
  PlanProcesses   \* any two numbers

(* The numbers of processes and of tasks in a file.                        *)
NumBuffers(f) == Len(f.buffers)
NumEntries(f) == Len(f.tasks)

LEMMA FileType ==
  ASSUME NEW f \in Files
  PROVE  /\ NumBuffers(f) \in Nat
         /\ NumBuffers(f) < MAX_NUMBER_PROCESSES
         /\ NumEntries(f) \in Nat
         /\ NumEntries(f) < MAX_NUMBER_TASKS_IN_PLAN
         /\ \A r \in 1 .. NumBuffers(f) : f.buffers[r] \in Int
         /\ \A i \in 1 .. NumEntries(f) :
              f.tasks[i] \in [process_id : -1 .. NumBuffers(f) - 1, planned : Int, real : Int]
<1>1. f.buffers \in Seq(Int) /\ NumBuffers(f) < MAX_NUMBER_PROCESSES
  BY FilesAssumption DEF NumBuffers
<1>2. /\ f.tasks \in Seq([process_id : -1 .. NumBuffers(f) - 1, planned : Int, real : Int])
      /\ NumEntries(f) < MAX_NUMBER_TASKS_IN_PLAN
  BY FilesAssumption DEF NumBuffers, NumEntries
<1>3. NumBuffers(f) \in Nat /\ \A r \in 1 .. NumBuffers(f) : f.buffers[r] \in Int
  BY <1>1 DEF NumBuffers
<1> DEFINE T == [process_id : -1 .. NumBuffers(f) - 1, planned : Int, real : Int]
<1>4. NumEntries(f) \in Nat /\ \A i \in 1 .. NumEntries(f) : f.tasks[i] \in T
  <2>1. f.tasks \in Seq(T)
    BY <1>2
  <2> HIDE DEF T
  <2> QED
    BY <2>1 DEF NumEntries
<1> QED
  BY <1>1, <1>2, <1>3, <1>4

(* What is at each position of the text of a file.                         *)
LEMMA WrittenText ==
  ASSUME NEW f \in Files
  PROVE  LET q == NumBuffers(f)
             n == NumEntries(f)
             t == Written(f)
         IN  /\ DOMAIN t = 1 .. 4 * q + 8 * n + 5
             /\ t[1] = [symbol |-> NUMBER, value |-> q]
             /\ \A c \in 0 .. q - 1 :
                  /\ t[4 * c + 3] = [symbol |-> NUMBER, value |-> c]
                  /\ t[4 * c + 4].symbol = COMMA
                  /\ t[4 * c + 5] = [symbol |-> NUMBER, value |-> f.buffers[c + 1]]
                  /\ t[4 * c + 6].symbol = SEMI
             /\ t[4 * q + 3].symbol = SEMI
             /\ t[4 * q + 4].symbol = SEMI
             /\ \A i \in 0 .. n - 1 : \A m \in 0 .. 7 :
                  t[4 * q + 8 * i + 5 + m] = TaskText(f, i + 1)[m + 1]
<1> DEFINE q == NumBuffers(f)
           n == NumEntries(f)
           t == Written(f)
<1>1. q \in Nat /\ n \in Nat
  BY FileType
<1>2. DOMAIN t = 1 .. 4 * q + 8 * n + 5
  BY DEF Written, NumBuffers, NumEntries
<1>3. t[1] = [symbol |-> NUMBER, value |-> q]
  <2>1. 1 \in 1 .. 4 * q + 8 * n + 5
    BY <1>1
  <2>2. t[1] = number(q)
    BY <2>1 DEF Written, NumBuffers, NumEntries
  <2> QED
    BY <2>2 DEF number
<1>4. ASSUME NEW c \in 0 .. q - 1
      PROVE  /\ t[4 * c + 3] = [symbol |-> NUMBER, value |-> c]
             /\ t[4 * c + 4].symbol = COMMA
             /\ t[4 * c + 5] = [symbol |-> NUMBER, value |-> f.buffers[c + 1]]
             /\ t[4 * c + 6].symbol = SEMI
  <2>1. \A m \in 0 .. 3 : t[4 * c + 3 + m] = ProcessText(f, c + 1)[m + 1]
    <3> SUFFICES ASSUME NEW m \in 0 .. 3
                 PROVE  t[4 * c + 3 + m] = ProcessText(f, c + 1)[m + 1]
      OBVIOUS
    <3> DEFINE k == 4 * c + 3 + m
    <3>1. c \in Int /\ m \in Int /\ 0 <= c /\ c <= q - 1 /\ 0 <= m /\ m <= 3
      BY <1>1
    <3>2. k \in 1 .. 4 * q + 8 * n + 5 /\ k # 1 /\ k \in 3 .. 4 * q + 2
      BY <1>1, <3>1
    <3>3. (k + 1) \div 4 = c + 1 /\ (k + 1) % 4 = m
      BY <3>1
    <3> HIDE DEF k
    <3>4. t[k] = ProcessText(f, c + 1)[m + 1]
      BY <3>2, <3>3 DEF Written, NumBuffers, NumEntries
    <3> QED
      BY <3>4 DEF k
  <2>2. /\ t[4 * c + 3 + 0] = number((c + 1) - 1)
        /\ t[4 * c + 3 + 1] = mark(COMMA)
        /\ t[4 * c + 3 + 2] = number(f.buffers[c + 1])
        /\ t[4 * c + 3 + 3] = mark(SEMI)
    BY <2>1 DEF ProcessText
  <2>3. /\ 4 * c + 3 + 0 = 4 * c + 3 /\ 4 * c + 3 + 1 = 4 * c + 4
        /\ 4 * c + 3 + 2 = 4 * c + 5 /\ 4 * c + 3 + 3 = 4 * c + 6
        /\ (c + 1) - 1 = c
    BY <1>1
  <2> QED
    BY <2>2, <2>3 DEF number, mark
<1>5. t[4 * q + 3].symbol = SEMI /\ t[4 * q + 4].symbol = SEMI
  <2> SUFFICES ASSUME NEW k \in {4 * q + 3, 4 * q + 4} PROVE t[k].symbol = SEMI
    OBVIOUS
  <2>1. /\ k \in 1 .. 4 * q + 8 * n + 5 /\ k # 1 /\ k \notin 3 .. 4 * q + 2
        /\ k \notin 4 * q + 5 .. 4 * q + 8 * n + 4 /\ k # 4 * q + 8 * n + 5
    BY <1>1
  <2>2. t[k] = mark(SEMI)
    BY <2>1 DEF Written, NumBuffers, NumEntries
  <2> QED
    BY <2>2 DEF mark
<1>6. ASSUME NEW i \in 0 .. n - 1
      PROVE  \A m \in 0 .. 7 : t[4 * q + 8 * i + 5 + m] = TaskText(f, i + 1)[m + 1]
  <2> SUFFICES ASSUME NEW m \in 0 .. 7
               PROVE  t[4 * q + 8 * i + 5 + m] = TaskText(f, i + 1)[m + 1]
    OBVIOUS
  <2> DEFINE k == 4 * q + 8 * i + 5 + m
  <2>1. i \in Int /\ m \in Int /\ 0 <= i /\ i <= n - 1 /\ 0 <= m /\ m <= 7
    BY <1>1
  <2>2. /\ k \in 1 .. 4 * q + 8 * n + 5 /\ k # 1 /\ k \notin 3 .. 4 * q + 2
        /\ k \in 4 * q + 5 .. 4 * q + 8 * n + 4
    BY <1>1, <2>1
  <2>3. (k - 4 * q + 3) \div 8 = i + 1 /\ (k - 4 * q + 3) % 8 = m
    <3>1. k - 4 * q + 3 = 8 * (i + 1) + m
      BY <1>1, <2>1
    <3> QED
      BY <2>1, <3>1
  <2> HIDE DEF k
  <2>4. t[k] = TaskText(f, i + 1)[m + 1]
    BY <2>2, <2>3 DEF Written, NumBuffers, NumEntries
  <2> QED
    BY <2>4 DEF k
<1> QED
  BY <1>2, <1>3, <1>4, <1>5, <1>6

LEMMA FileTaskIdType ==
  ASSUME NEW f \in Files, NEW i \in 1 .. NumEntries(f)
  PROVE  FileTaskId(f, i) \in Int
<1> DEFINE T == {j \in 1 .. i - 1 : f.tasks[j].process_id # -1}
<1>1. i \in Int
  BY FileType
<1>2. IsFiniteSet(1 .. i - 1)
  BY <1>1, FS_Interval
<1>3. IsFiniteSet(T)
  BY <1>2, FS_Subset
<1>4. Cardinality(T) \in Int
  BY <1>3, FS_CardinalityType
<1> QED
  BY <1>4 DEF FileTaskId

LEMMA TextIsSequence ==
  ASSUME NEW f \in Files
  PROVE  /\ Written(f) \in Seq(Symbols)
         /\ Len(Written(f)) = 4 * NumBuffers(f) + 8 * NumEntries(f) + 5
<1> DEFINE q == NumBuffers(f)
           n == NumEntries(f)
           t == Written(f)
<1>1. q \in Nat /\ n \in Nat
  BY FileType
<1>2. \A v \in Int : number(v) \in Symbols
  BY DEF number, Symbols
<1>3. \A m \in {COMMA, SEMI, NEWLINE} : mark(m) \in Symbols
  BY DEF mark, Symbols
<1>4. ASSUME NEW r \in 1 .. q, NEW m \in 1 .. 4 PROVE ProcessText(f, r)[m] \in Symbols
  <2>1. r - 1 \in Int /\ f.buffers[r] \in Int
    BY <1>1, FileType
  <2>2. /\ number(r - 1) \in Symbols /\ number(f.buffers[r]) \in Symbols
        /\ mark(COMMA) \in Symbols /\ mark(SEMI) \in Symbols
    BY <1>2, <1>3, <2>1
  <2>3. m \in {1, 2, 3, 4}
    OBVIOUS
  <2> QED
    BY <2>2, <2>3 DEF ProcessText
<1>5. ASSUME NEW i \in 1 .. n, NEW m \in 1 .. 8 PROVE TaskText(f, i)[m] \in Symbols
  <2>1. /\ f.tasks[i].process_id \in Int
        /\ f.tasks[i].planned \in Int
        /\ f.tasks[i].real \in Int
    BY <1>1, FileType
  <2>2. FileTaskId(f, i) \in Int
    BY FileTaskIdType
  <2>3. /\ number(f.tasks[i].process_id) \in Symbols /\ number(FileTaskId(f, i)) \in Symbols
        /\ number(f.tasks[i].planned) \in Symbols /\ number(f.tasks[i].real) \in Symbols
        /\ mark(COMMA) \in Symbols /\ mark(SEMI) \in Symbols
    BY <1>2, <1>3, <2>1, <2>2
  <2>4. m \in {1, 2, 3, 4, 5, 6, 7, 8}
    OBVIOUS
  <2> QED
    BY <2>3, <2>4 DEF TaskText
<1>6. ASSUME NEW k \in 1 .. 4 * q + 8 * n + 5 PROVE t[k] \in Symbols
  <2>1. CASE k = 1
    BY <1>1, <1>2, <2>1 DEF Written, NumBuffers, NumEntries
  <2>2. CASE k # 1 /\ k \in 3 .. 4 * q + 2
    <3>1. (k + 1) \div 4 \in 1 .. q /\ ((k + 1) % 4) + 1 \in 1 .. 4
      BY <1>1, <2>2
    <3>2. t[k] = ProcessText(f, (k + 1) \div 4)[((k + 1) % 4) + 1]
      BY <2>2 DEF Written, NumBuffers, NumEntries
    <3> QED
      BY <1>4, <3>1, <3>2
  <2>3. CASE k \notin 3 .. 4 * q + 2 /\ k \in 4 * q + 5 .. 4 * q + 8 * n + 4
    <3>1. k # 1
      BY <1>1, <2>3
    <3>2. (k - 4 * q + 3) \div 8 \in 1 .. n /\ ((k - 4 * q + 3) % 8) + 1 \in 1 .. 8
      BY <1>1, <2>3
    <3>3. t[k] = TaskText(f, (k - 4 * q + 3) \div 8)[((k - 4 * q + 3) % 8) + 1]
      BY <2>3, <3>1 DEF Written, NumBuffers, NumEntries
    <3> QED
      BY <1>5, <3>2, <3>3
  <2>4. CASE /\ k # 1 /\ k \notin 3 .. 4 * q + 2
             /\ k \notin 4 * q + 5 .. 4 * q + 8 * n + 4
    <3>1. t[k] = mark(IF k = 4 * q + 8 * n + 5 THEN NEWLINE ELSE SEMI)
      BY <2>4 DEF Written, NumBuffers, NumEntries
    <3> QED
      BY <1>3, <3>1
  <2> QED
    BY <2>1, <2>2, <2>3, <2>4
<1>7. t \in [1 .. 4 * q + 8 * n + 5 -> Symbols]
  <2>1. t = [k \in 1 .. 4 * q + 8 * n + 5 |-> t[k]]
    BY DEF Written, NumBuffers, NumEntries
  <2> QED
    BY <1>6, <2>1
<1>8. 4 * q + 8 * n + 5 \in Nat
  BY <1>1
<1> HIDE DEF q, n, t
<1>9. t \in Seq(Symbols) /\ Len(t) = 4 * q + 8 * n + 5
  BY <1>7, <1>8
<1> QED
  BY <1>9 DEF q, n, t

(* count_tasks counts the tasks of the file: every task ends in the only   *)
(* semicolon of its text.                                                  *)
LEMMA TasksAreCounted ==
  ASSUME NEW f \in Files
  PROVE  LET t == Written(f)
         IN  Cardinality({i \in 4 * NumBuffers(f) + 5 .. Len(t) : t[i].symbol = SEMI})
               = NumEntries(f)
<1> DEFINE q == NumBuffers(f)
           n == NumEntries(f)
           t == Written(f)
           semis == {i \in 4 * q + 5 .. Len(t) : t[i].symbol = SEMI}
           b == [i \in 1 .. n |-> 4 * q + 8 * i + 4]
<1>1. q \in Nat /\ n \in Nat /\ Len(t) = 4 * q + 8 * n + 5
  BY FileType, TextIsSequence
<1>2. ASSUME NEW i \in 0 .. n - 1, NEW m \in 0 .. 7
      PROVE  t[4 * q + 8 * i + 5 + m].symbol = SEMI <=> m = 7
  <2>1. t[4 * q + 8 * i + 5 + m] = TaskText(f, i + 1)[m + 1]
    BY WrittenText
  <2>2. m \in {0, 1, 2, 3, 4, 5, 6, 7}
    OBVIOUS
  <2>3. TaskText(f, i + 1)[m + 1].symbol = SEMI <=> m = 7
    BY <2>2 DEF TaskText, number, mark, NUMBER, COMMA, SEMI
  <2> QED
    BY <2>1, <2>3
<1>3. b \in [1 .. n -> semis]
  <2> SUFFICES ASSUME NEW i \in 1 .. n PROVE 4 * q + 8 * i + 4 \in semis
    OBVIOUS
  <2>1. i - 1 \in 0 .. n - 1 /\ 4 * q + 8 * (i - 1) + 5 + 7 = 4 * q + 8 * i + 4
    BY <1>1
  <2>2. 4 * q + 8 * i + 4 \in 4 * q + 5 .. Len(t)
    BY <1>1
  <2>3. t[4 * q + 8 * i + 4].symbol = SEMI
    BY <1>2, <2>1
  <2> QED
    BY <2>2, <2>3
<1>4. \A i, j \in 1 .. n : b[i] = b[j] => i = j
  BY <1>1
<1>5. ASSUME NEW k \in semis PROVE \E i \in 1 .. n : b[i] = k
  <2>1. k \in 4 * q + 5 .. 4 * q + 8 * n + 5 /\ t[k].symbol = SEMI
    BY <1>1
  <2>2. k # 4 * q + 8 * n + 5
    <3>1. ASSUME k = 4 * q + 8 * n + 5 PROVE FALSE
      <4>1. /\ k \in 1 .. 4 * q + 8 * n + 5 /\ k # 1 /\ k \notin 3 .. 4 * q + 2
            /\ k \notin 4 * q + 5 .. 4 * q + 8 * n + 4
        BY <1>1, <3>1
      <4>2. t[k] = mark(NEWLINE)
        BY <3>1, <4>1 DEF Written, NumBuffers, NumEntries
      <4> QED
        BY <2>1, <4>2 DEF mark, NEWLINE, SEMI
    <3> QED
      BY <3>1
  <2> DEFINE d == k - 4 * q - 5
  <2>3. d \in 0 .. 8 * n - 1 /\ k = 4 * q + 5 + d
    <3>1. q \in Int /\ n \in Int
      BY <1>1
    <3> HIDE DEF q, n, t, semis, b
    <3>2. k \in Int /\ k >= 4 * q + 5 /\ k <= 4 * q + 8 * n + 4
      BY <2>1, <2>2, <3>1
    <3> QED
      BY <3>1, <3>2
  <2> HIDE DEF d
  <2> DEFINE i == d \div 8
             m == d % 8
  <2>4. i \in 0 .. n - 1 /\ m \in 0 .. 7 /\ d = 8 * i + m
    BY <1>1, <2>3
  <2> HIDE DEF i, m
  <2> DEFINE o == 4 * q
  <2>5. k = 4 * q + 8 * i + 5 + m
    <3>1. o \in Int /\ i \in Int /\ m \in Int /\ d \in Int
      BY <1>1, <2>3, <2>4
    <3>2. k = o + 5 + d /\ d = 8 * i + m
      BY <2>3, <2>4
    <3> HIDE DEF o
    <3>3. k = o + 8 * i + 5 + m
      BY <3>1, <3>2
    <3> QED
      BY <3>3 DEF o
  <2>6. m = 7
    BY <1>2, <2>1, <2>4, <2>5
  <2>7. i + 1 \in 1 .. n /\ 4 * q + 8 * (i + 1) + 4 = k
    <3>1. o \in Int /\ i \in Int /\ i + 1 \in 1 .. n
      BY <1>1, <2>4
    <3>2. k = o + 8 * i + 5 + 7
      BY <2>5, <2>6
    <3> HIDE DEF o
    <3>3. o + 8 * (i + 1) + 4 = k
      BY <3>1, <3>2
    <3> QED
      BY <3>1, <3>3 DEF o
  <2> QED
    BY <2>7
<1>6. ExistsBijection(1 .. n, semis)
  <2> HIDE DEF semis, b
  <2>1. b \in Bijection(1 .. n, semis)
    BY <1>3, <1>4, <1>5 DEF Bijection, Injection, Surjection, IsInjective
  <2> QED
    BY <2>1 DEF ExistsBijection
<1>7. Cardinality(semis) = n
  <2> HIDE DEF semis
  <2> QED
    BY <1>1, <1>6, FS_CountingElements
<1> QED
  BY <1>7

-----------------------------------------------------------------------------
(* What a step of the program does to the parser: nothing, or it creates a *)
(* plan, begins to read a file, or goes on reading.                        *)
Stands == UNCHANGED <<parserVars, file>>
Creates == NewStruct /\ file' = NoFile /\ (ZeroTables \/ SetupTables)
Opens == \E f \in Files : file' = f /\ StartParsing(Written(f))
Reads == ParseStep /\ file' = file

LEMMA CallsStand ==
  /\ Tick => Stands
  /\ Preempt => Stands
  /\ \A factor, target_pid : Reschedule(factor, target_pid) => Stands
  /\ HandleUnallocatedSlot => Stands
  /\ \A list : OverwriteTasks(list) => Stands
  /\ \A real : SetReal(real) => Stands
  /\ ParsePlanEnd => Stands
  /\ Return => Stands
<1>1. Tick => Stands
  BY DEF Tick, Stands, driverVars
<1>2. Preempt => Stands
  BY DEF Preempt, Stands, driverVars
<1>3. \A factor, target_pid : Reschedule(factor, target_pid) => Stands
  BY DEF Reschedule, Stands, driverVars
<1>4. HandleUnallocatedSlot => Stands
  BY DEF HandleUnallocatedSlot, Stands, parserVars
<1>5. \A list : OverwriteTasks(list) => Stands
  BY DEF OverwriteTasks, Stands, driverVars
<1>6. \A real : SetReal(real) => Stands
  BY DEF SetReal, Stands
<1>7. ParsePlanEnd => Stands
  BY DEF ParsePlanEnd, Stands, driverVars
<1>8. Return => Stands
  BY DEF Return, Stands, driverVars
<1> QED
  BY <1>1, <1>2, <1>3, <1>4, <1>5, <1>6, <1>7, <1>8

LEMMA LoopsStand ==
  \A f, k, condition, next : TickWhile(f, k, condition, next) => Stands
BY CallsStand DEF TickWhile, Stands, driverVars

LEMMA PlansAreNew ==
  /\ \A list, q, table, total, late : setup_plan(list, q, table, total, late) => Creates
  /\ \A list : TestPlan(list) => Creates
  /\ \A list, table : ZeroPlan(list, table) => Creates
<1>1. \A list, q, table, total, late : NewPlan(list, q, table, total, late)
                                        => NewStruct /\ file' = NoFile
  BY DEF NewPlan
<1>2. \A list, q, table, total, late : setup_plan(list, q, table, total, late) => Creates
  BY <1>1 DEF setup_plan, Creates
<1>3. \A list : TestPlan(list) => Creates
  BY <1>2 DEF TestPlan
<1>4. \A list, table : ZeroPlan(list, table) => Creates
  BY <1>1 DEF ZeroPlan, Creates
<1> QED
  BY <1>2, <1>3, <1>4

LEMMA ParserMoves == Next => Stands \/ Creates \/ Opens \/ Reads
<1> SUFFICES ASSUME Next PROVE Stands \/ Creates \/ Opens \/ Reads
  OBVIOUS
<1>1. test_find_slot_to_move_to => Creates
  BY PlansAreNew DEF test_find_slot_to_move_to
<1>2. test_find_suitable_task => Creates
  BY PlansAreNew DEF test_find_suitable_task
<1>3. test_preempt_cur_task => Creates \/ Stands
  BY PlansAreNew, CallsStand DEF test_preempt_cur_task
<1>4. test_find_next_task_for_all_processes => Creates
  BY PlansAreNew DEF test_find_next_task_for_all_processes
<1>5. test_replace_unallocated_slot_in_plan => Creates \/ Stands
  BY PlansAreNew DEF test_replace_unallocated_slot_in_plan, Stands, driverVars
<1>6. test_handle_unallocated => Creates \/ Stands
  BY PlansAreNew, CallsStand DEF test_handle_unallocated
<1>7. test_task_state_changes_when_finished => Creates \/ Stands
  BY PlansAreNew, CallsStand DEF test_task_state_changes_when_finished
<1>8. test_reschedule => Creates \/ Stands
  BY PlansAreNew, CallsStand DEF test_reschedule
<1>9. test_task_vs_slot_instructions => Creates \/ Stands
  BY PlansAreNew, CallsStand DEF test_task_vs_slot_instructions
<1>10. test_lateness_balancer => Creates \/ Stands
  BY PlansAreNew, CallsStand DEF test_lateness_balancer
<1>11. test_get_stack_size_of_preempted_tasks => Creates
  BY PlansAreNew DEF test_get_stack_size_of_preempted_tasks
<1>12. \A f, k : test_plan_parsing(f, k) => Stands \/ Opens \/ Reads
  <2>1. ReadPlan => Opens
    BY DEF ReadPlan, Opens
  <2>2. ParseStep /\ UNCHANGED <<planVars, signalVars, driverVars>> => Reads
    BY DEF Reads, driverVars
  <2> QED
    BY <2>1, <2>2, CallsStand DEF test_plan_parsing
<1>13. test_run => Stands \/ Creates \/ Opens \/ Reads
  BY <1>12, PlansAreNew, CallsStand, LoopsStand
  DEF test_run, check_run_task_on_time, check_run_task_early_time,
      check_run_task_tm2_early_time, check_run_task_late_time, check_preempt_task
<1>14. show_t1_preemption => Creates \/ Stands
  BY PlansAreNew, CallsStand, LoopsStand DEF show_t1_preemption
<1>15. show_t2_node_signal => Creates \/ Stands
  BY PlansAreNew, CallsStand, LoopsStand DEF show_t2_node_signal
<1>16. show_tm2_task_signal => Creates \/ Stands
  BY PlansAreNew, LoopsStand DEF show_tm2_task_signal
<1>17. full_run => Stands \/ Creates \/ Opens \/ Reads
  BY <1>12, PlansAreNew, LoopsStand DEF full_run, Stands
<1> QED
  BY <1>1, <1>2, <1>3, <1>4, <1>5, <1>6, <1>7, <1>8, <1>9, <1>10, <1>11, <1>13, <1>14,
     <1>15, <1>16, <1>17, CallsStand DEF Next

-----------------------------------------------------------------------------
(* Where the parser is in the text of the file, by section: the text up to *)
(* the position is what is written for the entries counted so far.         *)
ParserInv ==
  /\ DOMAIN processes = ProcessTable
  /\ DOMAIN task_list = 0 .. MAX_NUMBER_TASKS_IN_PLAN - 1
  /\ section \in {"nothing", "number of processes", "processes", "tasks", "all"}
  /\ section = "nothing" => text = <<>>
  /\ section # "nothing" => file \in Files /\ text = Written(file)
  /\ section \in {"nothing", "number of processes"} =>
       position = 1 /\ counter = 0 /\ num_processes = 0 /\ num_tasks = 0
  /\ section \in {"processes", "tasks", "all"} => num_processes = NumBuffers(file)
  /\ section = "processes" =>
       counter \in 0 .. NumBuffers(file) /\ position = 4 * counter + 3 /\ num_tasks = 0
  /\ section \in {"tasks", "all"} =>
       /\ num_tasks = NumEntries(file)
       /\ counter \in 0 .. NumEntries(file)
       /\ position = 4 * NumBuffers(file) + 8 * counter + 5
  /\ section = "all" => counter = NumEntries(file)

LEMMA InitParserInv == Init => ParserInv
BY DEF Init, NothingRead, ParserInv, ProcessTable

(* The parser ends a section exactly where the text does.                  *)
LEMMA MetaEndsWithProcesses ==
  ASSUME ParserInv, section = "processes"
  PROVE  MetaEnds <=> counter = NumBuffers(file)
<1> DEFINE q == NumBuffers(file)
<1>1. /\ file \in Files /\ text = Written(file) /\ counter \in 0 .. q
      /\ position = 4 * counter + 3
  BY DEF ParserInv
<1>2. q \in Nat
  BY <1>1, FileType
<1>3. CASE counter = q
  <2>1. position + 1 = 4 * q + 4
    BY <1>1, <1>2, <1>3
  <2>2. text[4 * q + 3].symbol = SEMI /\ text[4 * q + 4].symbol = SEMI
    BY <1>1, WrittenText
  <2> QED
    BY <1>1, <1>3, <2>1, <2>2 DEF MetaEnds
<1>4. CASE counter # q
  <2>1. counter \in 0 .. q - 1
    BY <1>1, <1>2, <1>4
  <2>2. text[4 * counter + 3] = [symbol |-> NUMBER, value |-> counter]
    BY <1>1, <2>1, WrittenText
  <2>3. text[position].symbol # SEMI
    BY <1>1, <2>2 DEF NUMBER, SEMI
  <2> QED
    BY <1>4, <2>3 DEF MetaEnds
<1> QED
  BY <1>3, <1>4

LEMMA ParseKeepsInv ==
  ASSUME ParserInv, Reads
  PROVE  ParserInv'
<1> DEFINE q == NumBuffers(file)
           n == NumEntries(file)
<1>1. section # "nothing"
  BY DEF Reads, ParseStep, ParseNumberOfProcesses, parse_next_process, ParseMetaEnd,
         parse_next_task, ParseTasksEnd
<1>2. file' = file /\ file \in Files /\ text = Written(file)
  BY <1>1 DEF Reads, ParserInv
<1>3. q \in Nat /\ n \in Nat
  BY <1>2, FileType
<1>4. DOMAIN processes = ProcessTable /\ DOMAIN task_list = 0 .. MAX_NUMBER_TASKS_IN_PLAN - 1
  BY DEF ParserInv
<1>5. CASE ParseNumberOfProcesses
  <2>1. position = 1 /\ counter = 0 /\ num_tasks = 0
    BY <1>5 DEF ParseNumberOfProcesses, ParserInv
  <2>2. text[1] = [symbol |-> NUMBER, value |-> q]
    BY <1>2, WrittenText
  <2>3. NumberAt(0) = q
    BY <2>1, <2>2 DEF NumberAt
  <2>4. position' = 4 * 0 + 3
    <3>1. position' = position + 2
      BY <1>5 DEF ParseNumberOfProcesses
    <3> QED
      BY <2>1, <3>1
  <2>5. 0 \in 0 .. q
    BY <1>3
  <2> QED
    BY <1>2, <1>4, <1>5, <2>1, <2>3, <2>4, <2>5 DEF ParseNumberOfProcesses, ParserInv
<1>6. CASE parse_next_process
  <2>1. section = "processes" /\ num_processes = q /\ num_tasks = 0
    BY <1>6 DEF parse_next_process, ParserInv
  <2>2. counter \in 0 .. q /\ counter # q /\ position = 4 * counter + 3
    BY <1>6, <2>1, MetaEndsWithProcesses DEF parse_next_process, ParserInv
  <2>3. counter + 1 \in 0 .. q /\ position + 4 = 4 * (counter + 1) + 3
    BY <1>3, <2>2
  <2> QED
    BY <1>2, <1>4, <1>6, <2>1, <2>3 DEF parse_next_process, ParserInv
<1>7. CASE ParseMetaEnd
  <2>1. section = "processes" /\ num_processes = q
    BY <1>7 DEF ParseMetaEnd, ParserInv
  <2>2. counter = q /\ position = 4 * q + 3
    BY <1>7, <2>1, MetaEndsWithProcesses DEF ParseMetaEnd, ParserInv
  <2>3. position + 2 = 4 * q + 5 /\ 4 * q + 5 = 4 * q + 8 * 0 + 5 /\ 0 \in 0 .. n
    BY <1>3, <2>2
  <2>4. count_tasks(position + 2) = n
    BY <1>2, <2>3, TasksAreCounted DEF count_tasks
  <2> QED
    BY <1>2, <1>4, <1>7, <2>1, <2>3, <2>4 DEF ParseMetaEnd, ParserInv
<1>8. CASE parse_next_task
  <2>1. section = "tasks" /\ num_processes = q /\ num_tasks = n
    BY <1>8 DEF parse_next_task, ParserInv
  <2>2. counter \in 0 .. n /\ counter < n /\ position = 4 * q + 8 * counter + 5
    BY <1>8, <2>1 DEF parse_next_task, ParserInv
  <2>3. counter + 1 \in 0 .. n
    BY <1>3, <2>2
  <2>4. position + 8 = 4 * q + 8 * (counter + 1) + 5
    BY <1>3, <2>2
  <2>5. DOMAIN processes' = DOMAIN processes /\ DOMAIN task_list' = DOMAIN task_list
    BY <1>8 DEF parse_next_task
  <2> QED
    BY <1>2, <1>4, <1>8, <2>1, <2>3, <2>4, <2>5 DEF parse_next_task, ParserInv
<1>9. CASE ParseTasksEnd
  <2>1. DOMAIN task_list' = DOMAIN task_list
    BY <1>9 DEF ParseTasksEnd
  <2> QED
    BY <1>2, <1>4, <1>9, <2>1 DEF ParseTasksEnd, ParserInv
<1> QED
  BY <1>5, <1>6, <1>7, <1>8, <1>9 DEF Reads, ParseStep

LEMMA NextParserInv == ParserInv /\ [Next]_vars => ParserInv'
<1> SUFFICES ASSUME ParserInv, [Next]_vars PROVE ParserInv'
  OBVIOUS
<1>1. CASE Stands
  BY <1>1 DEF Stands, parserVars, ParserInv
<1>2. CASE Creates
  <2>1. DOMAIN processes' = ProcessTable
    BY <1>2 DEF Creates, ZeroTables, SetupTables
  <2>2. DOMAIN task_list' = 0 .. MAX_NUMBER_TASKS_IN_PLAN - 1
    BY <1>2 DEF Creates, ZeroTables, SetupTables
  <2> QED
    BY <1>2, <2>1, <2>2 DEF Creates, NewStruct, ParserInv
<1>3. CASE Opens
  BY <1>3 DEF Opens, StartParsing, ParserInv
<1>4. CASE Reads
  BY <1>4, ParseKeepsInv
<1>5. CASE UNCHANGED vars
  BY <1>1, <1>5 DEF vars, driverVars, Stands
<1> QED
  BY <1>1, <1>2, <1>3, <1>4, <1>5, ParserMoves

(* The parser never leaves the text or the tables, for every file that the *)
(* tables can hold.                                                        *)
THEOREM ParserTypeCorrect == Spec => []ParserTypeOK
<1>1. ParserInv => ParserTypeOK
  <2> SUFFICES ASSUME ParserInv PROVE ParserTypeOK
    OBVIOUS
  <2> DEFINE q == NumBuffers(file)
             n == NumEntries(file)
  <2>1. CASE section = "nothing"
    <3>1. text \in Seq(Symbols) /\ Len(text) = 0
      BY <2>1 DEF ParserInv
    <3>2. position \in 1 .. Len(text) + 1 /\ counter \in 0 .. num_processes
      BY <2>1, <3>1 DEF ParserInv
    <3> QED
      BY <2>1, <3>1, <3>2, ConfigAssumption, ParserAssumption
      DEF ParserInv, ParserTypeOK, ProcessTable
  <2>2. ASSUME section # "nothing"
        PROVE  /\ text \in Seq(Symbols) /\ Len(text) = 4 * q + 8 * n + 5
               /\ q \in 0 .. MAX_NUMBER_PROCESSES - 1
               /\ n \in 0 .. MAX_NUMBER_TASKS_IN_PLAN - 1
               /\ Len(text) \in Nat
    <3>1. file \in Files /\ text = Written(file)
      BY <2>2 DEF ParserInv
    <3> QED
      BY <3>1, FileType, TextIsSequence, ConfigAssumption, ParserAssumption
  <2>3. CASE section = "number of processes"
    <3>1. position = 1 /\ counter = 0 /\ num_processes = 0 /\ num_tasks = 0
      BY <2>3 DEF ParserInv
    <3>2. position \in 1 .. Len(text) + 1
      <4>1. Len(text) \in Nat
        BY <2>2, <2>3
      <4> QED
        BY <3>1, <4>1
    <3>3. counter \in 0 .. num_processes
      BY <3>1
    <3>4. /\ num_processes \in 0 .. MAX_NUMBER_PROCESSES - 1
          /\ num_tasks \in 0 .. MAX_NUMBER_TASKS_IN_PLAN - 1
      BY <3>1, ConfigAssumption, ParserAssumption
    <3> QED
      BY <2>2, <2>3, <3>2, <3>3, <3>4 DEF ParserInv, ParserTypeOK, ProcessTable
  <2>4. CASE section = "processes"
    <3>1. counter \in 0 .. q /\ position = 4 * counter + 3 /\ num_processes = q
      BY <2>4 DEF ParserInv
    <3>2. position \in 1 .. Len(text) + 1
      BY <2>2, <2>4, <3>1
    <3> QED
      BY <2>2, <2>4, <3>1, <3>2, ParserAssumption DEF ParserInv, ParserTypeOK, ProcessTable
  <2>5. CASE section \in {"tasks", "all"}
    <3>1. counter \in 0 .. n /\ position = 4 * q + 8 * counter + 5
          /\ num_tasks = n /\ num_processes = q
      BY <2>5 DEF ParserInv
    <3>2. position \in 1 .. Len(text) + 1
      BY <2>2, <2>5, <3>1
    <3>3. position + 8 * (num_tasks - counter) = Len(text)
      <4>1. /\ q \in Int /\ n \in Int /\ counter \in Int
            /\ Len(text) = 4 * q + 8 * n + 5 /\ position = 4 * q + 8 * counter + 5
        BY <2>2, <2>5, <3>1
      <4>2. position + 8 * (n - counter) = Len(text)
        BY <4>1
      <4> QED
        BY <3>1, <4>2
    <3> QED
      BY <2>2, <2>5, <3>1, <3>2, <3>3 DEF ParserInv, ParserTypeOK, ProcessTable
  <2> QED
    BY <2>1, <2>3, <2>4, <2>5 DEF ParserInv
<1> QED
  BY <1>1, InitParserInv, NextParserInv, PTL DEF Spec

-----------------------------------------------------------------------------
(* A call of pbs_run_timer_tick counts a tick, or does nothing.            *)
LEMMA TickCounts ==
  Tick => tick_counter' = tick_counter + 1 \/ UNCHANGED planVars
<1> SUFFICES ASSUME Tick PROVE tick_counter' = tick_counter + 1 \/ UNCHANGED planVars
  OBVIOUS
<1>1. PICK n \in {size[1]}, q \in {size[2]} : S(n, q)!Next
  BY DEF Tick
<1>2. S(n, q)!TickFinishesTask => tick_counter' = tick_counter + 1
  BY DEF S!TickFinishesTask
<1>3. S(n, q)!TimerTick => tick_counter' = tick_counter + 1
  BY DEF S!TimerTick
<1>4. S(n, q)!pbs_run_timer_tick => tick_counter' = tick_counter + 1
  BY <1>2, <1>3 DEF S!pbs_run_timer_tick, S!TickRunsTask, S!TickPreemptsTask, S!TickFindsNoSlot
<1>5. S(n, q)!TickAfterEnd => UNCHANGED planVars
  BY DEF S!TickAfterEnd, S!vars, S!taskVars, S!processVars, S!nodeVars, planVars, Tick
<1> QED
  BY <1>1, <1>4, <1>5 DEF S!Next

(* The functions that read a plan file.                                    *)
Readers == {"test_run", "full_run"}

(* How a reader gets to the statement behind the new plan, within reading  *)
(* and behind the end of parse_plan.                                       *)
LEMMA ReaderMoves ==
  ASSUME Next, NEW f \in Readers, NEW k \in 2 .. 4, at' = <<f, k>>
  PROVE  \/ k = 2 /\ (TestPlan(<<>>) \/ ZeroPlan(<<>>, ZeroProcesses))
         \/ k = 3 /\ at = <<f, 2>> /\ ReadPlan
         \/ k = 3 /\ at = <<f, 3>> /\ ParseStep /\ UNCHANGED <<planVars, signalVars, driverVars>>
         \/ k = 4 /\ at = <<f, 3>> /\ ParsePlanEnd
         \/ k = 4 /\ at = <<f, 4>> /\ Tick
<1>1. at'[1] \in Readers /\ at'[2] \in 2 .. 4
  OBVIOUS
<1>2. ~ Return
  <2>1. SUFFICES ASSUME Return PROVE FALSE
    OBVIOUS
  <2>2. at'[2] \in {0, 1}
    BY <2>1 DEF Return
  <2> QED
    BY <1>1, <2>2
<1>3. /\ ~ test_find_slot_to_move_to
      /\ ~ test_find_suitable_task
      /\ ~ test_find_next_task_for_all_processes
      /\ ~ test_get_stack_size_of_preempted_tasks
  BY <1>1 DEF Readers, test_find_slot_to_move_to, test_find_suitable_task,
              test_find_next_task_for_all_processes,
              test_get_stack_size_of_preempted_tasks, Goto
<1>4. /\ ~ test_preempt_cur_task
      /\ ~ test_replace_unallocated_slot_in_plan
      /\ ~ test_handle_unallocated
      /\ ~ test_task_state_changes_when_finished
  BY <1>1 DEF Readers, test_preempt_cur_task, test_replace_unallocated_slot_in_plan,
              test_handle_unallocated, test_task_state_changes_when_finished, Step, Goto
<1>5. ~ test_reschedule /\ ~ test_task_vs_slot_instructions /\ ~ test_lateness_balancer
  BY <1>1 DEF Readers, test_reschedule, test_task_vs_slot_instructions,
              test_lateness_balancer, Step, Goto
<1>6. ~ show_t1_preemption /\ ~ show_t2_node_signal /\ ~ show_tm2_task_signal
  BY <1>1 DEF Readers, show_t1_preemption, show_t2_node_signal, show_tm2_task_signal,
              TickWhile, Step, Goto
<1>7. test_run \/ full_run
  BY <1>2, <1>3, <1>4, <1>5, <1>6 DEF Next
<1>8. CASE test_run
  <2>1. \/ at' = <<"test_run", 2>> /\ TestPlan(<<>>)
        \/ test_plan_parsing("test_run", 2)
        \/ at' \in {<<"test_run", m>> : m \in {0, 5, 6, 7, 8, 9, 10, 11, 12, 13}}
    BY <1>8 DEF test_run, check_run_task_on_time, check_run_task_early_time,
                check_run_task_tm2_early_time, check_run_task_late_time,
                check_preempt_task, TickWhile, Step, Goto
  <2>2. test_plan_parsing("test_run", 2) =>
          \/ at = <<"test_run", 2>> /\ at' = <<"test_run", 3>> /\ ReadPlan
          \/ /\ at = <<"test_run", 3>> /\ at' = <<"test_run", 3>>
             /\ ParseStep /\ UNCHANGED <<planVars, signalVars, driverVars>>
          \/ at = <<"test_run", 3>> /\ at' = <<"test_run", 4>> /\ ParsePlanEnd
    BY DEF test_plan_parsing, Step, Goto
  <2> QED
    BY <2>1, <2>2
<1>9. CASE full_run
  <2>1. \/ at' = <<"full_run", 2>> /\ ZeroPlan(<<>>, ZeroProcesses)
        \/ test_plan_parsing("full_run", 2)
        \/ at = <<"full_run", 4>> /\ at' = <<"full_run", 4>> /\ Tick
        \/ at' \in {<<"full_run", m>> : m \in {0, 5}}
    BY <1>9 DEF full_run, TickWhile, Step, Goto
  <2>2. test_plan_parsing("full_run", 2) =>
          \/ at = <<"full_run", 2>> /\ at' = <<"full_run", 3>> /\ ReadPlan
          \/ /\ at = <<"full_run", 3>> /\ at' = <<"full_run", 3>>
             /\ ParseStep /\ UNCHANGED <<planVars, signalVars, driverVars>>
          \/ at = <<"full_run", 3>> /\ at' = <<"full_run", 4>> /\ ParsePlanEnd
    BY DEF test_plan_parsing, Step, Goto
  <2> QED
    BY <2>1, <2>2
<1> QED
  BY <1>7, <1>8, <1>9

-----------------------------------------------------------------------------
(* What the tables hold of the file when its first c tasks are read.       *)
TaskFields == [task_id : Int, process_id : Int, instructions_planned : Int,
               instructions_real : Int]

ReadTask(f, i) ==
  [task_id |-> FileTaskId(f, i + 1), process_id |-> f.tasks[i + 1].process_id,
   instructions_planned |-> f.tasks[i + 1].planned, instructions_real |-> f.tasks[i + 1].real]

PlannedIn(f) == [e \in 0 .. NumEntries(f) - 1 |-> f.tasks[e + 1].planned]
EntriesOf(f, r, c) == {e \in 0 .. c - 1 : f.tasks[e + 1].process_id = r}

ReadProcess(f, r, c) ==
  [process_id |-> r, buffer |-> f.buffers[r + 1],
   length_plan |-> SumFunctionOnSet(PlannedIn(f), EntriesOf(f, r, c))]

(* The tables hold what was read so far, and the ends behind it.           *)
TablesInv ==
  /\ \A i \in DOMAIN task_list : task_list[i] \in TaskFields
  /\ section = "processes" =>
       \A r \in 0 .. counter - 1 : processes[r] = ReadProcess(file, r, 0)
  /\ section \in {"tasks", "all"} =>
       /\ \A r \in 0 .. NumBuffers(file) - 1 : processes[r] = ReadProcess(file, r, counter)
       /\ processes[NumBuffers(file)].process_id = -2
       /\ \A i \in 0 .. counter - 1 : task_list[i] = ReadTask(file, i)
  /\ section = "all" =>
       /\ task_list[NumEntries(file)].task_id = -2
       /\ task_list[NumEntries(file)].process_id = -2

(* A task that is read adds its length to its process only.                *)
LEMMA ReadTaskAddsLength ==
  ASSUME NEW f \in Files, NEW r \in 0 .. NumBuffers(f) - 1, NEW c \in 0 .. NumEntries(f) - 1
  PROVE  /\ f.tasks[c + 1].process_id # r =>
              ReadProcess(f, r, c + 1) = ReadProcess(f, r, c)
         /\ f.tasks[c + 1].process_id = r =>
              ReadProcess(f, r, c + 1)
                = [ReadProcess(f, r, c) EXCEPT !.length_plan = @ + f.tasks[c + 1].planned]
<1> DEFINE n == NumEntries(f)
           E == EntriesOf(f, r, c)
<1>1. n \in Nat /\ c \in Int /\ \A e \in 0 .. n - 1 : f.tasks[e + 1].planned \in Int
  <2>1. n \in Nat /\ c \in Int
    BY FileType
  <2>2. ASSUME NEW e \in 0 .. n - 1 PROVE f.tasks[e + 1].planned \in Int
    <3>1. e + 1 \in 1 .. n
      BY <2>1
    <3> QED
      BY <3>1, FileType
  <2> QED
    BY <2>1, <2>2
<1>2. 0 .. (c + 1) - 1 = (0 .. c - 1) \cup {c} /\ c \notin 0 .. c - 1
  BY <1>1
<1>3. CASE f.tasks[c + 1].process_id # r
  <2>1. EntriesOf(f, r, c + 1) = E
    BY <1>2, <1>3 DEF EntriesOf
  <2> QED
    BY <1>3, <2>1 DEF ReadProcess
<1>4. CASE f.tasks[c + 1].process_id = r
  <2>1. EntriesOf(f, r, c + 1) = E \cup {c} /\ c \notin E
    BY <1>2, <1>4 DEF EntriesOf
  <2>2. IsFiniteSet(E)
    <3>1. IsFiniteSet(0 .. c - 1)
      BY <1>1, FS_Interval
    <3> QED
      BY <3>1, FS_Subset DEF EntriesOf
  <2>3. E \subseteq 0 .. n - 1
    BY <1>1 DEF EntriesOf
  <2>4. \A e \in E \cup {c} : PlannedIn(f)[e] \in Int
    BY <1>1, <2>3 DEF PlannedIn
  <2>5. PlannedIn(f)[c] = f.tasks[c + 1].planned
    BY DEF PlannedIn
  <2> HIDE DEF E
  <2>6. SumFunctionOnSet(PlannedIn(f), E \cup {c})
          = PlannedIn(f)[c] + SumFunctionOnSet(PlannedIn(f), E)
    BY <2>1, <2>2, <2>4, SumAdd
  <2>7. SumFunctionOnSet(PlannedIn(f), E) \in Int
    BY <2>2, <2>4, SumType
  <2> DEFINE s == SumFunctionOnSet(PlannedIn(f), E)
  <2>8. SumFunctionOnSet(PlannedIn(f), E \cup {c}) = s + f.tasks[c + 1].planned
    <3>1. s \in Int /\ f.tasks[c + 1].planned \in Int
      BY <1>1, <2>7
    <3>2. SumFunctionOnSet(PlannedIn(f), E \cup {c}) = f.tasks[c + 1].planned + s
      BY <2>5, <2>6
    <3> HIDE DEF s
    <3> QED
      BY <3>1, <3>2
  <2>9. ReadProcess(f, r, c)
          = [process_id |-> r, buffer |-> f.buffers[r + 1], length_plan |-> s]
    BY DEF ReadProcess, E
  <2>10. ReadProcess(f, r, c + 1)
           = [process_id |-> r, buffer |-> f.buffers[r + 1],
              length_plan |-> s + f.tasks[c + 1].planned]
    BY <2>1, <2>8 DEF ReadProcess, E
  <2> QED
    BY <1>4, <2>9, <2>10
<1> QED
  BY <1>3, <1>4

LEMMA InitTablesInv == Init => TablesInv
<1> SUFFICES ASSUME Init PROVE TablesInv
  OBVIOUS
<1>1. section = "nothing"
  BY DEF Init, NothingRead
<1>2. NoTask \in TaskFields
  BY DEF NoTask, TaskFields
<1>3. \A i \in DOMAIN task_list : task_list[i] \in TaskFields
  BY <1>2 DEF Init
<1> QED
  BY <1>1, <1>3 DEF TablesInv

LEMMA NewTables ==
  ASSUME Creates
  PROVE  TablesInv'
<1>1. section' = "nothing"
  BY DEF Creates, NewStruct
<1>2. CASE ZeroTables
  <2>1. NoTask \in TaskFields
    BY DEF NoTask, TaskFields
  <2>2. \A i \in DOMAIN task_list' : task_list'[i] \in TaskFields
    BY <1>2, <2>1 DEF ZeroTables
  <2> QED
    BY <1>1, <2>2 DEF TablesInv
<1>3. CASE SetupTables
  <2>1. \A i \in DOMAIN task_list' : task_list'[i] \in TaskFields
    <3> SUFFICES ASSUME NEW i \in 0 .. MAX_NUMBER_TASKS_IN_PLAN - 1
                 PROVE  task_list'[i] \in TaskFields
      BY <1>3 DEF SetupTables
    <3>1. task_list'[i] = [task_id |-> IF i = MAX_NUMBER_TASKS_IN_PLAN - 1 THEN -2 ELSE i % 3,
                           process_id |-> i, instructions_planned |-> i,
                           instructions_real |-> i]
      BY <1>3 DEF SetupTables
    <3>2. i \in Int /\ i % 3 \in Int
      BY ParserAssumption
    <3> QED
      BY <3>1, <3>2 DEF TaskFields
  <2> QED
    BY <1>1, <2>1 DEF TablesInv
<1> QED
  BY <1>2, <1>3 DEF Creates

(* The numbers at the position, while processes and while tasks are read.  *)
LEMMA ReadNumbers ==
  ASSUME ParserInv
  PROVE  /\ section = "processes" /\ counter # NumBuffers(file) =>
              NumberAt(0) = counter /\ NumberAt(1) = file.buffers[counter + 1]
         /\ section = "tasks" /\ counter < num_tasks =>
              /\ NumberAt(0) = file.tasks[counter + 1].process_id
              /\ NumberAt(1) = FileTaskId(file, counter + 1)
              /\ NumberAt(2) = file.tasks[counter + 1].planned
              /\ NumberAt(3) = file.tasks[counter + 1].real
<1>1. ASSUME section = "processes", counter # NumBuffers(file)
      PROVE  NumberAt(0) = counter /\ NumberAt(1) = file.buffers[counter + 1]
  <2>1. /\ file \in Files /\ text = Written(file) /\ position = 4 * counter + 3
        /\ counter \in 0 .. NumBuffers(file)
    BY <1>1 DEF ParserInv
  <2>2. NumBuffers(file) \in Nat
    BY <2>1, FileType
  <2>3. counter \in 0 .. NumBuffers(file) - 1
    BY <1>1, <2>1, <2>2
  <2>4. position + 2 * 0 = 4 * counter + 3 /\ position + 2 * 1 = 4 * counter + 5
    BY <2>1, <2>3
  <2>5. /\ text[4 * counter + 3] = [symbol |-> NUMBER, value |-> counter]
        /\ text[4 * counter + 5] = [symbol |-> NUMBER, value |-> file.buffers[counter + 1]]
    BY <2>1, <2>3, WrittenText
  <2> QED
    BY <2>4, <2>5 DEF NumberAt
<1>2. ASSUME section = "tasks", counter < num_tasks
      PROVE  /\ NumberAt(0) = file.tasks[counter + 1].process_id
             /\ NumberAt(1) = FileTaskId(file, counter + 1)
             /\ NumberAt(2) = file.tasks[counter + 1].planned
             /\ NumberAt(3) = file.tasks[counter + 1].real
  <2> DEFINE q == NumBuffers(file)
             n == NumEntries(file)
  <2>1. /\ file \in Files /\ text = Written(file) /\ position = 4 * q + 8 * counter + 5
        /\ counter \in 0 .. n /\ num_tasks = n
    BY <1>2 DEF ParserInv
  <2>2. q \in Nat /\ n \in Nat
    BY <2>1, FileType
  <2>3. counter \in 0 .. n - 1
    BY <1>2, <2>1, <2>2
  <2>4. \A m \in 0 .. 7 : text[4 * q + 8 * counter + 5 + m] = TaskText(file, counter + 1)[m + 1]
    BY <2>1, <2>3, WrittenText
  <2>5. \A m \in 0 .. 7 : text[position + m] = TaskText(file, counter + 1)[m + 1]
    BY <2>1, <2>4
  <2>6. /\ text[position + 0] = number(file.tasks[counter + 1].process_id)
        /\ text[position + 2] = number(FileTaskId(file, counter + 1))
        /\ text[position + 4] = number(file.tasks[counter + 1].planned)
        /\ text[position + 6] = number(file.tasks[counter + 1].real)
    BY <2>5 DEF TaskText
  <2>7. /\ position + 2 * 0 = position + 0 /\ position + 2 * 1 = position + 2
        /\ position + 2 * 2 = position + 4 /\ position + 2 * 3 = position + 6
    OBVIOUS
  <2> QED
    BY <2>6, <2>7 DEF NumberAt, number
<1> QED
  BY <1>1, <1>2

LEMMA ParseKeepsTables ==
  ASSUME ParserInv, TablesInv, Reads
  PROVE  TablesInv'
<1> DEFINE q == NumBuffers(file)
           n == NumEntries(file)
<1>1. section # "nothing"
  BY DEF Reads, ParseStep, ParseNumberOfProcesses, parse_next_process, ParseMetaEnd,
         parse_next_task, ParseTasksEnd
<1>2. file' = file /\ file \in Files
  BY <1>1 DEF Reads, ParserInv
<1>3. /\ q \in Nat /\ n \in Nat /\ q < MAX_NUMBER_PROCESSES /\ n < MAX_NUMBER_TASKS_IN_PLAN
      /\ MAX_NUMBER_PROCESSES \in Nat /\ MAX_NUMBER_TASKS_IN_PLAN \in Nat
  BY <1>2, FileType, ConfigAssumption, ParserAssumption
<1>4. DOMAIN processes = ProcessTable /\ DOMAIN task_list = 0 .. MAX_NUMBER_TASKS_IN_PLAN - 1
  BY DEF ParserInv
<1>5. \A i \in DOMAIN task_list : task_list[i] \in TaskFields
  BY DEF TablesInv
<1>6. CASE ParseNumberOfProcesses
  <2>1. counter = 0 /\ counter' = 0
    BY <1>6 DEF ParseNumberOfProcesses, ParserInv
  <2>2. 0 .. counter' - 1 = {}
    BY <2>1
  <2> QED
    BY <1>5, <1>6, <2>2 DEF ParseNumberOfProcesses, TablesInv
<1>7. CASE parse_next_process
  <2>1. section = "processes" /\ counter \in 0 .. q /\ counter # q
    BY <1>7, MetaEndsWithProcesses DEF parse_next_process, ParserInv
  <2>2. counter \in 0 .. q - 1 /\ counter \in ProcessTable
    BY <1>3, <2>1 DEF ProcessTable
  <2>3. NumberAt(0) = counter /\ NumberAt(1) = file.buffers[counter + 1]
    BY <2>1, ReadNumbers
  <2>4. processes' = [processes EXCEPT ![counter] =
                        [process_id |-> counter, buffer |-> file.buffers[counter + 1],
                         length_plan |-> 0]]
    BY <1>7, <2>3 DEF parse_next_process
  <2>5. \A r : EntriesOf(file, r, 0) = {}
    BY DEF EntriesOf
  <2>6. SumFunctionOnSet(PlannedIn(file), {}) = 0
    BY SumEmpty
  <2>7. processes'[counter] = ReadProcess(file, counter, 0)
    BY <1>4, <2>2, <2>4, <2>5, <2>6 DEF ReadProcess
  <2>8. \A r \in 0 .. (counter + 1) - 1 : processes'[r] = ReadProcess(file, r, 0)
    <3> SUFFICES ASSUME NEW r \in 0 .. (counter + 1) - 1
                 PROVE  processes'[r] = ReadProcess(file, r, 0)
      OBVIOUS
    <3>1. CASE r = counter
      BY <2>7, <3>1
    <3>2. CASE r # counter
      <4>1. r \in 0 .. counter - 1 /\ r \in ProcessTable
        BY <1>3, <2>2, <3>2 DEF ProcessTable
      <4>2. processes'[r] = processes[r]
        BY <1>4, <2>4, <3>2, <4>1
      <4> QED
        BY <2>1, <4>1, <4>2 DEF TablesInv
    <3> QED
      BY <3>1, <3>2
  <2>9. section' = "processes" /\ counter' = counter + 1 /\ task_list' = task_list
    BY <1>7, <2>1 DEF parse_next_process
  <2> QED
    BY <1>2, <1>5, <2>8, <2>9 DEF TablesInv
<1>8. CASE ParseMetaEnd
  <2>1. section = "processes" /\ counter = q /\ num_processes = q
    BY <1>8, MetaEndsWithProcesses DEF ParseMetaEnd, ParserInv
  <2>2. q \in ProcessTable
    BY <1>3 DEF ProcessTable
  <2>3. processes' = [processes EXCEPT ![q] =
                        [process_id |-> -2, buffer |-> -2, length_plan |-> 0]]
    BY <1>8, <2>1 DEF ParseMetaEnd
  <2>4. processes'[q].process_id = -2
    BY <1>4, <2>2, <2>3
  <2>5. \A r \in 0 .. q - 1 : processes'[r] = ReadProcess(file, r, 0)
    <3> SUFFICES ASSUME NEW r \in 0 .. q - 1 PROVE processes'[r] = ReadProcess(file, r, 0)
      OBVIOUS
    <3>1. r \in ProcessTable /\ r # q
      BY <1>3 DEF ProcessTable
    <3>2. processes'[r] = processes[r]
      BY <1>4, <2>3, <3>1
    <3> QED
      BY <2>1, <3>2 DEF TablesInv
  <2>6. section' = "tasks" /\ counter' = 0 /\ task_list' = task_list
    BY <1>8 DEF ParseMetaEnd
  <2>7. 0 .. 0 - 1 = {}
    OBVIOUS
  <2> QED
    BY <1>2, <1>5, <2>4, <2>5, <2>6, <2>7 DEF TablesInv
<1>9. CASE parse_next_task
  <2> DEFINE t == file.tasks[counter + 1]
             p == t.process_id
  <2>1. section = "tasks" /\ counter < num_tasks /\ num_tasks = n /\ counter \in 0 .. n
    BY <1>9 DEF parse_next_task, ParserInv
  <2>2. counter \in 0 .. n - 1 /\ counter \in DOMAIN task_list
    BY <1>3, <1>4, <2>1
  <2>3. t \in [process_id : -1 .. q - 1, planned : Int, real : Int]
    <3>1. counter + 1 \in 1 .. n
      BY <1>3, <2>2
    <3> QED
      BY <1>2, <3>1, FileType
  <2>4. /\ NumberAt(0) = p /\ NumberAt(1) = FileTaskId(file, counter + 1)
        /\ NumberAt(2) = t.planned /\ NumberAt(3) = t.real
    BY <2>1, ReadNumbers
  <2>5. /\ task_list' = [task_list EXCEPT ![counter] = ReadTask(file, counter)]
        /\ processes' = IF p = -1 THEN processes
                        ELSE [processes EXCEPT ![p].length_plan = @ + t.planned]
    BY <1>9, <2>4 DEF parse_next_task, ReadTask
  <2>6. section' = "tasks" /\ counter' = counter + 1
    BY <1>9, <2>1 DEF parse_next_task
  <2>7. ASSUME NEW r \in 0 .. q - 1
        PROVE  processes'[r] = ReadProcess(file, r, counter + 1)
    <3>1. r \in ProcessTable /\ r # -1 /\ processes[r] = ReadProcess(file, r, counter)
      BY <1>3, <2>1 DEF ProcessTable, TablesInv
    <3>2. CASE p = r
      <4>1. processes'[r] = [processes[r] EXCEPT !.length_plan = @ + t.planned]
        BY <1>4, <2>5, <3>1, <3>2
      <4> QED
        BY <1>2, <2>2, <3>1, <3>2, <4>1, ReadTaskAddsLength
    <3>3. CASE p # r
      <4>1. processes'[r] = processes[r]
        BY <1>4, <2>5, <3>1, <3>3
      <4> QED
        BY <1>2, <2>2, <3>1, <3>3, <4>1, ReadTaskAddsLength
    <3> QED
      BY <3>2, <3>3
  <2>8. processes'[q].process_id = -2
    <3>1. q \in ProcessTable /\ p # q /\ processes[q].process_id = -2
      BY <1>3, <2>1, <2>3 DEF ProcessTable, TablesInv
    <3> QED
      BY <1>4, <2>5, <3>1
  <2>9. ReadTask(file, counter) \in TaskFields
    <3>1. counter + 1 \in 1 .. n
      BY <1>3, <2>2
    <3>2. FileTaskId(file, counter + 1) \in Int /\ p \in Int /\ t.planned \in Int /\ t.real \in Int
      BY <1>2, <1>3, <2>3, <3>1, FileTaskIdType
    <3> QED
      BY <3>2 DEF ReadTask, TaskFields
  <2>10. \A i \in DOMAIN task_list' : task_list'[i] \in TaskFields
    BY <1>5, <2>5, <2>9
  <2>11. \A i \in 0 .. (counter + 1) - 1 : task_list'[i] = ReadTask(file, i)
    <3> SUFFICES ASSUME NEW i \in 0 .. (counter + 1) - 1
                 PROVE  task_list'[i] = ReadTask(file, i)
      OBVIOUS
    <3>1. CASE i = counter
      BY <2>2, <2>5, <3>1
    <3>2. CASE i # counter
      <4>1. i \in 0 .. counter - 1 /\ i \in DOMAIN task_list
        BY <1>3, <1>4, <2>2, <3>2
      <4>2. task_list'[i] = task_list[i]
        BY <2>5, <3>2, <4>1
      <4> QED
        BY <2>1, <4>1, <4>2 DEF TablesInv
    <3> QED
      BY <3>1, <3>2
  <2> QED
    BY <1>2, <2>6, <2>7, <2>8, <2>10, <2>11 DEF TablesInv
<1>10. CASE ParseTasksEnd
  <2>1. section = "tasks" /\ counter = n
    BY <1>10 DEF ParseTasksEnd, ParserInv
  <2>2. n \in DOMAIN task_list
    BY <1>3, <1>4
  <2>3. /\ section' = "all" /\ counter' = counter /\ processes' = processes
        /\ task_list' = [task_list EXCEPT ![n].task_id = -2, ![n].process_id = -2]
    BY <1>10, <2>1 DEF ParseTasksEnd
  <2>4. /\ task_list'[n] \in TaskFields
        /\ task_list'[n].task_id = -2
        /\ task_list'[n].process_id = -2
    <3>1. task_list[n] \in TaskFields
      BY <1>5, <2>2
    <3>2. task_list'[n] = [task_list[n] EXCEPT !.task_id = -2, !.process_id = -2]
      BY <2>2, <2>3
    <3>3. PICK a \in Int, b \in Int, c \in Int, d \in Int :
            task_list[n] = [task_id |-> a, process_id |-> b, instructions_planned |-> c,
                            instructions_real |-> d]
      BY <3>1 DEF TaskFields
    <3>4. task_list'[n] = [task_id |-> -2, process_id |-> -2, instructions_planned |-> c,
                           instructions_real |-> d]
      <4>1. task_list'[n] = [[task_list[n] EXCEPT !.task_id = -2] EXCEPT !.process_id = -2]
        BY <3>2
      <4>2. [task_list[n] EXCEPT !.task_id = -2]
              = [task_id |-> -2, process_id |-> b, instructions_planned |-> c,
                 instructions_real |-> d]
        BY <3>3
      <4> QED
        BY <4>1, <4>2
    <3> QED
      BY <3>4 DEF TaskFields
  <2>5. \A i \in DOMAIN task_list \ {n} : task_list'[i] = task_list[i]
    BY <2>3
  <2>6. \A i \in DOMAIN task_list' : task_list'[i] \in TaskFields
    BY <1>5, <2>3, <2>4, <2>5
  <2>7. \A i \in 0 .. counter - 1 : task_list'[i] = ReadTask(file, i)
    <3> SUFFICES ASSUME NEW i \in 0 .. counter - 1 PROVE task_list'[i] = ReadTask(file, i)
      OBVIOUS
    <3>1. i \in DOMAIN task_list \ {n}
      BY <1>3, <1>4, <2>1
    <3> QED
      BY <2>1, <2>5, <3>1 DEF TablesInv
  <2> QED
    BY <1>2, <2>1, <2>3, <2>4, <2>6, <2>7 DEF TablesInv
<1> QED
  BY <1>6, <1>7, <1>8, <1>9, <1>10 DEF Reads, ParseStep

LEMMA NextTablesInv == ParserInv /\ TablesInv /\ [Next]_vars => TablesInv'
<1> SUFFICES ASSUME ParserInv, TablesInv, [Next]_vars PROVE TablesInv'
  OBVIOUS
<1>1. CASE Stands
  BY <1>1 DEF Stands, parserVars, TablesInv
<1>2. CASE Opens
  BY <1>2 DEF Opens, StartParsing, TablesInv
<1>3. CASE UNCHANGED vars
  BY <1>1, <1>3 DEF vars, driverVars, Stands
<1> QED
  BY <1>1, <1>2, <1>3, ParserMoves, NewTables, ParseKeepsTables

-----------------------------------------------------------------------------
(* The plan of a file; what the sentinel has for lengths is arbitrary.     *)
PlanOf(f, planned_end, real_end) ==
  LET n == NumEntries(f)
  IN  [pid     |-> [e \in 0 .. n |-> IF e = n THEN -2 ELSE f.tasks[e + 1].process_id],
       planned |-> [e \in 0 .. n |-> IF e = n THEN planned_end ELSE f.tasks[e + 1].planned],
       real    |-> [e \in 0 .. n |-> IF e = n THEN real_end ELSE f.tasks[e + 1].real],
       buffer  |-> [r \in 0 .. NumBuffers(f) - 1 |-> f.buffers[r + 1]]]

(* What no part of parse_plan sets: it is as in a zeroed struct.           *)
NothingRan ==
  /\ process_lateness = [r \in ProcessTable |-> 0]
  /\ process_retired = [r \in ProcessTable |-> 0]
  /\ lateness = 0
  /\ instructions_retired = 0
  /\ plan_state = 0
  /\ stress = 0

(* What parse_plan sets, for the plan of the file.                         *)
PlanSet(n, q, plan) ==
  /\ size = <<n, q>>
  /\ parsed = [pid |-> plan.pid, real |-> plan.real, buffer |-> plan.buffer,
               instructions_planned |-> SumFunctionOnSet(PlannedIn(file), 0 .. n - 1),
               length_plan |-> [r \in 0 .. q - 1 |->
                                  SumFunctionOnSet(PlannedIn(file), EntriesOf(file, r, n))]]
  /\ planned = plan.planned
  /\ tasks = [i \in 0 .. n |-> i]
  /\ slot_owner = [e \in 0 .. n |-> e]
  /\ retired_task = [e \in 0 .. n |-> 0]
  /\ retired_slot = [e \in 0 .. n |-> 0]
  /\ was_preempted = [e \in 0 .. n |-> 0]
  /\ state = [e \in 0 .. n |-> 0]
  /\ cur = 0
  /\ cur_process = plan.pid[0]
  /\ tasks_finished = 0
  /\ tick_counter = 0

IsRead ==
  /\ file \in Files
  /\ NothingRan
  /\ \E a, b : PlanSet(NumEntries(file), NumBuffers(file), PlanOf(file, a, b))
  /\ processes[NumBuffers(file)].process_id = -2
  /\ \A m \in 0 .. NumBuffers(file) - 1 : processes[m].process_id = m
  /\ \A e \in 0 .. NumEntries(file) - 1 : task_list[e].task_id = FileTaskId(file, e + 1)
  /\ task_list[NumEntries(file)].task_id = -2

(* The task ids of the file are those that number the tasks of the plan.   *)
LEMMA TaskIdsAgree ==
  ASSUME NEW f \in Files, NEW a, NEW b, parsed.pid = PlanOf(f, a, b).pid,
         NEW e \in 0 .. NumEntries(f)
  PROVE  TaskId(e) = IF e = NumEntries(f) THEN -2 ELSE FileTaskId(f, e + 1)
<1> DEFINE n == NumEntries(f)
<1>1. n \in Nat /\ e \in Int
  BY FileType
<1>2. parsed.pid = [x \in 0 .. n |-> IF x = n THEN -2 ELSE f.tasks[x + 1].process_id]
  BY DEF PlanOf
<1>3. CASE e = n
  BY <1>1, <1>2, <1>3 DEF TaskId
<1>4. CASE e # n
  <2>1. e \in 0 .. n - 1 /\ e + 1 \in 1 .. n /\ (e + 1) - 1 = e
    BY <1>1, <1>4
  <2>2. parsed.pid[e] = f.tasks[e + 1].process_id /\ parsed.pid[e] \in -1 .. NumBuffers(f) - 1
    BY <1>2, <1>4, <2>1, FileType
  <2>3. CASE parsed.pid[e] = -1
    BY <1>4, <2>2, <2>3 DEF TaskId, FileTaskId
  <2>4. CASE parsed.pid[e] # -1
    <3> DEFINE T == {j \in 1 .. e : f.tasks[j].process_id # -1}
               V == {x \in 0 .. e - 1 : parsed.pid[x] # -1}
               g == [j \in T |-> j - 1]
    <3>1. IsFiniteSet(T)
      <4>1. IsFiniteSet(1 .. e)
        BY <1>1, FS_Interval
      <4> QED
        BY <4>1, FS_Subset
    <3>2. \A x \in 0 .. e - 1 : parsed.pid[x] = f.tasks[x + 1].process_id
      BY <1>1, <1>2, <2>1
    <3>3. ASSUME NEW j \in T PROVE j - 1 \in V
      <4>1. j \in Int /\ j - 1 \in 0 .. e - 1 /\ (j - 1) + 1 = j
        BY <1>1
      <4>2. parsed.pid[j - 1] = f.tasks[j].process_id
        BY <3>2, <4>1
      <4> QED
        BY <4>1, <4>2
    <3>4. ASSUME NEW x \in V PROVE \E j \in T : g[j] = x
      <4>1. x + 1 \in 1 .. e /\ (x + 1) - 1 = x /\ x \in 0 .. e - 1
        BY <1>1
      <4>2. x + 1 \in T
        BY <3>2, <4>1
      <4>3. g[x + 1] = x
        BY <4>1, <4>2
      <4> QED
        BY <4>2, <4>3
    <3>5. \A j, k \in T : g[j] = g[k] => j = k
      BY <1>1
    <3>6. g \in [T -> V]
      BY <3>3
    <3>7. g \in Bijection(T, V)
      <4> HIDE DEF g, T, V
      <4> QED
        BY <3>4, <3>5, <3>6 DEF Bijection, Injection, Surjection, IsInjective
    <3>8. Cardinality(V) = Cardinality(T)
      <4> HIDE DEF g, T, V
      <4>1. ExistsBijection(T, V)
        BY <3>7 DEF ExistsBijection
      <4> QED
        BY <3>1, <4>1, FS_Bijection
    <3>9. ~ (parsed.pid[e] < 0)
      BY <2>2, <2>4, <1>1, FileType
    <3>10. TaskId(e) = Cardinality(V)
      BY <3>9 DEF TaskId
    <3>11. FileTaskId(f, e + 1) = Cardinality(T)
      BY <2>1, <2>2, <2>4 DEF FileTaskId
    <3> QED
      BY <1>4, <3>8, <3>10, <3>11
  <2> QED
    BY <2>3, <2>4
<1> QED
  BY <1>3, <1>4

(* The sums of the scheduler are those of this module.                     *)
LEMMA SumsAgree ==
  ASSUME NEW n, NEW q, NEW f, NEW T
  PROVE  S(n, q)!SumFunctionOnSet(f, T) = SumFunctionOnSet(f, T)
<1>1. S(n, q)!SumFunctionOnSet(f, T) = PartialSum(f, T)[T]
  BY DEF S!SumFunctionOnSet, S!FoldFunctionOnSet, S!MapThenFoldSet, PartialSum,
         IsPartialSum, Pick
<1> QED
  BY <1>1, SumIsPartialSum

LEMMA ReadIsPlan == IsRead => PlanIsRead
<1> SUFFICES ASSUME IsRead PROVE PlanIsRead
  OBVIOUS
<1>0. PICK n, q : n = NumEntries(file) /\ q = NumBuffers(file)
  OBVIOUS
<1>1. PICK a, b : PlanSet(n, q, PlanOf(file, a, b))
  BY <1>0 DEF IsRead
<1> DEFINE plan == PlanOf(file, a, b)
<1>2. file \in Files /\ n \in Nat /\ q \in Nat /\ n = Len(file.tasks) /\ q = Len(file.buffers)
  BY <1>0, FileType DEF IsRead, NumEntries, NumBuffers
<1>3. /\ plan.pid = [e \in 0 .. n |-> IF e = n THEN -2 ELSE file.tasks[e + 1].process_id]
      /\ plan.planned = [e \in 0 .. n |-> IF e = n THEN a ELSE file.tasks[e + 1].planned]
      /\ plan.real = [e \in 0 .. n |-> IF e = n THEN b ELSE file.tasks[e + 1].real]
      /\ plan.buffer = [r \in 0 .. q - 1 |-> file.buffers[r + 1]]
  BY <1>0 DEF PlanOf
<1>4. planned = plan.planned /\ parsed.real = plan.real /\ parsed.pid = plan.pid
  BY <1>1 DEF PlanSet
<1>5. planned[n] = a /\ parsed.real[n] = b
  BY <1>2, <1>3, <1>4
<1>6. ASSUME NEW T \in SUBSET (0 .. n - 1)
      PROVE  SumFunctionOnSet(plan.planned, T) = SumFunctionOnSet(PlannedIn(file), T)
  <2>1. IsFiniteSet(T)
    <3>1. IsFiniteSet(0 .. n - 1)
      <4>1. 0 \in Int /\ n - 1 \in Int
        BY <1>2
      <4> QED
        BY <4>1, FS_Interval
    <3> QED
      BY <3>1, FS_Subset
  <2>2. \A e \in T : plan.planned[e] = PlannedIn(file)[e]
    <3>1. \A e \in T : e \in 0 .. n /\ e # n /\ e \in 0 .. n - 1
      BY <1>2
    <3>2. \A e \in T : PlannedIn(file)[e] = file.tasks[e + 1].planned
      BY <1>0, <3>1 DEF PlannedIn
    <3> QED
      BY <1>3, <3>1, <3>2
  <2> HIDE DEF plan
  <2> QED
    BY <2>1, <2>2, SumEqual
<1>7. S(n, q)!Entries = 0 .. n - 1 /\ S(n, q)!Indices = 0 .. n /\ S(n, q)!Processes = 0 .. q - 1
      /\ S(n, q)!ProcessIndices = ProcessTable
  BY DEF S!Entries, S!Indices, S!Processes, S!ProcessIndices, ProcessTable
<1>8. S(n, q)!calculate_length_plan(plan) = SumFunctionOnSet(PlannedIn(file), 0 .. n - 1)
  <2>1. S(n, q)!calculate_length_plan(plan)
          = SumFunctionOnSet(plan.planned, S(n, q)!Entries)
    BY SumsAgree DEF S!calculate_length_plan
  <2>2. 0 .. n - 1 \in SUBSET (0 .. n - 1)
    OBVIOUS
  <2> HIDE DEF plan
  <2> QED
    BY <1>6, <1>7, <2>1, <2>2
<1>9. ASSUME NEW r \in 0 .. q - 1
      PROVE  S(n, q)!process_length_plan(plan, r)
               = SumFunctionOnSet(PlannedIn(file), EntriesOf(file, r, n))
  <2>1. {e \in 0 .. n - 1 : plan.pid[e] = r} = EntriesOf(file, r, n)
    <3>1. \A e \in 0 .. n - 1 : e \in 0 .. n /\ e # n
      BY <1>2
    <3> QED
      BY <1>3, <3>1 DEF EntriesOf
  <2>2. EntriesOf(file, r, n) \in SUBSET (0 .. n - 1)
    BY DEF EntriesOf
  <2> QED
    <3>1. S(n, q)!process_length_plan(plan, r)
            = SumFunctionOnSet(plan.planned, {e \in S(n, q)!Entries : plan.pid[e] = r})
      BY SumsAgree DEF S!process_length_plan
    <3> HIDE DEF plan
    <3> QED
      BY <1>6, <1>7, <2>1, <2>2, <3>1
<1>10. S(n, q)!parse_plan(plan)
  <2>1. parsed = [pid |-> plan.pid, real |-> plan.real, buffer |-> plan.buffer,
                  instructions_planned |-> S(n, q)!calculate_length_plan(plan),
                  length_plan |-> [r \in S(n, q)!Processes |->
                                     S(n, q)!process_length_plan(plan, r)]]
    <3>1. [r \in S(n, q)!Processes |-> S(n, q)!process_length_plan(plan, r)]
            = [r \in 0 .. q - 1 |-> SumFunctionOnSet(PlannedIn(file), EntriesOf(file, r, n))]
      BY <1>7, <1>9
    <3> HIDE DEF plan
    <3> QED
      BY <1>1, <1>8, <3>1 DEF PlanSet, plan
  <2> HIDE DEF plan
  <2> QED
    BY <1>1, <1>7, <2>1
    DEF S!parse_plan, PlanSet, IsRead, NothingRan, S!PLAN_TASK_WAITING, S!ON_PLAN, plan
<1>11. IsNumberOfProcesses(q)
  <2>1. \A m \in 0 .. q - 1 : processes[m].process_id # -2
    BY <1>0, <1>2 DEF IsRead
  <2> QED
    BY <1>0, <2>1 DEF IsRead, IsNumberOfProcesses
<1>12. \A e \in 0 .. n : task_list[e].task_id = TaskId(e)
  <2> SUFFICES ASSUME NEW e \in 0 .. n PROVE task_list[e].task_id = TaskId(e)
    OBVIOUS
  <2>1. TaskId(e) = IF e = n THEN -2 ELSE FileTaskId(file, e + 1)
    BY <1>0, <1>2, <1>4, TaskIdsAgree
  <2>2. e # n => e \in 0 .. n - 1
    BY <1>2
  <2> QED
    BY <1>0, <2>1, <2>2 DEF IsRead
<1>13. plan = [pid     |-> [e \in 0 .. n |-> IF e = n THEN -2 ELSE file.tasks[e + 1].process_id],
               planned |-> [e \in 0 .. n |-> IF e = n THEN planned[n]
                                             ELSE file.tasks[e + 1].planned],
               real    |-> [e \in 0 .. n |-> IF e = n THEN parsed.real[n]
                                             ELSE file.tasks[e + 1].real],
               buffer  |-> [r \in 0 .. q - 1 |-> file.buffers[r + 1]]]
  BY <1>0, <1>5 DEF PlanOf
<1>14. size = <<n, q>>
  BY <1>1 DEF PlanSet
<1> HIDE DEF plan
<1> QED
  BY <1>2, <1>10, <1>11, <1>12, <1>13, <1>14 DEF PlanIsRead

(* The fields of a task that is read.                                      *)
LEMMA ReadTaskFields ==
  ASSUME NEW f, NEW i
  PROVE  /\ ReadTask(f, i).task_id = FileTaskId(f, i + 1)
         /\ ReadTask(f, i).process_id = f.tasks[i + 1].process_id
         /\ ReadTask(f, i).instructions_planned = f.tasks[i + 1].planned
         /\ ReadTask(f, i).instructions_real = f.tasks[i + 1].real
BY DEF ReadTask

LEMMA CreatedTaskFields ==
  ASSUME NEW i, NEW p, NEW planned_length, NEW real_length
  PROVE  LET t == create_task(i, p, planned_length, real_length)
         IN  /\ t["process_id"] = p
             /\ t["instructions_real"] = real_length
             /\ t["instructions_planned"] = planned_length
             /\ t["slot_owner"] = i
             /\ t["was_preempted"] = 0
BY DEF create_task

LEMMA ReadProcessFields ==
  ASSUME NEW f, NEW r, NEW c
  PROVE  /\ ReadProcess(f, r, c).process_id = r
         /\ ReadProcess(f, r, c).buffer = f.buffers[r + 1]
         /\ ReadProcess(f, r, c).length_plan
              = SumFunctionOnSet(PlannedIn(f), EntriesOf(f, r, c))
BY DEF ReadProcess

(* The end of parse_plan makes it the plan of the file.                    *)
LEMMA PlanEnd ==
  ASSUME ParserInv, TablesInv, NothingRan, ParsePlanEnd
  PROVE  IsRead'
<1> DEFINE n == NumEntries(file)
           q == NumBuffers(file)
           list == [i \in 1 .. n |->
                      create_task(i - 1, task_list[i - 1].process_id,
                                  task_list[i - 1].instructions_planned,
                                  task_list[i - 1].instructions_real)]
           a == task_list[n].instructions_planned
           b == task_list[n].instructions_real
           plan == PlanOf(file, a, b)
<1>1. /\ section = "all" /\ file \in Files /\ counter = n
      /\ num_tasks = n /\ num_processes = q
  BY DEF ParsePlanEnd, ParserInv
<1>2. n \in Nat /\ q \in Nat
  BY <1>1, FileType
<1>3. file' = file /\ processes' = processes /\ task_list' = task_list
  BY CallsStand DEF Stands, parserVars
<1>4. /\ \A r \in 0 .. q - 1 : processes[r] = ReadProcess(file, r, n)
      /\ processes[q].process_id = -2
      /\ \A i \in 0 .. n - 1 : task_list[i] = ReadTask(file, i)
      /\ task_list[n].task_id = -2 /\ task_list[n].process_id = -2
  BY <1>1 DEF TablesInv
<1>5. Len(list) = n /\ DOMAIN list = 1 .. n
  BY <1>2
<1>6. ASSUME NEW e \in 0 .. n, e # n
      PROVE  /\ e + 1 \in 1 .. n
             /\ list[e + 1] = create_task(e, file.tasks[e + 1].process_id,
                                          file.tasks[e + 1].planned, file.tasks[e + 1].real)
  <2>1. e \in 0 .. n - 1 /\ e + 1 \in 1 .. n /\ (e + 1) - 1 = e
    BY <1>2, <1>6
  <2>2. list[e + 1] = create_task(e, task_list[e].process_id,
                                  task_list[e].instructions_planned,
                                  task_list[e].instructions_real)
    BY <2>1
  <2>3. task_list[e] = ReadTask(file, e)
    BY <1>4, <2>1
  <2> QED
    BY <2>1, <2>2, <2>3 DEF ReadTask
<1>7. /\ \A x : Field(list, "process_id", x)
                  = [e \in 0 .. n |-> IF e = n THEN x ELSE file.tasks[e + 1].process_id]
      /\ \A x : Field(list, "instructions_real", x)
                  = [e \in 0 .. n |-> IF e = n THEN x ELSE file.tasks[e + 1].real]
      /\ \A x : Field(list, "instructions_planned", x)
                  = [e \in 0 .. n |-> IF e = n THEN x ELSE file.tasks[e + 1].planned]
      /\ Field(list, "slot_owner", n) = [e \in 0 .. n |-> e]
      /\ Field(list, "was_preempted", 0) = [e \in 0 .. n |-> 0]
      /\ NothingRun(list) = [e \in 0 .. n |-> 0]
  <2>1. Len(list) = n
    BY <1>5
  <2>2. ASSUME NEW e \in 0 .. n, e # n
        PROVE  /\ list[e + 1]["process_id"] = file.tasks[e + 1].process_id
               /\ list[e + 1]["instructions_real"] = file.tasks[e + 1].real
               /\ list[e + 1]["instructions_planned"] = file.tasks[e + 1].planned
               /\ list[e + 1]["slot_owner"] = e
               /\ list[e + 1]["was_preempted"] = 0
    <3> HIDE DEF list, n
    <3> QED
      BY <1>6, <2>2, CreatedTaskFields
  <2> HIDE DEF list, n
  <2>3. \A x : Field(list, "process_id", x)
                = [e \in 0 .. n |-> IF e = n THEN x ELSE file.tasks[e + 1].process_id]
    BY <2>1, <2>2 DEF Field
  <2>4. \A x : Field(list, "instructions_real", x)
                = [e \in 0 .. n |-> IF e = n THEN x ELSE file.tasks[e + 1].real]
    BY <2>1, <2>2 DEF Field
  <2>5. \A x : Field(list, "instructions_planned", x)
                = [e \in 0 .. n |-> IF e = n THEN x ELSE file.tasks[e + 1].planned]
    BY <2>1, <2>2 DEF Field
  <2>6. Field(list, "slot_owner", n) = [e \in 0 .. n |-> e]
    BY <2>1, <2>2 DEF Field
  <2>7. Field(list, "was_preempted", 0) = [e \in 0 .. n |-> 0]
    BY <2>1, <2>2 DEF Field
  <2>8. NothingRun(list) = [e \in 0 .. n |-> 0]
    BY <2>1 DEF NothingRun
  <2> QED
    BY <2>3, <2>4, <2>5, <2>6, <2>7, <2>8
<1>8. SumFunctionOnSet(Field(list, "instructions_planned", 0), 0 .. n - 1)
        = SumFunctionOnSet(PlannedIn(file), 0 .. n - 1)
  <2>1. IsFiniteSet(0 .. n - 1)
    <3>1. 0 \in Int /\ n - 1 \in Int
      BY <1>2
    <3> QED
      BY <3>1, FS_Interval
  <2>2. \A e \in 0 .. n - 1 : e \in 0 .. n /\ e # n
    BY <1>2
  <2>3. \A e \in 0 .. n - 1 : Field(list, "instructions_planned", 0)[e] = PlannedIn(file)[e]
    <3>1. ASSUME NEW e \in 0 .. n - 1
          PROVE  Field(list, "instructions_planned", 0)[e] = PlannedIn(file)[e]
      <4>1. PlannedIn(file)[e] = file.tasks[e + 1].planned
        BY DEF PlannedIn
      <4>2. e \in 0 .. n /\ e # n
        BY <2>2
      <4>3. Field(list, "instructions_planned", 0)
              = [m \in 0 .. n |-> IF m = n THEN 0 ELSE file.tasks[m + 1].planned]
        BY <1>7
      <4> HIDE DEF list, n
      <4> QED
        BY <4>1, <4>2, <4>3
    <3> QED
      BY <3>1
  <2> HIDE DEF list, n
  <2> QED
    BY <2>1, <2>3, SumEqual
<1>9. /\ plan.pid = Field(list, "process_id", -2)
      /\ plan.planned = Field(list, "instructions_planned", a)
      /\ plan.real = Field(list, "instructions_real", b)
      /\ plan.buffer = [r \in 0 .. q - 1 |-> file.buffers[r + 1]]
  <2> HIDE DEF list, a, b
  <2> QED
    BY <1>7 DEF PlanOf
<1>10. task_list[0].process_id = plan.pid[0]
  <2>1. CASE n = 0
    BY <1>2, <1>4, <2>1 DEF PlanOf
  <2>2. CASE n # 0
    <3>1. 0 \in 0 .. n - 1 /\ 0 \in 0 .. n /\ 0 # n
      BY <1>2, <2>2
    <3>2. task_list[0] = ReadTask(file, 0)
      BY <1>4, <3>1
    <3>3. task_list[0].process_id = file.tasks[0 + 1].process_id
      <4> HIDE DEF n
      <4> QED
        BY <3>2 DEF ReadTask
    <3> QED
      BY <3>1, <3>3 DEF PlanOf
  <2> QED
    BY <2>1, <2>2
<1>11. \A r \in 0 .. q - 1 :
         /\ processes[r].buffer = file.buffers[r + 1]
         /\ processes[r].length_plan
              = SumFunctionOnSet(PlannedIn(file), EntriesOf(file, r, n))
  <2> HIDE DEF n, q
  <2> QED
    BY <1>4, ReadProcessFields
<1>12. NothingRan'
  BY DEF NothingRan, ParsePlanEnd
<1>13. PlanSet(n, q, plan)'
  <2>1. size' = <<n, q>>
    BY <1>1 DEF ParsePlanEnd
  <2>2. parsed' = [pid |-> plan.pid, real |-> plan.real, buffer |-> plan.buffer,
                   instructions_planned |-> SumFunctionOnSet(PlannedIn(file), 0 .. n - 1),
                   length_plan |-> [r \in 0 .. q - 1 |->
                                      SumFunctionOnSet(PlannedIn(file), EntriesOf(file, r, n))]]
    <3>1. parsed' = [pid |-> Field(list, "process_id", task_list[n].process_id),
                     real |-> Field(list, "instructions_real", b),
                     buffer |-> [r \in 0 .. q - 1 |-> processes[r].buffer],
                     length_plan |-> [r \in 0 .. q - 1 |-> processes[r].length_plan],
                     instructions_planned |->
                       SumFunctionOnSet(Field(list, "instructions_planned", 0), 0 .. n - 1)]
      BY <1>1 DEF ParsePlanEnd
    <3> HIDE DEF list, plan, n, q, a, b
    <3> QED
      BY <1>4, <1>8, <1>9, <1>11, <3>1
  <2>3. TasksAre(list, a)
    BY <1>1 DEF ParsePlanEnd
  <2>4. /\ planned' = plan.planned
        /\ tasks' = [i \in 0 .. n |-> i]
        /\ slot_owner' = [e \in 0 .. n |-> e]
        /\ retired_task' = [e \in 0 .. n |-> 0]
        /\ retired_slot' = [e \in 0 .. n |-> 0]
        /\ was_preempted' = [e \in 0 .. n |-> 0]
        /\ state' = [e \in 0 .. n |-> 0]
    <3> HIDE DEF list, plan, n, q, a, b
    <3> QED
      BY <1>5, <1>7, <1>9, <2>3 DEF TasksAre
  <2>5. cur' = 0 /\ cur_process' = plan.pid[0] /\ tasks_finished' = 0 /\ tick_counter' = 0
    BY <1>10 DEF ParsePlanEnd
  <2> QED
    BY <1>3, <2>1, <2>2, <2>4, <2>5 DEF PlanSet, PlanOf, NumEntries, NumBuffers
<1>14. \A m \in 0 .. q - 1 : processes[m].process_id = m
  <2> HIDE DEF n, q
  <2> QED
    BY <1>4, ReadProcessFields
<1>15. \A e \in 0 .. n - 1 : task_list[e].task_id = FileTaskId(file, e + 1)
  <2> HIDE DEF n, q
  <2> QED
    BY <1>4, ReadTaskFields
<1> QED
  BY <1>1, <1>3, <1>4, <1>12, <1>13, <1>14, <1>15 DEF IsRead

-----------------------------------------------------------------------------
(* Up to the end of parse_plan nothing has run, whatever the function that *)
(* reads the file, and from then on the plan is the one of the file until  *)
(* a tick is counted.                                                      *)
ReadingInv ==
  /\ ParserInv
  /\ TablesInv
  /\ \A f \in Readers : at \in {<<f, 2>>, <<f, 3>>} => NothingRan
  /\ \A f \in Readers : at = <<f, 4>> =>
       tick_counter \in Nat /\ (tick_counter = 0 => IsRead)

LEMMA InitReadingInv == Init => ReadingInv
<1> SUFFICES ASSUME Init PROVE ReadingInv
  OBVIOUS
<1>1. at[2] = 1
  BY DEF Init
<1>2. \A f, k : at = <<f, k>> => k = 1
  BY <1>1
<1> QED
  BY <1>2, InitParserInv, InitTablesInv DEF ReadingInv

(* The plan is that of the file as long as both stand.                     *)
LEMMA PlanStays == IsRead /\ UNCHANGED <<planVars, parserVars, file>> => IsRead'
<1> SUFFICES ASSUME IsRead, UNCHANGED <<planVars, parserVars, file>> PROVE IsRead'
  OBVIOUS
<1>1. NothingRan'
  BY DEF IsRead, NothingRan, planVars
<1>2. PICK a, b : PlanSet(NumEntries(file), NumBuffers(file), PlanOf(file, a, b))
  BY DEF IsRead
<1>3. PlanSet(NumEntries(file), NumBuffers(file), PlanOf(file, a, b))'
  <2> DEFINE n == NumEntries(file)
             q == NumBuffers(file)
             plan == PlanOf(file, a, b)
  <2>1. file' = file
    OBVIOUS
  <2>2. PlanSet(n, q, plan)
    BY <1>2
  <2> QED
    BY <2>1, <2>2 DEF PlanSet, planVars
<1> QED
  BY <1>1, <1>3 DEF IsRead, parserVars

(* A new plan of a reader is zeroed.                                       *)
LEMMA NewPlansAreZero == TestPlan(<<>>) \/ ZeroPlan(<<>>, ZeroProcesses) => NothingRan'
<1>1. \A r \in ProcessTable : SetupProcesses[r].lateness = 0 /\ ZeroProcesses[r].lateness = 0
  BY DEF SetupProcesses, ZeroProcesses, create_process
<1>2. \A q, table, total :
        NewPlan(<<>>, q, table, total, 0) /\ (\A r \in ProcessTable : table[r].lateness = 0)
          => NothingRan'
  BY DEF NewPlan, NothingRan
<1> QED
  BY <1>1, <1>2 DEF TestPlan, setup_plan, ZeroPlan

LEMMA NextReadingInv == ReadingInv /\ [Next]_vars => ReadingInv'
<1> SUFFICES ASSUME ReadingInv, [Next]_vars PROVE ReadingInv'
  OBVIOUS
<1>1. ParserInv' /\ TablesInv'
  BY NextParserInv, NextTablesInv DEF ReadingInv
<1>2. CASE UNCHANGED vars
  <2>1. UNCHANGED <<at, planVars, parserVars, file>>
    BY <1>2 DEF vars, driverVars
  <2>2. NothingRan' <=> NothingRan
    BY <2>1 DEF planVars, NothingRan
  <2>3. IsRead => IsRead'
    BY <2>1, PlanStays
  <2> QED
    BY <1>1, <2>1, <2>2, <2>3 DEF ReadingInv, planVars
<1>3. CASE Next
  <2>1. ASSUME NEW f \in Readers, at' \in {<<f, 2>>, <<f, 3>>} PROVE NothingRan'
    <3>1. PICK k \in 2 .. 3 : at' = <<f, k>>
      BY <2>1
    <3>2. \/ TestPlan(<<>>) \/ ZeroPlan(<<>>, ZeroProcesses)
          \/ at = <<f, 2>> /\ ReadPlan
          \/ at = <<f, 3>> /\ ParseStep /\ UNCHANGED <<planVars, signalVars, driverVars>>
      BY <1>3, <3>1, ReaderMoves
    <3>3. UNCHANGED planVars /\ NothingRan => NothingRan'
      BY DEF planVars, NothingRan
    <3> QED
      BY <3>2, <3>3, NewPlansAreZero DEF ReadingInv, ReadPlan
  <2>2. ASSUME NEW f \in Readers, at' = <<f, 4>>
        PROVE  tick_counter' \in Nat /\ (tick_counter' = 0 => IsRead')
    <3>1. \/ at = <<f, 3>> /\ ParsePlanEnd
          \/ at = <<f, 4>> /\ Tick
      <4>1. 4 \in 2 .. 4
        OBVIOUS
      <4> QED
        BY <1>3, <2>2, <4>1, ReaderMoves
    <3>2. CASE at = <<f, 3>> /\ ParsePlanEnd
      <4>1. IsRead'
        BY <3>2, PlanEnd DEF ReadingInv
      <4> QED
        BY <3>2, <4>1 DEF ParsePlanEnd
    <3>3. CASE at = <<f, 4>> /\ Tick
      <4>1. tick_counter \in Nat /\ (tick_counter = 0 => IsRead)
        BY <3>3 DEF ReadingInv
      <4>2. CASE tick_counter' = tick_counter + 1
        BY <4>1, <4>2
      <4>3. CASE UNCHANGED planVars
        <5>1. UNCHANGED <<planVars, parserVars, file>>
          BY <3>3, <4>3, CallsStand DEF Stands
        <5>2. IsRead => IsRead'
          BY <5>1, PlanStays
        <5> QED
          BY <4>1, <4>3, <5>2 DEF planVars
      <4> QED
        BY <3>3, <4>2, <4>3, TickCounts
    <3> QED
      BY <3>1, <3>2, <3>3
  <2> QED
    BY <1>1, <2>1, <2>2 DEF ReadingInv
<1> QED
  BY <1>2, <1>3

(* Whatever the struct held that a file is read into, at the end of        *)
(* parse_plan it is the plan of the file, with nothing run.                *)
THEOREM PlanReadCorrect == Spec => []PlanIsRead
<1>1. ReadingInv => PlanIsRead
  BY ReadIsPlan DEF ReadingInv, PlanIsRead, Readers
<1> QED
  BY <1>1, InitReadingInv, NextReadingInv, PTL DEF Spec

-----------------------------------------------------------------------------
(* What a step does to the signals and the ticks of the plan: nothing, it  *)
(* creates a plan, ends the reading of one, or runs a tick.                *)
Quiet == UNCHANGED <<signalVars, signals_before, tick_counter>>
Renews ==
  /\ tick_counter' = 0
  /\ signals_before' = prediction_failures_caused
  /\ UNCHANGED signalVars
Rereads == tick_counter' = 0 /\ UNCHANGED <<signalVars, signals_before>>
Ticks ==
  /\ tick_counter' = tick_counter + 1
  /\ signals_before' = signals_before
  /\ \/ UNCHANGED signalVars
     \/ \E sig : sig.tick = tick_counter /\ add_signal(sig)

(* A call of pbs_run_timer_tick raises at most one signal, of its tick.    *)
LEMMA TickSignals ==
  ASSUME NEW n \in {size[1]}, NEW q \in {size[2]}, S(n, q)!Next,
         signals_before' = signals_before
  PROVE  Quiet \/ Ticks
<1>1. \A type : S(n, q)!signal(type) => \E sig : sig.tick = tick_counter /\ add_signal(sig)
  <2> SUFFICES ASSUME NEW type, S(n, q)!signal(type)
               PROVE  \E sig : sig.tick = tick_counter /\ add_signal(sig)
    OBVIOUS
  <2> DEFINE sig == [task_id |-> S(n, q)!cur_task, process_id |-> cur_process,
                     tick |-> tick_counter, type_signal |-> type]
  <2>1. sig.tick = tick_counter
    OBVIOUS
  <2>2. add_signal(sig)
    BY DEF S!signal, S!add_signal, S!WRAP_AROUND, add_signal, WRAP_AROUND
  <2> HIDE DEF sig
  <2> QED
    BY <2>1, <2>2
<1>2. \A transgressed, type : S(n, q)!SignalIf(transgressed, type) =>
        \/ UNCHANGED signalVars
        \/ \E sig : sig.tick = tick_counter /\ add_signal(sig)
  BY <1>1 DEF S!SignalIf, S!signalVars, signalVars
<1>3. S(n, q)!TickFinishesTask => Ticks
  BY <1>2 DEF S!TickFinishesTask, Ticks
<1>4. S(n, q)!TimerTick => Ticks
  BY <1>2 DEF S!TimerTick, Ticks
<1>5. S(n, q)!pbs_run_timer_tick => Ticks
  BY <1>3, <1>4 DEF S!pbs_run_timer_tick, S!TickRunsTask, S!TickPreemptsTask, S!TickFindsNoSlot
<1>6. S(n, q)!TickAfterEnd => Quiet
  BY DEF S!TickAfterEnd, S!vars, S!signalVars, S!nodeVars, signalVars, Quiet
<1> QED
  BY <1>5, <1>6 DEF S!Next

LEMMA CallsSignal ==
  /\ Tick => Quiet \/ Ticks
  /\ Preempt => Quiet
  /\ \A factor, target_pid : Reschedule(factor, target_pid) => Quiet
  /\ HandleUnallocatedSlot => Quiet
  /\ \A list : OverwriteTasks(list) => Quiet
  /\ \A real : SetReal(real) => Quiet
  /\ ParsePlanEnd => Rereads
  /\ Return => Quiet
  /\ UNCHANGED <<planVars, signalVars, parserVars, driverVars>> => Quiet
<1>1. Tick => Quiet \/ Ticks
  BY TickSignals DEF Tick, driverVars
<1>2. Preempt => Quiet
  BY DEF Preempt, Quiet, driverVars
<1>3. \A factor, target_pid : Reschedule(factor, target_pid) => Quiet
  BY DEF Reschedule, Quiet, driverVars
<1>4. HandleUnallocatedSlot => Quiet
  BY DEF HandleUnallocatedSlot, Quiet
<1>5. \A list : OverwriteTasks(list) => Quiet
  BY DEF OverwriteTasks, Quiet, driverVars
<1>6. \A real : SetReal(real) => Quiet
  BY DEF SetReal, Quiet
<1>7. ParsePlanEnd => Rereads
  BY DEF ParsePlanEnd, Rereads, driverVars
<1>8. UNCHANGED <<planVars, signalVars, parserVars, driverVars>> => Quiet
  BY DEF Quiet, planVars, driverVars
<1>9. Return => Quiet
  BY <1>8 DEF Return
<1> QED
  BY <1>1, <1>2, <1>3, <1>4, <1>5, <1>6, <1>7, <1>8, <1>9

LEMMA LoopsSignal ==
  \A f, k, condition, next : TickWhile(f, k, condition, next) => Quiet \/ Ticks
BY CallsSignal DEF TickWhile

LEMMA PlansRenew ==
  /\ \A list, q, table, total, late : setup_plan(list, q, table, total, late) => Renews
  /\ \A list : TestPlan(list) => Renews
  /\ \A list, table : ZeroPlan(list, table) => Renews
<1>1. \A list, q, table, total, late : NewPlan(list, q, table, total, late) => Renews
  BY DEF NewPlan, Renews
<1>2. \A list, q, table, total, late : setup_plan(list, q, table, total, late) => Renews
  BY <1>1 DEF setup_plan
<1>3. \A list : TestPlan(list) => Renews
  BY <1>2 DEF TestPlan
<1>4. \A list, table : ZeroPlan(list, table) => Renews
  BY <1>1 DEF ZeroPlan
<1> QED
  BY <1>2, <1>3, <1>4

LEMMA SignalMoves ==
  Next => \/ Quiet \/ Renews \/ Ticks
          \/ Rereads /\ \E f \in Readers : at = <<f, 3>>
<1> DEFINE Ends == Rereads /\ \E f \in Readers : at = <<f, 3>>
<1> SUFFICES ASSUME Next PROVE Quiet \/ Renews \/ Ticks \/ Ends
  OBVIOUS
<1>1. test_find_slot_to_move_to => Renews
  BY PlansRenew DEF test_find_slot_to_move_to
<1>2. test_find_suitable_task => Renews
  BY PlansRenew DEF test_find_suitable_task
<1>3. test_preempt_cur_task => Renews \/ Quiet
  BY PlansRenew, CallsSignal DEF test_preempt_cur_task
<1>4. test_find_next_task_for_all_processes => Renews
  BY PlansRenew DEF test_find_next_task_for_all_processes
<1>5. test_replace_unallocated_slot_in_plan => Renews \/ Quiet
  BY PlansRenew DEF test_replace_unallocated_slot_in_plan, Quiet, driverVars
<1>6. test_handle_unallocated => Renews \/ Quiet
  BY PlansRenew, CallsSignal DEF test_handle_unallocated
<1>7. test_task_state_changes_when_finished => Renews \/ Quiet \/ Ticks
  BY PlansRenew, CallsSignal DEF test_task_state_changes_when_finished
<1>8. test_reschedule => Renews \/ Quiet
  BY PlansRenew, CallsSignal DEF test_reschedule
<1>9. test_task_vs_slot_instructions => Renews \/ Quiet \/ Ticks
  BY PlansRenew, CallsSignal DEF test_task_vs_slot_instructions
<1>10. test_lateness_balancer => Renews \/ Quiet \/ Ticks
  BY PlansRenew, CallsSignal DEF test_lateness_balancer
<1>11. test_get_stack_size_of_preempted_tasks => Renews
  BY PlansRenew DEF test_get_stack_size_of_preempted_tasks
<1>12. ASSUME NEW f \in Readers, test_plan_parsing(f, 2)
       PROVE  Quiet \/ Ends
  <2>1. ReadPlan => Quiet
    BY DEF ReadPlan, Quiet, planVars
  <2>2. UNCHANGED <<planVars, signalVars, driverVars>> => Quiet
    BY DEF Quiet, planVars, driverVars
  <2>3. Step(f, 3) => at = <<f, 3>>
    BY DEF Step, Goto
  <2> QED
    BY <1>12, <2>1, <2>2, <2>3, CallsSignal DEF test_plan_parsing
<1>13. test_run => Renews \/ Quiet \/ Ticks \/ Ends
  BY <1>12, PlansRenew, CallsSignal, LoopsSignal
  DEF test_run, check_run_task_on_time, check_run_task_early_time,
      check_run_task_tm2_early_time, check_run_task_late_time, check_preempt_task, Readers
<1>14. show_t1_preemption => Renews \/ Quiet \/ Ticks
  BY PlansRenew, CallsSignal, LoopsSignal DEF show_t1_preemption
<1>15. show_t2_node_signal => Renews \/ Quiet \/ Ticks
  BY PlansRenew, CallsSignal, LoopsSignal DEF show_t2_node_signal
<1>16. show_tm2_task_signal => Renews \/ Quiet \/ Ticks
  BY PlansRenew, LoopsSignal DEF show_tm2_task_signal
<1>17. full_run => Renews \/ Quiet \/ Ticks \/ Ends
  BY <1>12, PlansRenew, LoopsSignal, TickSignals DEF full_run, Readers
<1> HIDE DEF Ends
<1> QED
  BY <1>1, <1>2, <1>3, <1>4, <1>5, <1>6, <1>7, <1>8, <1>9, <1>10, <1>11, <1>13, <1>14,
     <1>15, <1>16, <1>17, CallsSignal DEF Next

(* The signals raised since the plan was created are in order, and a plan  *)
(* that is being read has not run a tick yet.                              *)
PlanSignalInv ==
  /\ cur_sig_buffer_position \in SigIndices
  /\ DOMAIN lastSignals = SigIndices
  /\ prediction_failures_caused \in Nat
  /\ signals_before \in 0 .. prediction_failures_caused
  /\ tick_counter \in Nat
  /\ \A k \in SigIndices : k < SignalsOfPlan => get_pbs_signal(k).tick \in Nat
  /\ \A f \in Readers : at \in {<<f, 2>>, <<f, 3>>} => tick_counter = 0
  /\ SignalsOfPlanAreOrdered

LEMMA InitPlanSignalInv == Init => PlanSignalInv
<1> SUFFICES ASSUME Init PROVE PlanSignalInv
  OBVIOUS
<1>1. /\ lastSignals = [i \in SigIndices |-> NoSignal]
      /\ cur_sig_buffer_position = 0
      /\ prediction_failures_caused = 0 /\ signals_before = 0
  BY DEF Init, SignalInit
<1>2. cur_sig_buffer_position \in SigIndices
  BY <1>1, ConfigAssumption DEF SigIndices
<1>3. tick_counter = 0
  BY DEF Init, S!parse_plan
<1>4. \A k \in SigIndices : ~ (k < SignalsOfPlan)
  BY <1>1 DEF SigIndices, SignalsOfPlan
<1> QED
  BY <1>1, <1>2, <1>3, <1>4 DEF PlanSignalInv, SignalsOfPlanAreOrdered

(* The reading of a plan starts with a new one.                            *)
LEMMA ReadingHasNoTicks ==
  ASSUME PlanSignalInv, Next, NEW f \in Readers, NEW k \in 2 .. 3, at' = <<f, k>>
  PROVE  tick_counter' = 0
<1>1. \/ TestPlan(<<>>) \/ ZeroPlan(<<>>, ZeroProcesses)
      \/ at = <<f, 2>> /\ ReadPlan
      \/ at = <<f, 3>> /\ UNCHANGED <<planVars, signalVars, driverVars>>
  BY ReaderMoves
<1>2. TestPlan(<<>>) \/ ZeroPlan(<<>>, ZeroProcesses) => tick_counter' = 0
  BY PlansRenew DEF Renews
<1>3. UNCHANGED planVars => tick_counter' = tick_counter
  BY DEF planVars
<1> QED
  BY <1>1, <1>2, <1>3 DEF PlanSignalInv, ReadPlan

LEMMA NextPlanSignalInv == PlanSignalInv /\ [Next]_vars => PlanSignalInv'
<1> SUFFICES ASSUME PlanSignalInv, [Next]_vars PROVE PlanSignalInv'
  OBVIOUS
<1>1. /\ SIZE_SIG_BUFFER \in Nat \ {0}
      /\ prediction_failures_caused \in Nat
      /\ signals_before \in 0 .. prediction_failures_caused
      /\ tick_counter \in Nat
      /\ 0 \in SigIndices
  BY ConfigAssumption DEF PlanSignalInv, SigIndices
<1>2. \A f \in Readers : at' \in {<<f, 2>>, <<f, 3>>} => tick_counter' = 0
  <2>1. CASE UNCHANGED vars
    BY <2>1 DEF vars, planVars, PlanSignalInv
  <2>2. ASSUME Next, NEW f \in Readers, at' \in {<<f, 2>>, <<f, 3>>} PROVE tick_counter' = 0
    <3>1. \E k \in 2 .. 3 : at' = <<f, k>>
      BY <2>2
    <3> QED
      BY <2>2, <3>1, ReadingHasNoTicks
  <2> QED
    BY <2>1, <2>2
<1>3. CASE Quiet
  <2>1. SignalsOfPlanAreOrdered'
    BY <1>3 DEF PlanSignalInv, SignalsOfPlanAreOrdered, Quiet, signalVars, get_pbs_signal,
                SignalsOfPlan
  <2> QED
    BY <1>2, <1>3, <2>1 DEF PlanSignalInv, Quiet, signalVars, get_pbs_signal, SignalsOfPlan
<1>4. CASE Renews
  <2>1. UNCHANGED <<lastSignals, cur_sig_buffer_position, prediction_failures_caused>>
        /\ signals_before' = prediction_failures_caused /\ tick_counter' = 0
    BY <1>4 DEF Renews, signalVars
  <2>2. SignalsOfPlan' = 0
    BY <1>1, <2>1 DEF SignalsOfPlan
  <2>3. \A k \in SigIndices : ~ (k < SignalsOfPlan')
    BY <1>1, <2>2 DEF SigIndices
  <2>4. SignalsOfPlanAreOrdered'
    BY <2>3 DEF SignalsOfPlanAreOrdered
  <2>5. signals_before' \in 0 .. prediction_failures_caused'
    BY <1>1, <2>1
  <2> QED
    BY <1>1, <1>2, <2>1, <2>3, <2>4, <2>5 DEF PlanSignalInv
<1>5. CASE Ticks
  <2>1. tick_counter' = tick_counter + 1 /\ signals_before' = signals_before
    BY <1>5 DEF Ticks
  <2> DEFINE Before == {k \in SigIndices : k < SignalsOfPlan}
  <2>2. /\ \A k \in Before : get_pbs_signal(k).tick \in 0 .. tick_counter - 1
        /\ \A k, m \in Before : k < m => get_pbs_signal(m).tick < get_pbs_signal(k).tick
    BY <1>1 DEF PlanSignalInv, SignalsOfPlanAreOrdered
  <2>3. CASE UNCHANGED signalVars
    <3>1. UNCHANGED <<lastSignals, cur_sig_buffer_position, prediction_failures_caused>>
      BY <2>3 DEF signalVars
    <3>2. \A k : get_pbs_signal(k)' = get_pbs_signal(k)
      BY <3>1 DEF get_pbs_signal
    <3>3. SignalsOfPlan' = SignalsOfPlan
      BY <2>1, <3>1 DEF SignalsOfPlan
    <3>4. SignalsOfPlanAreOrdered'
      BY <1>1, <2>1, <2>2, <3>2, <3>3 DEF SignalsOfPlanAreOrdered
    <3> QED
      BY <1>1, <1>2, <2>1, <3>1, <3>2, <3>3, <3>4 DEF PlanSignalInv
  <2>4. ASSUME NEW sig, sig.tick = tick_counter, add_signal(sig) PROVE PlanSignalInv'
    <3>1. \A k \in SigIndices : get_pbs_signal(k)' = IF k = 0 THEN sig ELSE get_pbs_signal(k - 1)
      BY <2>4, AddSignalMoves DEF PlanSignalInv
    <3>2. /\ prediction_failures_caused' = prediction_failures_caused + 1
          /\ cur_sig_buffer_position' \in SigIndices
          /\ DOMAIN lastSignals' = SigIndices
      BY <2>4, <1>1 DEF add_signal, WRAP_AROUND, PlanSignalInv, SigIndices
    <3>3. SignalsOfPlan' = SignalsOfPlan + 1 /\ SignalsOfPlan \in Nat
      BY <1>1, <2>1, <3>2 DEF SignalsOfPlan
    <3>4. ASSUME NEW k \in SigIndices, k < SignalsOfPlan'
          PROVE  /\ k = 0 => get_pbs_signal(k)'.tick = tick_counter
                 /\ k # 0 => k - 1 \in Before /\ get_pbs_signal(k)' = get_pbs_signal(k - 1)
                 /\ get_pbs_signal(k)'.tick \in 0 .. tick_counter' - 1
      <4>1. CASE k = 0
        BY <1>1, <2>1, <2>4, <3>1, <4>1
      <4>2. CASE k # 0
        <5>1. k - 1 \in Before
          BY <1>1, <3>3, <3>4, <4>2 DEF SigIndices
        <5>2. get_pbs_signal(k)' = get_pbs_signal(k - 1)
          BY <3>1, <4>2
        <5>3. get_pbs_signal(k - 1).tick \in 0 .. tick_counter - 1
          BY <2>2, <5>1
        <5> HIDE DEF Before
        <5>4. get_pbs_signal(k)'.tick \in 0 .. tick_counter' - 1
          BY <1>1, <2>1, <5>2, <5>3
        <5> QED
          BY <4>2, <5>1, <5>2, <5>4
      <4> QED
        BY <4>1, <4>2
    <3>5. ASSUME NEW k \in SigIndices, k < SignalsOfPlan',
                 NEW m \in SigIndices, m < SignalsOfPlan', k < m
          PROVE  get_pbs_signal(m)'.tick < get_pbs_signal(k)'.tick
      <4>1. m # 0 /\ k \in Int /\ m \in Int
        BY <3>5 DEF SigIndices
      <4>2. m - 1 \in Before /\ get_pbs_signal(m)' = get_pbs_signal(m - 1)
        BY <3>4, <3>5, <4>1
      <4>3. CASE k = 0
        <5>1. get_pbs_signal(m - 1).tick \in 0 .. tick_counter - 1
          BY <2>2, <4>2
        <5>2. get_pbs_signal(k)'.tick = tick_counter
          BY <3>4, <3>5, <4>3
        <5> QED
          BY <1>1, <4>2, <5>1, <5>2
      <4>4. CASE k # 0
        <5>1. k - 1 \in Before /\ get_pbs_signal(k)' = get_pbs_signal(k - 1)
          BY <3>4, <3>5, <4>4
        <5>2. k - 1 < m - 1
          BY <3>5, <4>1
        <5> HIDE DEF Before
        <5> QED
          BY <2>2, <4>2, <5>1, <5>2
      <4> QED
        BY <4>3, <4>4
    <3>6. SignalsOfPlanAreOrdered'
      <4>1. \A k \in SigIndices : k < SignalsOfPlan' => get_pbs_signal(k)'.tick < tick_counter'
        BY <1>1, <2>1, <3>4
      <4> QED
        BY <3>5, <4>1 DEF SignalsOfPlanAreOrdered, SigIndices
    <3>7. \A k \in SigIndices : k < SignalsOfPlan' => get_pbs_signal(k)'.tick \in Nat
      BY <3>4
    <3>8. signals_before' \in 0 .. prediction_failures_caused' /\ tick_counter' \in Nat
          /\ prediction_failures_caused' \in Nat
      BY <1>1, <2>1, <3>2
    <3> QED
      BY <1>2, <3>2, <3>6, <3>7, <3>8 DEF PlanSignalInv, SigIndices
  <2> QED
    BY <1>5, <2>3, <2>4 DEF Ticks
<1>6. CASE Rereads /\ \E f \in Readers : at = <<f, 3>>
  <2>1. tick_counter = 0
    BY <1>6 DEF PlanSignalInv
  <2> QED
    BY <1>3, <1>6, <2>1 DEF Rereads, Quiet
<1>7. CASE UNCHANGED vars
  <2>1. Quiet
    BY <1>7 DEF vars, planVars, driverVars, Quiet
  <2> QED
    BY <1>3, <2>1
<1> QED
  BY <1>3, <1>4, <1>5, <1>6, <1>7, SignalMoves

(* From plan to plan, get_pbs_signal returns first the signals of the      *)
(* running plan, ever older ones, for every size of the buffer.            *)
THEOREM PlanSignalsCorrect == Spec => []SignalsOfPlanAreOrdered
<1>1. PlanSignalInv => SignalsOfPlanAreOrdered
  BY DEF PlanSignalInv
<1> QED
  BY <1>1, InitPlanSignalInv, NextPlanSignalInv, PTL DEF Spec

-----------------------------------------------------------------------------
(* The plan at hand runs as PBScheduler says, so that what is proved there *)
(* of its plans holds of the program.  A file is runnable when its plan    *)
(* has a task first, no two free slots in a row and no length below zero,  *)
(* as PBScheduler requires of a plan.                                      *)
Runnable(f) ==
  /\ NumEntries(f) > 0
  /\ NumBuffers(f) > 0
  /\ \A r \in 1 .. NumBuffers(f) : f.buffers[r] >= 0
  /\ \A i \in 1 .. NumEntries(f) : f.tasks[i].planned >= 0 /\ f.tasks[i].real >= 0
  /\ f.tasks[1].process_id # -1
  /\ \A i \in 1 .. NumEntries(f) - 1 :
       f.tasks[i].process_id = -1 => f.tasks[i + 1].process_id # -1

(* The sizes are arbitrary, so that every runnable file is one of these.  *)
RunnableFiles ==
  {f \in Files : Runnable(f) /\ NumEntries(f) = PlanTasks /\ NumBuffers(f) = PlanProcesses}

(* The lengths of the sentinel are what the struct held.                   *)
FilePlans == {PlanOf(f, a, b) : f \in RunnableFiles, a \in Nat, b \in Nat}

R == INSTANCE PreemptionProofs WITH
       NumTasks <- PlanTasks, NumProcesses <- PlanProcesses, Plans <- FilePlans

(* Its sizes and its plans are such as PBScheduler is specified for.       *)
LEMMA SizesAreSound == RunnableFiles # {} => R!PlanAssumption
<1> SUFFICES ASSUME NEW g \in RunnableFiles PROVE R!PlanAssumption
  OBVIOUS
<1>1. /\ PlanTasks \in Nat \ {0}
      /\ PlanProcesses \in Nat \ {0}
      /\ PlanProcesses < MAX_NUMBER_PROCESSES
  BY FileType DEF RunnableFiles, Runnable
<1>2. ASSUME NEW plan \in FilePlans
      PROVE  /\ plan \in R!PlanType
             /\ plan.pid[R!END] = R!END_PID
             /\ plan.pid[0] \in R!Processes
             /\ \A e \in R!Entries : plan.pid[e] # R!END_PID
             /\ \A e \in R!Entries : plan.pid[e] = R!FREE_PID => plan.pid[e + 1] # R!FREE_PID
  <2>1. PICK f \in RunnableFiles, a \in Nat, b \in Nat : plan = PlanOf(f, a, b)
    BY DEF FilePlans
  <2> DEFINE n == PlanTasks
             q == PlanProcesses
  <2>2. f \in Files /\ n = NumEntries(f) /\ q = NumBuffers(f) /\ Runnable(f)
    BY DEF RunnableFiles
  <2>3. /\ plan.pid = [e \in 0 .. n |-> IF e = n THEN -2 ELSE f.tasks[e + 1].process_id]
        /\ plan.planned = [e \in 0 .. n |-> IF e = n THEN a ELSE f.tasks[e + 1].planned]
        /\ plan.real = [e \in 0 .. n |-> IF e = n THEN b ELSE f.tasks[e + 1].real]
        /\ plan.buffer = [r \in 0 .. q - 1 |-> f.buffers[r + 1]]
        /\ plan = [pid |-> plan.pid, planned |-> plan.planned, real |-> plan.real,
                   buffer |-> plan.buffer]
    BY <2>1, <2>2 DEF PlanOf
  <2>4. ASSUME NEW e \in 0 .. n, e # n
        PROVE  /\ e + 1 \in 1 .. n
               /\ f.tasks[e + 1].process_id \in -1 .. q - 1
               /\ f.tasks[e + 1].planned \in Nat
               /\ f.tasks[e + 1].real \in Nat
    <3>1. e + 1 \in 1 .. n
      BY <1>1, <2>4
    <3>2. f.tasks[e + 1] \in [process_id : -1 .. NumBuffers(f) - 1, planned : Int, real : Int]
      BY <2>2, <3>1, FileType
    <3>3. f.tasks[e + 1].planned >= 0 /\ f.tasks[e + 1].real >= 0
      BY <2>2, <3>1 DEF Runnable
    <3> QED
      BY <2>2, <3>1, <3>2, <3>3
  <2>5. /\ R!Entries = 0 .. n - 1 /\ R!Indices = 0 .. n /\ R!Processes = 0 .. q - 1
        /\ R!END = n /\ R!END_PID = -2 /\ R!FREE_PID = -1
    BY DEF R!Entries, R!Indices, R!Processes, R!END, R!END_PID, R!FREE_PID
  <2>6. plan.pid \in [0 .. n -> (0 .. q - 1) \cup {-1, -2}]
    <3>1. \A e \in 0 .. n : e # n => f.tasks[e + 1].process_id \in (0 .. q - 1) \cup {-1, -2}
      <4> SUFFICES ASSUME NEW e \in 0 .. n, e # n
                   PROVE  f.tasks[e + 1].process_id \in (0 .. q - 1) \cup {-1, -2}
        OBVIOUS
      <4>1. f.tasks[e + 1].process_id \in -1 .. q - 1
        BY <2>4
      <4> QED
        BY <1>1, <4>1
    <3> QED
      BY <2>3, <3>1
  <2>7. plan.planned \in [0 .. n -> Nat] /\ plan.real \in [0 .. n -> Nat]
    BY <2>3, <2>4
  <2>8. plan.buffer \in [0 .. q - 1 -> Nat]
    <3> SUFFICES ASSUME NEW r \in 0 .. q - 1 PROVE f.buffers[r + 1] \in Nat
      BY <2>3
    <3>1. r + 1 \in 1 .. q
      BY <1>1
    <3>2. f.buffers[r + 1] \in Int
      BY <2>2, <3>1, FileType
    <3>3. f.buffers[r + 1] >= 0
      BY <2>2, <3>1 DEF Runnable
    <3> QED
      BY <3>2, <3>3
  <2>9. plan \in R!PlanType
    <3> HIDE DEF n, q
    <3> QED
      BY <2>3, <2>5, <2>6, <2>7, <2>8 DEF R!PlanType
  <2>10. plan.pid[n] = -2
    BY <1>1, <2>3
  <2>11. plan.pid[0] \in 0 .. q - 1
    <3>1. 0 \in 0 .. n /\ 0 # n
      BY <1>1
    <3>2. f.tasks[0 + 1].process_id \in -1 .. q - 1 /\ f.tasks[1].process_id # -1
      BY <2>2, <2>4, <3>1 DEF Runnable
    <3>3. plan.pid[0] = f.tasks[1].process_id
      BY <2>3, <3>1
    <3> QED
      BY <1>1, <3>2, <3>3
  <2>12. ASSUME NEW e \in 0 .. n - 1 PROVE plan.pid[e] # -2
    <3>1. e \in 0 .. n /\ e # n
      BY <1>1
    <3>2. f.tasks[e + 1].process_id \in -1 .. q - 1
      BY <2>4, <3>1
    <3>3. plan.pid[e] = f.tasks[e + 1].process_id
      BY <2>3, <3>1
    <3> QED
      BY <1>1, <3>2, <3>3
  <2>13. ASSUME NEW e \in 0 .. n - 1, plan.pid[e] = -1 PROVE plan.pid[e + 1] # -1
    <3>1. e \in 0 .. n /\ e # n /\ e + 1 \in 0 .. n
      BY <1>1
    <3>2. plan.pid[e] = f.tasks[e + 1].process_id
      BY <2>3, <3>1
    <3>3. CASE e + 1 = n
      BY <2>10, <3>3
    <3>4. CASE e + 1 # n
      <4>1. e + 1 \in 1 .. n - 1 /\ (e + 1) + 1 = e + 2
        BY <1>1, <3>4
      <4>2. plan.pid[e + 1] = f.tasks[(e + 1) + 1].process_id
        BY <2>3, <3>1, <3>4
      <4>3. f.tasks[(e + 1) + 1].process_id # -1
        BY <2>2, <2>13, <3>2, <4>1 DEF Runnable
      <4> QED
        BY <4>2, <4>3
    <3> QED
      BY <3>3, <3>4
  <2> QED
    BY <2>5, <2>9, <2>10, <2>11, <2>12, <2>13
<1> QED
  BY <1>1, <1>2 DEF R!PlanAssumption

-----------------------------------------------------------------------------
(* The program uses the scheduler with the size of the plan at hand, for   *)
(* which the definitions are those of the plan of a runnable file.         *)
LEMMA SameNames ==
  /\ S(PlanTasks, PlanProcesses)!END = R!END
  /\ S(PlanTasks, PlanProcesses)!Indices = R!Indices
  /\ S(PlanTasks, PlanProcesses)!Entries = R!Entries
  /\ S(PlanTasks, PlanProcesses)!Processes = R!Processes
  /\ S(PlanTasks, PlanProcesses)!ProcessIndices = R!ProcessIndices
  /\ S(PlanTasks, PlanProcesses)!cur_task = R!cur_task
  /\ S(PlanTasks, PlanProcesses)!FREE_PID = R!FREE_PID
  /\ S(PlanTasks, PlanProcesses)!FREE_PROCESS = R!FREE_PROCESS
  /\ S(PlanTasks, PlanProcesses)!PLAN_TASK_WAITING = R!PLAN_TASK_WAITING
  /\ S(PlanTasks, PlanProcesses)!PLAN_TASK_RUNNING = R!PLAN_TASK_RUNNING
  /\ S(PlanTasks, PlanProcesses)!PLAN_TASK_FINISHED = R!PLAN_TASK_FINISHED
  /\ S(PlanTasks, PlanProcesses)!ON_PLAN = R!ON_PLAN
  /\ S(PlanTasks, PlanProcesses)!PLAN_FINISHED = R!PLAN_FINISHED
  /\ S(PlanTasks, PlanProcesses)!T2_SIGNAL = R!T2_SIGNAL
  /\ S(PlanTasks, PlanProcesses)!TM2_SIGNAL = R!TM2_SIGNAL
  /\ \A a : S(PlanTasks, PlanProcesses)!ProcessOf(a) = R!ProcessOf(a)
  /\ \A a : S(PlanTasks, PlanProcesses)!IsFreeSlot(a) <=> R!IsFreeSlot(a)
BY DEF S!END, R!END, S!Indices, R!Indices, S!Entries, R!Entries, S!Processes,
       R!Processes, S!ProcessIndices, R!ProcessIndices, S!cur_task, R!cur_task,
       S!IsFreeSlot, R!IsFreeSlot, S!FREE_PID, R!FREE_PID, S!ProcessOf,
       R!ProcessOf, S!FREE_PROCESS, R!FREE_PROCESS, S!PLAN_TASK_WAITING,
       R!PLAN_TASK_WAITING, S!PLAN_TASK_RUNNING, R!PLAN_TASK_RUNNING,
       S!PLAN_TASK_FINISHED, R!PLAN_TASK_FINISHED, S!ON_PLAN, R!ON_PLAN,
       S!PLAN_FINISHED, R!PLAN_FINISHED, S!T2_SIGNAL, R!T2_SIGNAL, S!TM2_SIGNAL,
       R!TM2_SIGNAL

LEMMA SameMacros ==
  /\ S(PlanTasks, PlanProcesses)!T1_NO_PREEMPTION = R!T1_NO_PREEMPTION
  /\ S(PlanTasks, PlanProcesses)!T2_SIGMA = R!T2_SIGMA
  /\ S(PlanTasks, PlanProcesses)!T2_SPACER = R!T2_SPACER
  /\ S(PlanTasks, PlanProcesses)!T2_PROCESS_MINIMUM = R!T2_PROCESS_MINIMUM
  /\ S(PlanTasks, PlanProcesses)!TM2_SIGMA = R!TM2_SIGMA
  /\ S(PlanTasks, PlanProcesses)!TM2_TASK_SIGNALING_LIMIT = R!TM2_TASK_SIGNALING_LIMIT
  /\ S(PlanTasks, PlanProcesses)!TM2_TASK_SIGNALING_START = R!TM2_TASK_SIGNALING_START
  /\ S(PlanTasks, PlanProcesses)!T2_CAPACITY_BUFFER = R!T2_CAPACITY_BUFFER
  /\ S(PlanTasks, PlanProcesses)!T2_ASSIGNABLE_PLAN_BUFFER = R!T2_ASSIGNABLE_PLAN_BUFFER
  /\ S(PlanTasks, PlanProcesses)!T2_NODE_LATENESS = R!T2_NODE_LATENESS
  /\ S(PlanTasks, PlanProcesses)!TM2_NODE_EARLINESS_CAP = R!TM2_NODE_EARLINESS_CAP
  /\ S(PlanTasks, PlanProcesses)!TM2_NODE_LOWER_BOUND = R!TM2_NODE_LOWER_BOUND
  /\ S(PlanTasks, PlanProcesses)!RESCHEDULE_TIME = R!RESCHEDULE_TIME
  /\ S(PlanTasks, PlanProcesses)!STRETCH_CONSTANT = R!STRETCH_CONSTANT
  /\ S(PlanTasks, PlanProcesses)!SHRINK_CONSTANT = R!SHRINK_CONSTANT
  /\ S(PlanTasks, PlanProcesses)!T2_STRESS_GAIN = R!T2_STRESS_GAIN
  /\ \A a, b : S(PlanTasks, PlanProcesses)!MaxOf(a, b) = R!MaxOf(a, b)
  /\ \A a, b : S(PlanTasks, PlanProcesses)!MinOf(a, b) = R!MinOf(a, b)
  /\ \A a, b : S(PlanTasks, PlanProcesses)!CDiv(a, b) = R!CDiv(a, b)
BY DEF S!T1_NO_PREEMPTION, R!T1_NO_PREEMPTION, S!T2_SIGMA, R!T2_SIGMA,
       S!T2_SPACER, R!T2_SPACER, S!T2_PROCESS_MINIMUM, R!T2_PROCESS_MINIMUM,
       S!TM2_SIGMA, R!TM2_SIGMA, S!TM2_TASK_SIGNALING_LIMIT,
       R!TM2_TASK_SIGNALING_LIMIT, S!TM2_TASK_SIGNALING_START,
       R!TM2_TASK_SIGNALING_START, S!T2_CAPACITY_BUFFER, R!T2_CAPACITY_BUFFER,
       S!T2_ASSIGNABLE_PLAN_BUFFER, R!T2_ASSIGNABLE_PLAN_BUFFER,
       S!T2_NODE_LATENESS, R!T2_NODE_LATENESS, S!TM2_NODE_EARLINESS_CAP,
       R!TM2_NODE_EARLINESS_CAP, S!TM2_NODE_LOWER_BOUND, R!TM2_NODE_LOWER_BOUND,
       S!RESCHEDULE_TIME, R!RESCHEDULE_TIME, S!STRETCH_CONSTANT,
       R!STRETCH_CONSTANT, S!SHRINK_CONSTANT, R!SHRINK_CONSTANT,
       S!T2_STRESS_GAIN, R!T2_STRESS_GAIN, S!T2_TASK_SIGNALING_LIMIT,
       R!T2_TASK_SIGNALING_LIMIT, S!MaxOf, R!MaxOf, S!MinOf, R!MinOf, S!CDiv,
       R!CDiv

LEMMA SameThresholds ==
  /\ \A a : S(PlanTasks, PlanProcesses)!calculate_t1(a) = R!calculate_t1(a)
  /\ \A a : S(PlanTasks, PlanProcesses)!calculate_t2_task(a) = R!calculate_t2_task(a)
  /\ \A a, b, c, x, y, z : S(PlanTasks, PlanProcesses)!check_t2_process(a, b, c, x, y, z) <=> R!check_t2_process(a, b, c, x, y, z)
  /\ \A a, b, c : S(PlanTasks, PlanProcesses)!calculate_t2_node(a, b, c) = R!calculate_t2_node(a, b, c)
  /\ \A a : S(PlanTasks, PlanProcesses)!check_t2_preemptions(a) <=> R!check_t2_preemptions(a)
  /\ \A a : S(PlanTasks, PlanProcesses)!calculate_tm2_task(a) = R!calculate_tm2_task(a)
  /\ \A a : S(PlanTasks, PlanProcesses)!calculate_tm2_node(a) = R!calculate_tm2_node(a)
BY SameMacros DEF S!calculate_t1, R!calculate_t1, S!calculate_t2_task,
       R!calculate_t2_task, S!calculate_capacity_buffer,
       R!calculate_capacity_buffer, S!calculate_process_completion,
       R!calculate_process_completion, S!calculate_allowed_plan_buffer,
       R!calculate_allowed_plan_buffer, S!check_t2_process, R!check_t2_process,
       S!calculate_t2_node, R!calculate_t2_node, S!check_t2_preemptions,
       R!check_t2_preemptions, S!calculate_tm2_task, R!calculate_tm2_task,
       S!calculate_tm2_node, R!calculate_tm2_node

LEMMA SameChecks ==
  /\ \A a, b : S(PlanTasks, PlanProcesses)!check_t2_task(a, b) <=> R!check_t2_task(a, b)
  /\ \A a, b, c, x : S(PlanTasks, PlanProcesses)!check_t2_node(a, b, c, x) <=> R!check_t2_node(a, b, c, x)
  /\ \A a, b : S(PlanTasks, PlanProcesses)!check_tm2_task(a, b) <=> R!check_tm2_task(a, b)
  /\ \A a, b : S(PlanTasks, PlanProcesses)!check_tm2_node(a, b) <=> R!check_tm2_node(a, b)
BY SameThresholds DEF S!check_t2_task, R!check_t2_task, S!check_t2_node,
       R!check_t2_node, S!check_tm2_task, R!check_tm2_task, S!check_tm2_node,
       R!check_tm2_node

LEMMA SamePieces ==
  /\ \A a : S(PlanTasks, PlanProcesses)!SlotRetired(a) = R!SlotRetired(a)
  /\ \A a : S(PlanTasks, PlanProcesses)!ProcessRetired(a) = R!ProcessRetired(a)
  /\ S(PlanTasks, PlanProcesses)!FinishesInTick <=> R!FinishesInTick
  /\ \A a, b : S(PlanTasks, PlanProcesses)!reschedule(a, b) = R!reschedule(a, b)
  /\ \A a, b : S(PlanTasks, PlanProcesses)!SignalIf(a, b) <=> R!SignalIf(a, b)
  /\ \A a, b, c, x, y : S(PlanTasks, PlanProcesses)!enter_slot(a, b, c, x, y) <=> R!enter_slot(a, b, c, x, y)
  /\ \A a, b : S(PlanTasks, PlanProcesses)!switch_task(a, b) <=> R!switch_task(a, b)
BY SameNames DEF S!SlotRetired, R!SlotRetired, S!ProcessRetired,
       R!ProcessRetired, S!FinishesInTick, R!FinishesInTick, S!reschedule,
       R!reschedule, S!signal, R!signal, S!SignalIf, R!SignalIf, S!add_signal, S!WRAP_AROUND,
       R!add_signal, R!WRAP_AROUND, S!signalVars, R!signalVars, S!enter_slot, R!enter_slot,
       S!switch_task, R!switch_task

LEMMA SameTransgressions ==
  /\ S(PlanTasks, PlanProcesses)!Tm2Transgressed <=> R!Tm2Transgressed
  /\ S(PlanTasks, PlanProcesses)!PlannedAfterTm2 = R!PlannedAfterTm2
  /\ S(PlanTasks, PlanProcesses)!lateness_cur_task = R!lateness_cur_task
  /\ S(PlanTasks, PlanProcesses)!T2Transgressed <=> R!T2Transgressed
  /\ S(PlanTasks, PlanProcesses)!PlannedAfterT2 = R!PlannedAfterT2
  /\ S(PlanTasks, PlanProcesses)!LatenessAfterT2 = R!LatenessAfterT2
  /\ S(PlanTasks, PlanProcesses)!StressAfterT2 = R!StressAfterT2
  /\ S(PlanTasks, PlanProcesses)!T1Transgressed <=> R!T1Transgressed
BY SameNames, SameMacros, SameThresholds, SameChecks, SamePieces DEF
       S!Tm2Transgressed, R!Tm2Transgressed, S!PlannedAfterTm2,
       R!PlannedAfterTm2, S!lateness_cur_task, R!lateness_cur_task,
       S!T2Transgressed, R!T2Transgressed, S!PlannedAfterT2, R!PlannedAfterT2,
       S!LatenessAfterT2, R!LatenessAfterT2, S!StressAfterT2, R!StressAfterT2,
       S!T1Transgressed, R!T1Transgressed

LEMMA SameLists ==
  /\ \A a, b, c, x, y : S(PlanTasks, PlanProcesses)!IsInsertionSlot(a, b, c, x, y) <=> R!IsInsertionSlot(a, b, c, x, y)
  /\ \A a, b, c, x, y, z : S(PlanTasks, PlanProcesses)!IsStackSize(a, b, c, x, y, z) <=> R!IsStackSize(a, b, c, x, y, z)
  /\ \A a, b, c, x : S(PlanTasks, PlanProcesses)!move_tasks(a, b, c, x) = R!move_tasks(a, b, c, x)
  /\ \A a, b, c, x, y : S(PlanTasks, PlanProcesses)!move_slots(a, b, c, x, y) = R!move_slots(a, b, c, x, y)
BY DEF S!IsInsertionSlot, R!IsInsertionSlot, S!IsStackSize, R!IsStackSize,
       S!move_tasks, R!move_tasks, S!move_slots, R!move_slots

LEMMA SameTickFinishesTask == S(PlanTasks, PlanProcesses)!TickFinishesTask => R!TickFinishesTask
BY SameNames, SamePieces, SameTransgressions DEF S!SignalIf, R!SignalIf,
       S!signalVars, R!signalVars, S!TickFinishesTask, R!TickFinishesTask

LEMMA SameTimerTick == S(PlanTasks, PlanProcesses)!TimerTick => R!TimerTick
BY SameNames, SamePieces, SameTransgressions DEF S!SignalIf, R!SignalIf,
       S!signalVars, R!signalVars, S!TimerTick, R!TimerTick

LEMMA SameTickRunsTask == S(PlanTasks, PlanProcesses)!TickRunsTask => R!TickRunsTask
BY SameNames, SamePieces, SameTransgressions, SameTimerTick DEF S!Retire,
       R!Retire, S!TickRunsTask, R!TickRunsTask

LEMMA SameTickPreemptsTask == S(PlanTasks, PlanProcesses)!TickPreemptsTask => R!TickPreemptsTask
BY SameNames, SamePieces, SameTransgressions, SameTimerTick, SameLists DEF
       S!Retire, R!Retire, S!preempt_cur_task, R!preempt_cur_task,
       S!TickPreemptsTask, R!TickPreemptsTask

LEMMA SameTickFindsNoSlot == S(PlanTasks, PlanProcesses)!TickFindsNoSlot => R!TickFindsNoSlot
BY SameNames, SamePieces, SameTransgressions, SameTimerTick, SameLists DEF
       S!Retire, R!Retire, S!TickFindsNoSlot, R!TickFindsNoSlot

LEMMA SameTickAfterEnd == S(PlanTasks, PlanProcesses)!TickAfterEnd => R!TickAfterEnd
BY SameNames DEF S!vars, R!vars, S!taskVars, R!taskVars, S!processVars,
       R!processVars, S!nodeVars, R!nodeVars, S!signalVars, R!signalVars,
       S!TickAfterEnd, R!TickAfterEnd

LEMMA SameNext == S(PlanTasks, PlanProcesses)!Next => R!Next
BY SameTickFinishesTask, SameTickRunsTask, SameTickPreemptsTask,
       SameTickFindsNoSlot, SameTickAfterEnd DEF S!Next, R!Next,
       S!pbs_run_timer_tick, R!pbs_run_timer_tick

(* The sums over the tasks agree.                                          *)
LEMMA SumsAreSame ==
  ASSUME NEW f, NEW T
  PROVE  S(PlanTasks, PlanProcesses)!SumFunctionOnSet(f, T) = R!SumFunctionOnSet(f, T)
<1>1. R!SumFunctionOnSet(f, T) = PartialSum(f, T)[T]
  BY DEF R!SumFunctionOnSet, R!FoldFunctionOnSet, R!MapThenFoldSet, PartialSum,
         IsPartialSum, Pick
<1> QED
  BY <1>1, SumsAgree, SumIsPartialSum

-----------------------------------------------------------------------------
(* The lengths in the tables behind what is read are those of a new plan.  *)
UnreadInv ==
  \A i \in DOMAIN task_list :
    \/ section \in {"tasks", "all"} /\ i < counter
    \/ task_list[i].instructions_planned \in Nat /\ task_list[i].instructions_real \in Nat

LEMMA InitUnreadInv == Init => UnreadInv
<1> SUFFICES ASSUME Init PROVE UnreadInv
  OBVIOUS
<1>1. NoTask.instructions_planned \in Nat /\ NoTask.instructions_real \in Nat
  BY DEF NoTask
<1>2. task_list = [i \in 0 .. MAX_NUMBER_TASKS_IN_PLAN - 1 |-> NoTask]
  BY DEF Init
<1> QED
  BY <1>1, <1>2 DEF UnreadInv

LEMMA NextUnreadInv == ParserInv /\ UnreadInv /\ [Next]_vars => UnreadInv'
<1> SUFFICES ASSUME ParserInv, UnreadInv, [Next]_vars PROVE UnreadInv'
  OBVIOUS
<1>1. CASE Stands
  BY <1>1 DEF Stands, parserVars, UnreadInv
<1>2. CASE Opens
  <2>1. PICK f \in Files : StartParsing(Written(f))
    BY <1>2 DEF Opens
  <2>2. section = "nothing" /\ task_list' = task_list
    BY <2>1 DEF StartParsing
  <2> QED
    BY <2>2 DEF UnreadInv
<1>3. CASE UNCHANGED vars
  BY <1>1, <1>3 DEF vars, driverVars, Stands
<1>4. CASE Creates
  <2>1. CASE ZeroTables
    BY <2>1 DEF ZeroTables, UnreadInv, NoTask
  <2>2. CASE SetupTables
    <3> SUFFICES ASSUME NEW i \in DOMAIN task_list'
                 PROVE  /\ task_list'[i].instructions_planned \in Nat
                        /\ task_list'[i].instructions_real \in Nat
      BY DEF UnreadInv
    <3>1. i \in 0 .. MAX_NUMBER_TASKS_IN_PLAN - 1
      BY <2>2 DEF SetupTables
    <3>2. task_list'[i].instructions_planned = i /\ task_list'[i].instructions_real = i
      BY <2>2, <3>1 DEF SetupTables
    <3> QED
      BY <3>1, <3>2, ParserAssumption
  <2> QED
    BY <1>4, <2>1, <2>2 DEF Creates
<1>5. CASE Reads
  <2>1. CASE ParseNumberOfProcesses
    <3>1. section \notin {"tasks", "all"}
      BY <2>1 DEF ParseNumberOfProcesses
    <3>2. task_list' = task_list
      BY <2>1 DEF ParseNumberOfProcesses
    <3> QED
      BY <3>1, <3>2 DEF UnreadInv
  <2>2. CASE parse_next_process
    BY <2>2 DEF parse_next_process, UnreadInv
  <2>3. CASE ParseMetaEnd
    BY <2>3 DEF ParseMetaEnd, UnreadInv
  <2>4. CASE parse_next_task
    <3>1. counter \in Nat
      <4>1. file \in Files /\ counter \in 0 .. NumEntries(file)
        BY <2>4 DEF parse_next_task, ParserInv
      <4> QED
        BY <4>1, FileType
    <3> SUFFICES ASSUME NEW i \in DOMAIN task_list, ~ i < counter + 1
                 PROVE  /\ task_list'[i].instructions_planned \in Nat
                        /\ task_list'[i].instructions_real \in Nat
      BY <2>4 DEF parse_next_task, UnreadInv
    <3>2. i \in Int
      <4>1. DOMAIN task_list = 0 .. MAX_NUMBER_TASKS_IN_PLAN - 1
        BY DEF ParserInv
      <4>2. DOMAIN task_list' = DOMAIN task_list
        BY <2>4 DEF parse_next_task
      <4> QED
        BY <4>1, <4>2
    <3>3. i # counter /\ ~ i < counter
      BY <3>1, <3>2
    <3>4. task_list'[i] = task_list[i]
      BY <2>4, <3>3 DEF parse_next_task
    <3> QED
      BY <3>3, <3>4 DEF UnreadInv
  <2>5. CASE ParseTasksEnd
    <3>1. \A i \in DOMAIN task_list :
            /\ task_list'[i].instructions_planned = task_list[i].instructions_planned
            /\ task_list'[i].instructions_real = task_list[i].instructions_real
      BY <2>5, NextTablesInv DEF ParseTasksEnd, TablesInv, TaskFields
    <3>2. DOMAIN task_list' = DOMAIN task_list /\ section' = "all" /\ counter' = counter
          /\ section = "tasks"
      BY <2>5 DEF ParseTasksEnd
    <3> QED
      BY <3>1, <3>2 DEF UnreadInv
  <2> QED
    BY <1>5, <2>1, <2>2, <2>3, <2>4, <2>5 DEF Reads, ParseStep
<1> QED
  BY <1>1, <1>2, <1>3, <1>4, <1>5, ParserMoves

(* What the end of parse_plan takes for the sentinel was never written.    *)
LEMMA EndIsNatural ==
  ASSUME ParserInv, UnreadInv, ParsePlanEnd
  PROVE  /\ planned'[NumEntries(file')] \in Nat
         /\ parsed'.real[NumEntries(file')] \in Nat
<1> DEFINE n == NumEntries(file)
<1>1. section = "all" /\ file \in Files /\ counter = n /\ num_tasks = n
  BY DEF ParsePlanEnd, ParserInv
<1>2. n \in Nat /\ n \in DOMAIN task_list
  BY <1>1, FileType, ParserAssumption DEF ParserInv
<1>3. file' = file
  BY CallsStand DEF Stands
<1>4. task_list[n].instructions_planned \in Nat /\ task_list[n].instructions_real \in Nat
  BY <1>1, <1>2 DEF UnreadInv
<1> DEFINE list == [i \in 1 .. n |->
                      create_task(i - 1, task_list[i - 1].process_id,
                                  task_list[i - 1].instructions_planned,
                                  task_list[i - 1].instructions_real)]
<1>5. Len(list) = n
  BY <1>2
<1>6. /\ planned' = Field(list, "instructions_planned", task_list[n].instructions_planned)
      /\ parsed'.real = Field(list, "instructions_real", task_list[n].instructions_real)
  BY <1>1 DEF ParsePlanEnd, TasksAre
<1>7. \A name, last : Field(list, name, last)[n] = last
  <2> HIDE DEF list
  <2> QED
    BY <1>2, <1>5 DEF Field
<1> HIDE DEF list
<1> QED
  BY <1>3, <1>4, <1>6, <1>7

-----------------------------------------------------------------------------
(* What is read from a runnable file is a plan of the scheduler.           *)
PlanAtHand ==
  /\ IsRead
  /\ at = <<"full_run", 4>>
  /\ file \in RunnableFiles
  /\ planned[NumEntries(file)] \in Nat /\ parsed.real[NumEntries(file)] \in Nat

LEMMA ReadLoads ==
  PlanAtHand => size = <<PlanTasks, PlanProcesses>> /\ R!PlanIsLoaded /\ R!PlanInv
<1> SUFFICES ASSUME PlanAtHand
             PROVE  size = <<PlanTasks, PlanProcesses>> /\ R!PlanIsLoaded /\ R!PlanInv
  OBVIOUS
<1> DEFINE n == PlanTasks
           q == PlanProcesses
           a == planned[n]
           b == parsed.real[n]
           plan == PlanOf(file, a, b)
<1>1. n = NumEntries(file) /\ q = NumBuffers(file) /\ n = Len(file.tasks) /\ q = Len(file.buffers)
  BY DEF PlanAtHand, RunnableFiles, NumEntries, NumBuffers
<1>2. tick_counter = 0
  BY DEF PlanAtHand, IsRead, PlanSet
<1>3. size = <<n, q>> /\ S(n, q)!parse_plan(plan)
  <2>1. plan = [pid     |-> [e \in 0 .. n |-> IF e = n THEN -2 ELSE file.tasks[e + 1].process_id],
                planned |-> [e \in 0 .. n |-> IF e = n THEN planned[n]
                                              ELSE file.tasks[e + 1].planned],
                real    |-> [e \in 0 .. n |-> IF e = n THEN parsed.real[n]
                                              ELSE file.tasks[e + 1].real],
                buffer  |-> [r \in 0 .. q - 1 |-> file.buffers[r + 1]]]
    BY <1>1 DEF PlanOf
  <2>2. PlanIsRead
    BY ReadIsPlan DEF PlanAtHand
  <2> HIDE DEF plan
  <2> QED
    BY <1>1, <1>2, <2>1, <2>2 DEF PlanAtHand, PlanIsRead
<1>4. plan \in FilePlans
  BY <1>1 DEF PlanAtHand, FilePlans
<1>5. R!calculate_length_plan(plan) = S(n, q)!calculate_length_plan(plan)
  BY SumsAreSame, SameNames DEF S!calculate_length_plan, R!calculate_length_plan
<1>6. \A r : R!process_length_plan(plan, r) = S(n, q)!process_length_plan(plan, r)
  BY SumsAreSame, SameNames DEF S!process_length_plan, R!process_length_plan
<1>7. R!parse_plan(plan)
  <2> HIDE DEF plan
  <2> QED
    BY <1>3, <1>5, <1>6, SameNames DEF S!parse_plan, R!parse_plan
<1>8. R!PlanIsLoaded
  <2> HIDE DEF plan
  <2> QED
    BY <1>4, <1>7 DEF R!PlanIsLoaded
<1>9. RunnableFiles # {}
  BY DEF PlanAtHand
<1> QED
  BY <1>3, <1>8, <1>9, ConfigAssumption, SizesAreSound, R!LoadedPlanInv

(* A step of the program at its last loops, of the plan and of the ticks.  *)
LEMMA EndMoves ==
  ASSUME Next, at' \in {<<"full_run", 5>>, <<"full_run", 0>>}
  PROVE  \/ /\ at = <<"full_run", 4>> /\ IsEnd(cur_task)
            /\ UNCHANGED <<planVars, signalVars, parserVars, driverVars>>
         \/ /\ at = <<"full_run", 5>>
            /\ \E n \in {size[1]}, q \in {size[2]} : S(n, q)!Next
            /\ UNCHANGED <<size, file>>
<1>1. at'[1] = "full_run" /\ at'[2] \in {0, 5}
  OBVIOUS
<1>2. ~ Return
  <2>1. SUFFICES ASSUME Return PROVE FALSE
    OBVIOUS
  <2>2. at'[1] = "main" \/ at'[2] = 1
    BY <2>1 DEF Return
  <2> QED
    BY <1>1, <2>2
<1>3. /\ ~ test_find_slot_to_move_to
      /\ ~ test_find_suitable_task
      /\ ~ test_find_next_task_for_all_processes
      /\ ~ test_get_stack_size_of_preempted_tasks
  BY <1>1 DEF test_find_slot_to_move_to, test_find_suitable_task,
              test_find_next_task_for_all_processes,
              test_get_stack_size_of_preempted_tasks, Goto
<1>4. /\ ~ test_preempt_cur_task
      /\ ~ test_replace_unallocated_slot_in_plan
      /\ ~ test_handle_unallocated
      /\ ~ test_task_state_changes_when_finished
  BY <1>1 DEF test_preempt_cur_task, test_replace_unallocated_slot_in_plan,
              test_handle_unallocated, test_task_state_changes_when_finished, Step, Goto
<1>5. ~ test_reschedule /\ ~ test_task_vs_slot_instructions /\ ~ test_lateness_balancer
  BY <1>1 DEF test_reschedule, test_task_vs_slot_instructions,
              test_lateness_balancer, Step, Goto
<1>6. ~ show_t1_preemption /\ ~ show_t2_node_signal /\ ~ show_tm2_task_signal
  BY <1>1 DEF show_t1_preemption, show_t2_node_signal, show_tm2_task_signal,
              TickWhile, Step, Goto
<1>7. ~ test_run
  BY <1>1 DEF test_run, test_plan_parsing, check_run_task_on_time, check_run_task_early_time,
              check_run_task_tm2_early_time, check_run_task_late_time, check_preempt_task,
              TickWhile, Step, Goto
<1>8. full_run
  BY <1>2, <1>3, <1>4, <1>5, <1>6, <1>7 DEF Next
<1>9. ~ test_plan_parsing("full_run", 2)
  BY <1>1 DEF test_plan_parsing, Step, Goto
<1> QED
  BY <1>1, <1>8, <1>9 DEF full_run, TickWhile, Step, Goto

(* The statements of full_run behind the end of parse_plan.                *)
RunsPlan == {<<"full_run", 4>>, <<"full_run", 5>>, <<"full_run", 0>>}

(* While the plan of a runnable file runs, it keeps what the scheduler     *)
(* keeps, and the first loop ends at its sentinel.                         *)
FullRunInv ==
  at \in RunsPlan /\ file \in RunnableFiles =>
    /\ size = <<PlanTasks, PlanProcesses>>
    /\ R!PlanInv
    /\ at[2] # 4 => IsEnd(cur_task)

(* A tick of the program is one of the scheduler.                          *)
LEMMA TickKeepsPlan ==
  ASSUME file \in RunnableFiles, size = <<PlanTasks, PlanProcesses>>, R!PlanInv,
         \E n \in {size[1]}, q \in {size[2]} : S(n, q)!Next
  PROVE  R!PlanInv' /\ (IsEnd(cur_task) => IsEnd(cur_task)')
<1>1. S(PlanTasks, PlanProcesses)!Next
  OBVIOUS
<1>2. R!Next
  BY <1>1, SameNext
<1>3. R!PlanInv'
  BY <1>2, ConfigAssumption, SizesAreSound, R!NextPlanInv
<1>4. IsEnd(cur_task) => IsEnd(cur_task)'
  <2> SUFFICES ASSUME IsEnd(cur_task) PROVE IsEnd(cur_task)'
    OBVIOUS
  <2>1. R!cur_task \in R!Indices /\ \A e \in R!Entries : parsed.pid[e] # R!END_PID
    <3>1. R!TypeOK /\ R!PlanOK
      BY DEF R!PlanInv, R!IInv
    <3> QED
      BY <3>1 DEF R!TypeOK, R!PlanOK, R!cur_task
  <2>2. cur_task = R!END
    <3>1. PlanTasks \in Nat
      BY SizesAreSound DEF R!PlanAssumption
    <3>2. cur_task \in 0 .. PlanTasks /\ cur_task \notin 0 .. PlanTasks - 1
      BY <2>1 DEF R!Entries, R!Indices, R!END_PID, IsEnd, cur_task, R!cur_task
    <3> QED
      BY <3>1, <3>2 DEF R!END
  <2>3. R!TickAfterEnd
    BY <1>2, <2>2
    DEF R!Next, R!pbs_run_timer_tick, R!TickFinishesTask, R!TickRunsTask,
        R!TickPreemptsTask, R!TickFindsNoSlot, R!TimerTick, cur_task, R!cur_task
  <2>4. parsed' = parsed /\ tasks' = tasks /\ cur' = cur
    BY <2>3 DEF R!TickAfterEnd, R!vars
  <2> QED
    BY <2>4 DEF IsEnd, cur_task
<1> QED
  BY <1>3, <1>4

(* Behind parse_plan the plan of the file is in the struct.                *)
LEMMA EndLoads ==
  ASSUME ReadingInv, UnreadInv, at = <<"full_run", 3>>, at' = <<"full_run", 4>>,
         ParsePlanEnd, file' \in RunnableFiles
  PROVE  size' = <<PlanTasks, PlanProcesses>> /\ R!PlanIsLoaded' /\ R!PlanInv'
<1>1. NothingRan
  BY DEF ReadingInv, Readers
<1>2. IsRead'
  BY <1>1, PlanEnd DEF ReadingInv
<1>3. planned'[NumEntries(file')] \in Nat /\ parsed'.real[NumEntries(file')] \in Nat
  BY EndIsNatural DEF ReadingInv
<1>4. PlanAtHand'
  BY <1>2, <1>3 DEF PlanAtHand
<1>5. (size = <<PlanTasks, PlanProcesses>>)' /\ R!PlanIsLoaded' /\ R!PlanInv'
  BY <1>4, ReadLoads, PTL
<1> QED
  BY <1>5

LEMMA InitFullRunInv == Init => FullRunInv
<1> SUFFICES ASSUME Init PROVE FullRunInv
  OBVIOUS
<1>1. at[2] = 1
  BY DEF Init
<1> QED
  BY <1>1 DEF FullRunInv, RunsPlan

LEMMA NextFullRunInv == ReadingInv /\ UnreadInv /\ FullRunInv /\ [Next]_vars => FullRunInv'
<1> SUFFICES ASSUME ReadingInv, UnreadInv, FullRunInv, [Next]_vars,
                    at' \in RunsPlan,
                    file' \in RunnableFiles
             PROVE  /\ size' = <<PlanTasks, PlanProcesses>>
                    /\ R!PlanInv'
                    /\ at'[2] # 4 => IsEnd(cur_task)'
  BY DEF FullRunInv
<1>1. UNCHANGED <<planVars, signalVars>> =>
        UNCHANGED size /\ (R!PlanInv => R!PlanInv') /\ (IsEnd(cur_task) => IsEnd(cur_task)')
  <2> SUFFICES ASSUME UNCHANGED <<planVars, signalVars>>
               PROVE  /\ UNCHANGED size
                      /\ R!PlanInv => R!PlanInv'
                      /\ IsEnd(cur_task) => IsEnd(cur_task)'
    OBVIOUS
  <2>1. UNCHANGED R!vars /\ UNCHANGED size
    BY DEF planVars, signalVars, R!vars, R!taskVars, R!processVars, R!nodeVars, R!signalVars
  <2>2. R!PlanInv => R!PlanInv'
    BY <2>1, ConfigAssumption, SizesAreSound, R!NextPlanInv
  <2> QED
    BY <2>1, <2>2 DEF planVars, IsEnd, cur_task
<1>2. CASE UNCHANGED vars
  BY <1>1, <1>2 DEF vars, driverVars, FullRunInv
<1>3. CASE Next /\ at' = <<"full_run", 4>>
  <2>1. \/ at = <<"full_run", 3>> /\ ParsePlanEnd
        \/ at = <<"full_run", 4>> /\ Tick
    <3>1. 4 \in 2 .. 4 /\ "full_run" \in Readers
      BY DEF Readers
    <3> QED
      BY <1>3, <3>1, ReaderMoves
  <2>2. CASE at = <<"full_run", 3>> /\ ParsePlanEnd
    BY <1>3, <2>2, EndLoads
  <2>3. CASE at = <<"full_run", 4>> /\ Tick
    <3>1. file' = file /\ size' = size
      BY <2>3 DEF Tick, driverVars
    <3>2. size = <<PlanTasks, PlanProcesses>> /\ R!PlanInv
      BY <2>3, <3>1 DEF FullRunInv, RunsPlan
    <3>3. R!PlanInv'
      BY <2>3, <3>1, <3>2, TickKeepsPlan DEF Tick
    <3> QED
      BY <1>3, <3>1, <3>2, <3>3
  <2> QED
    BY <2>1, <2>2, <2>3
<1>4. CASE Next /\ at' \in {<<"full_run", 5>>, <<"full_run", 0>>}
  <2>1. CASE /\ at = <<"full_run", 4>> /\ IsEnd(cur_task)
             /\ UNCHANGED <<planVars, signalVars, parserVars, driverVars>>
    BY <1>1, <2>1 DEF driverVars, FullRunInv, RunsPlan
  <2>2. CASE /\ at = <<"full_run", 5>>
             /\ \E n \in {size[1]}, q \in {size[2]} : S(n, q)!Next
             /\ UNCHANGED <<size, file>>
    <3>1. size = <<PlanTasks, PlanProcesses>> /\ R!PlanInv /\ IsEnd(cur_task)
      BY <2>2 DEF FullRunInv, RunsPlan
    <3> QED
      BY <2>2, <3>1, TickKeepsPlan
  <2> QED
    BY <1>4, <2>1, <2>2, EndMoves
<1> QED
  BY <1>2, <1>3, <1>4 DEF RunsPlan

(* Statement 4 is the loop over the plan, 5 the ticks behind its end.      *)
FullRunIsSafe ==
  at \in RunsPlan /\ file \in RunnableFiles =>
    /\ R!PlanIsSafe
    /\ at[2] # 4 => IsEnd(cur_task)

(* full_run: from the end of parse_plan to the last tick behind the end,   *)
(* the plan of every runnable file is as safe as PBScheduler shows of one  *)
(* plan, whatever the plans before it left in the signal buffer, and the   *)
(* loop ends at the sentinel, where further ticks stay.                    *)
THEOREM FullRunCorrect == Spec => []FullRunIsSafe
<1>1. FullRunInv => FullRunIsSafe
  BY ConfigAssumption, SizesAreSound, R!PlanInvIsSafe DEF FullRunInv, FullRunIsSafe
<1>2. ReadingInv => ParserInv
  BY DEF ReadingInv
<1> QED
  BY <1>1, <1>2, InitReadingInv, NextReadingInv, InitUnreadInv, NextUnreadInv,
     InitFullRunInv, NextFullRunInv, PTL DEF Spec

(* Behind parse_plan a plan is loaded, and from there the plan only ticks. *)
FullRunIsPlanRun ==
  [][at' \in RunsPlan /\ file' \in RunnableFiles =>
       IF at \in RunsPlan THEN [R!Next]_R!vars ELSE R!PlanIsLoaded']_vars

LEMMA FullRunSteps ==
  ASSUME ReadingInv, UnreadInv, FullRunInv, Next, at' \in RunsPlan, file' \in RunnableFiles
  PROVE  IF at \in RunsPlan THEN [R!Next]_R!vars ELSE R!PlanIsLoaded'
<1>1. CASE at' = <<"full_run", 4>>
  <2>1. \/ at = <<"full_run", 3>> /\ ParsePlanEnd
        \/ at = <<"full_run", 4>> /\ Tick
    <3>1. 4 \in 2 .. 4 /\ "full_run" \in Readers
      BY DEF Readers
    <3> QED
      BY <1>1, <3>1, ReaderMoves
  <2>2. CASE at = <<"full_run", 3>> /\ ParsePlanEnd
    BY <1>1, <2>2, EndLoads DEF RunsPlan
  <2>3. CASE at = <<"full_run", 4>> /\ Tick
    <3>1. size = <<PlanTasks, PlanProcesses>>
      BY <2>3 DEF Tick, driverVars, FullRunInv, RunsPlan
    <3>2. S(PlanTasks, PlanProcesses)!Next
      BY <2>3, <3>1 DEF Tick
    <3> QED
      BY <2>3, <3>2, SameNext DEF RunsPlan
  <2> QED
    BY <2>1, <2>2, <2>3
<1>2. CASE at' \in {<<"full_run", 5>>, <<"full_run", 0>>}
  <2>1. CASE at = <<"full_run", 4>> /\ UNCHANGED <<planVars, signalVars>>
    <3>1. UNCHANGED R!vars
      BY <2>1
      DEF planVars, signalVars, R!vars, R!taskVars, R!processVars, R!nodeVars, R!signalVars
    <3> QED
      BY <2>1, <3>1 DEF RunsPlan
  <2>2. CASE /\ at = <<"full_run", 5>>
             /\ \E n \in {size[1]}, q \in {size[2]} : S(n, q)!Next
             /\ UNCHANGED <<size, file>>
    <3>1. size = <<PlanTasks, PlanProcesses>>
      BY <2>2 DEF FullRunInv, RunsPlan
    <3>2. S(PlanTasks, PlanProcesses)!Next
      BY <2>2, <3>1
    <3> QED
      BY <2>2, <3>2, SameNext DEF RunsPlan
  <2> QED
    BY <1>2, <2>1, <2>2, EndMoves
<1> QED
  BY <1>1, <1>2 DEF RunsPlan

(* The program implements PBScheduler: the end of parse_plan is an initial *)
(* state of it but for the signal buffer, and from there every step is one *)
(* of pbs_run_timer_tick or does not touch the plan.                       *)
THEOREM FullRunImplements == Spec => FullRunIsPlanRun
<1>1. ReadingInv => ParserInv
  BY DEF ReadingInv
<1>2. ReadingInv /\ UnreadInv /\ FullRunInv /\ [Next]_vars =>
        [at' \in RunsPlan /\ file' \in RunnableFiles =>
           IF at \in RunsPlan THEN [R!Next]_R!vars ELSE R!PlanIsLoaded']_vars
  BY FullRunSteps
<1> QED
  BY <1>1, <1>2, InitReadingInv, NextReadingInv, InitUnreadInv, NextUnreadInv,
     InitFullRunInv, NextFullRunInv, PTL DEF Spec, FullRunIsPlanRun
=============================================================================
