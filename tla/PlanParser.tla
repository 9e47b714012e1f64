------------------------------ MODULE PlanParser ------------------------------
(***************************************************************************)
(* parse_plan.c: reading the text of a plan into a struct PBS_Plan.  A     *)
(* text is a sequence of symbols, a number being one symbol; parse_meta    *)
(* and parse_tasks take one step per turn of their loops.  Only texts that *)
(* follow the format are read: the code has no check that could fail.      *)
(***************************************************************************)
EXTENDS PBSConfig, Sequences, FiniteSets

CONSTANT MAX_NUMBER_TASKS_IN_PLAN  \* length of p->tasks

ASSUME ParserAssumption == MAX_NUMBER_TASKS_IN_PLAN \in Nat \ {0}

VARIABLES
  text,           \* plan_s; its end stands for '\0'
  position,       \* cur_position
  section,        \* what parse_plan is reading
  counter,        \* process_counter of parse_meta, i of parse_tasks
  num_processes,  \* p->num_processes
  num_tasks,      \* p->num_tasks
  processes,      \* p->processes
  task_list       \* p->tasks

parserVars == <<text, position, section, counter, num_processes, num_tasks,
                processes, task_list>>

-----------------------------------------------------------------------------
NUMBER == 0
COMMA  == 1
SEMI   == 2
NEWLINE == 15   \* called END in the source

Symbols == [symbol : {NUMBER, COMMA, SEMI, NEWLINE}, value : Int]

(* The number at the position, and those behind the separators after it.   *)
NumberAt(k) == text[position + 2 * k].value

NoProcess == [process_id |-> 0, buffer |-> 0, length_plan |-> 0]
NoTask == [task_id |-> 0, process_id |-> 0, instructions_planned |-> 0,
           instructions_real |-> 0]

(* Which task_list and processes the struct holds before is up to the      *)
(* caller: zeros, or what setup_plan writes.                               *)
NothingRead ==
  /\ text = <<>>
  /\ position = 1
  /\ section = "nothing"
  /\ counter = 0
  /\ num_processes = 0
  /\ num_tasks = 0

(* Another struct, into which nothing is read yet.                         *)
NewStruct ==
  /\ text' = <<>>
  /\ position' = 1
  /\ section' = "nothing"
  /\ counter' = 0
  /\ num_processes' = 0
  /\ num_tasks' = 0

StartParsing(plan_s) ==
  /\ section = "nothing"
  /\ text' = plan_s
  /\ section' = "number of processes"
  /\ UNCHANGED <<position, counter, num_processes, num_tasks, processes, task_list>>

-----------------------------------------------------------------------------
(* parse_meta *)

ParseNumberOfProcesses ==
  /\ section = "number of processes"
  /\ text[position].symbol = NUMBER
  /\ num_processes' = NumberAt(0)
  /\ position' = position + 2
  /\ section' = "processes"
  /\ UNCHANGED <<text, counter, num_tasks, processes, task_list>>

MetaEnds == text[position].symbol = SEMI /\ text[position + 1].symbol = SEMI

parse_next_process ==
  /\ section = "processes"
  /\ ~ MetaEnds
  /\ processes' = [processes EXCEPT ![counter] =
                     [process_id |-> NumberAt(0), buffer |-> NumberAt(1), length_plan |-> 0]]
  /\ counter' = counter + 1
  /\ position' = position + 4
  /\ UNCHANGED <<text, section, num_processes, num_tasks, task_list>>

(* Variant: counts the semicolons of the whole text.                       *)
count_tasks_ALL(start) == Cardinality({i \in DOMAIN text : text[i].symbol = SEMI})

count_tasks(start) ==
  Cardinality({i \in start .. Len(text) : text[i].symbol = SEMI})

(* Behind the last process comes one that number_processes_in_plan stops   *)
(* at.  parse_tasks begins with counting the tasks.                        *)
ParseMetaEnd ==
  /\ section = "processes"
  /\ MetaEnds
  /\ processes' = [processes EXCEPT ![num_processes] =
                     [process_id |-> -2, buffer |-> -2, length_plan |-> 0]]
  /\ num_tasks' = count_tasks(position + 2)
  /\ position' = position + 2
  /\ counter' = 0
  /\ section' = "tasks"
  /\ UNCHANGED <<text, num_processes, task_list>>

-----------------------------------------------------------------------------
(* parse_tasks *)

parse_next_task ==
  /\ section = "tasks"
  /\ counter < num_tasks
  /\ task_list' = [task_list EXCEPT ![counter] =
                     [task_id |-> NumberAt(1), process_id |-> NumberAt(0),
                      instructions_planned |-> NumberAt(2),
                      instructions_real |-> NumberAt(3)]]
  /\ processes' = IF NumberAt(0) = -1 THEN processes
                  ELSE [processes EXCEPT ![NumberAt(0)].length_plan = @ + NumberAt(2)]
  /\ counter' = counter + 1
  /\ position' = position + 8
  /\ UNCHANGED <<text, section, num_processes, num_tasks>>

(* "signals end of plan": only the two ids of the sentinel are written.    *)
ParseTasksEnd ==
  /\ section = "tasks"
  /\ counter = num_tasks
  /\ task_list' = [task_list EXCEPT ![counter].task_id = -2, ![counter].process_id = -2]
  /\ section' = "all"
  /\ UNCHANGED <<text, position, counter, num_processes, num_tasks, processes>>

ParseStep ==
  \/ ParseNumberOfProcesses
  \/ parse_next_process
  \/ ParseMetaEnd
  \/ parse_next_task
  \/ ParseTasksEnd

(* number_processes_in_plan() = n *)
IsNumberOfProcesses(n) ==
  processes[n].process_id = -2 /\ \A m \in 0 .. n - 1 : processes[m].process_id # -2

-----------------------------------------------------------------------------
(* The parser never leaves the text, the tables of the struct have room    *)
(* for what it reads and for the ends it writes, and the tasks that are    *)
(* counted beforehand reach exactly up to the end of the line (parse_meta, *)
(* count_tasks, parse_tasks).                                              *)
ParserTypeOK ==
  /\ text \in Seq(Symbols)
  /\ position \in 1 .. Len(text) + 1
  /\ section \in {"nothing", "number of processes", "processes", "tasks", "all"}
  /\ num_processes \in 0 .. MAX_NUMBER_PROCESSES - 1
  /\ num_tasks \in 0 .. MAX_NUMBER_TASKS_IN_PLAN - 1
  /\ counter \in 0 .. IF section \in {"tasks", "all"} THEN num_tasks ELSE num_processes
  /\ section = "tasks" => position + 8 * (num_tasks - counter) = Len(text)
  /\ DOMAIN processes = 0 .. MAX_NUMBER_PROCESSES - 1
  /\ DOMAIN task_list = 0 .. MAX_NUMBER_TASKS_IN_PLAN - 1
=============================================================================
