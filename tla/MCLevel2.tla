------------------------------- MODULE MCLevel2 -------------------------------
(***************************************************************************)
(* Plan files for the model checker.  test_run presupposes some things of  *)
(* its file: five tasks first, the second of another process than the      *)
(* first and about as long as planned, and for the fifth a later task of   *)
(* its process to be preempted into.  It asserts that the file has three   *)
(* processes.                                                              *)
(***************************************************************************)
EXTENDS Level2

CONSTANTS
  Lengths,  \* <<planned, real>> that the other tasks may have
  Tails     \* what may follow the first five tasks

MCEntry(pid, length) ==
  [process_id |-> pid, planned |-> length[1], real |-> length[2]]

CanBePreempted(pids) ==
  \E i, j \in 6 .. Len(pids) : i < j /\ pids[i] # pids[5] /\ pids[j] = pids[5]

MCPids ==
  {<<0, 1, 2>> \o middle \o tail : middle \in [1 .. 2 -> 0 .. 2], tail \in Tails}

MCFiles ==
  {[buffers |-> <<7000, 6000, 6500>>,
    tasks |-> [i \in DOMAIN pids |->
                 MCEntry(pids[i], IF i = 2 THEN <<1250, 1260>>
                                  ELSE IF i % 2 = 0 THEN even ELSE odd)]] :
     pids \in {p \in MCPids : CanBePreempted(p)}, even \in Lengths, odd \in Lengths}

MCLengths == {<<1250, 1250>>, <<900, 120>>, <<1200, 1900>>}

MCTails == {<<1, 0>>, <<-1, 1>>, <<0, 2>>}
=============================================================================
