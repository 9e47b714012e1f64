---------------------------- MODULE SignalHistory ----------------------------
(***************************************************************************)
(* What a reader of the signal buffer may rely on: get_pbs_signal(k) is    *)
(* the signal before which k newer ones came, as far back as the buffer    *)
(* reaches.  There are no positions and nothing wraps around.              *)
(***************************************************************************)
EXTENDS Integers

CONSTANTS
  Depth,     \* how many signals are remembered
  Signals,   \* the signals that may come
  NoSignal   \* in place of a signal that has not come yet

VARIABLES
  recent,    \* recent[0] is the latest signal
  total      \* how many came so far

historyVars == <<recent, total>>

Init ==
  /\ recent = [k \in 0 .. Depth - 1 |-> NoSignal]
  /\ total = 0

Record(sig) ==
  /\ recent' = [k \in 0 .. Depth - 1 |-> IF k = 0 THEN sig ELSE recent[k - 1]]
  /\ total' = total + 1

Next == \E sig \in Signals : Record(sig)

Spec == Init /\ [][Next]_historyVars
=============================================================================
