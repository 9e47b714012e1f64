----------------------------- MODULE SignalBuffer -----------------------------
(***************************************************************************)
(* prediction_failure_signaling.c: the ring buffer of the latest           *)
(* prediction failure signals.  lastSignals is written round robin; the    *)
(* first signal goes to index 1, index 0 is reached after a wrap around.   *)
(***************************************************************************)
EXTENDS PBSConfig

VARIABLES
  lastSignals,
  cur_sig_buffer_position,
  prediction_failures_caused

signalVars == <<lastSignals, cur_sig_buffer_position, prediction_failures_caused>>

(* struct PredictionFailureSignal *)
Signal == [task_id : Int, process_id : Int, tick : Nat, type_signal : Int]

SigIndices == 0 .. SIZE_SIG_BUFFER - 1

(* What the zero-initialised array holds before the first signal. *)
NoSignal == [task_id |-> 0, process_id |-> 0, tick |-> 0, type_signal |-> 0]

SignalInit ==
  /\ lastSignals = [i \in SigIndices |-> NoSignal]
  /\ cur_sig_buffer_position = 0
  /\ prediction_failures_caused = 0

(* Variants: the literal is larger, and smaller, than the array is long.   *)
WRAP_AROUND_LONG == SIZE_SIG_BUFFER + 1
WRAP_AROUND_SHORT == SIZE_SIG_BUFFER - 1

(* add_signal wraps around at a literal 100, while the array and its       *)
(* readers go by SIZE_SIG_BUFFER, which happens to be 100, too.            *)
WRAP_AROUND == SIZE_SIG_BUFFER

(* Variant: writes before it goes on.                                      *)
add_signal_FIRST(sig) ==
  /\ lastSignals' = [lastSignals EXCEPT ![cur_sig_buffer_position] = sig]
  /\ cur_sig_buffer_position' = IF cur_sig_buffer_position + 1 = WRAP_AROUND
                                THEN 0
                                ELSE cur_sig_buffer_position + 1
  /\ prediction_failures_caused' = prediction_failures_caused + 1

add_signal(sig) ==
  /\ cur_sig_buffer_position' = IF cur_sig_buffer_position + 1 = WRAP_AROUND
                                THEN 0
                                ELSE cur_sig_buffer_position + 1
  /\ lastSignals' = [lastSignals EXCEPT ![cur_sig_buffer_position'] = sig]
  /\ prediction_failures_caused' = prediction_failures_caused + 1

(* Variant: counts back from the last index instead of from the length.    *)
get_pbs_signal_WRAP(pick) ==
  LET target_index == cur_sig_buffer_position - pick
  IN  IF target_index >= 0
      THEN lastSignals[target_index]
      ELSE lastSignals[SIZE_SIG_BUFFER - 1 + target_index]

(* The signal pick positions before the latest one (0 is the latest). *)
get_pbs_signal(pick) ==
  LET target_index == cur_sig_buffer_position - pick
  IN  IF target_index >= 0
      THEN lastSignals[target_index]
      ELSE lastSignals[SIZE_SIG_BUFFER + target_index]

(* The indices print_signals prints.  It stops behind an entry with tick 0 *)
(* and compares a tick before it has read one: what the variable sig holds *)
(* then is undefined.                                                      *)
print_signals(undefined_tick) ==
  {i \in SigIndices : undefined_tick # 0 /\ \A j \in 0 .. i - 1 : lastSignals[j].tick # 0}

(* The position stays in the array.                                        *)
SignalTypeOK ==
  /\ lastSignals \in [SigIndices -> Signal]
  /\ cur_sig_buffer_position \in SigIndices
  /\ prediction_failures_caused \in Nat

(* print_signals prints the array, not the history: when it prints at all, *)
(* then no signal before the first wrap around, because index 0 is still   *)
(* empty, and, if none was raised in tick 0, all that get_pbs_signal knows *)
(* afterwards.                                                             *)
PrintedSignals ==
  \A undefined_tick \in {0, 1} :
    LET printed == {lastSignals[i] : i \in print_signals(undefined_tick)}
        known   == {get_pbs_signal(k) : k \in SigIndices}
    IN  /\ prediction_failures_caused < SIZE_SIG_BUFFER => printed \subseteq {NoSignal}
        /\ /\ prediction_failures_caused >= SIZE_SIG_BUFFER
           /\ \A sig \in known : sig.tick # 0
           => printed \in {{}, known}
=============================================================================
