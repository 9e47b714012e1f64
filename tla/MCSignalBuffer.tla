---------------------------- MODULE MCSignalBuffer ----------------------------
(***************************************************************************)
(* The signal buffer for TLC, with a bound on the number of signals.       *)
(***************************************************************************)
EXTENDS SignalBufferSpec

CONSTANT MaxSignals  \* enough to go round the buffer more than twice

MCSignals ==
  {[task_id |-> t, process_id |-> 0, tick |-> tick, type_signal |-> type] :
     t \in 0 .. 1, tick \in 0 .. 1, type \in {2, -2}}

MCAnySignal == prediction_failures_caused < MaxSignals /\ AnySignal

MCSpec == SignalInit /\ [][MCAnySignal]_signalVars
=============================================================================
