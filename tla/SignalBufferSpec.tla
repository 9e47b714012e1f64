--------------------------- MODULE SignalBufferSpec ---------------------------
(***************************************************************************)
(* The signal buffer on its own, used in any way its interface allows, and *)
(* the claim that the ring buffer is a SignalHistory.                      *)
(***************************************************************************)
EXTENDS SignalBuffer

CONSTANT Signals  \* the values of sig that signal_t2 and signal_tm2 pass

ASSUME SignalsAssumption == Signals \subseteq Signal

AnySignal == \E sig \in Signals : add_signal(sig)

SignalSpec == SignalInit /\ [][AnySignal]_signalVars

-----------------------------------------------------------------------------
History == INSTANCE SignalHistory WITH
             Depth  <- SIZE_SIG_BUFFER,
             recent <- [k \in SigIndices |-> get_pbs_signal(k)],
             total  <- prediction_failures_caused

(* lastSignals is a "ring buffer to track latest signals": through         *)
(* get_pbs_signal, which wraps around on its own, it looks like a sliding  *)
(* window over all signals.                                                *)
ImplementsSignalHistory == History!Spec
=============================================================================
