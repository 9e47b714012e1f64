-------------------------- MODULE SignalBufferProofs --------------------------
(***************************************************************************)
(* Proofs about the signal buffer for every buffer size and every set of   *)
(* signals.                                                                *)
(***************************************************************************)
EXTENDS SignalBufferSpec, CommonLemmas

(* The position stays inside lastSignals, whatever signals arrive.         *)
THEOREM SignalTypeCorrect == SignalSpec => []SignalTypeOK
<1>1. SignalInit => SignalTypeOK
  BY InitialSignalType
<1>2. SignalTypeOK /\ [AnySignal]_signalVars => SignalTypeOK'
  <2>1. SignalTypeOK /\ AnySignal => SignalTypeOK'
    BY AddSignalType, SignalsAssumption DEF AnySignal
  <2>2. SignalTypeOK /\ UNCHANGED signalVars => SignalTypeOK'
    BY DEF SignalTypeOK, signalVars
  <2> QED
    BY <2>1, <2>2
<1> QED
  BY <1>1, <1>2, PTL DEF SignalSpec

-----------------------------------------------------------------------------
(* The ring buffer implements the sliding window over all signals.         *)
THEOREM SignalBufferIsHistory == SignalSpec => ImplementsSignalHistory
<1>1. SignalInit => History!Init
  BY ConfigAssumption
  DEF SignalInit, History!Init, get_pbs_signal, SigIndices
<1>2. SignalTypeOK /\ AnySignal => History!Next
  <2> SUFFICES ASSUME SignalTypeOK, NEW sig \in Signals, add_signal(sig)
               PROVE  History!Record(sig)
    BY DEF AnySignal, History!Next
  <2>1. \A k \in SigIndices :
          get_pbs_signal(k)' = IF k = 0 THEN sig ELSE get_pbs_signal(k - 1)
    BY AddSignalShifts
  <2>2. \A k \in SigIndices : k # 0 => k - 1 \in SigIndices
    BY ConfigAssumption DEF SigIndices
  <2>3. prediction_failures_caused' = prediction_failures_caused + 1
    BY DEF add_signal
  <2> QED
    BY <2>1, <2>2, <2>3 DEF History!Record, SigIndices
<1>3. UNCHANGED signalVars => UNCHANGED History!historyVars
  BY DEF signalVars, History!historyVars, get_pbs_signal
<1>4. SignalTypeOK /\ [AnySignal]_signalVars => [History!Next]_(History!historyVars)
  BY <1>2, <1>3
<1> QED
  BY <1>1, <1>4, SignalTypeCorrect, PTL
  DEF SignalSpec, ImplementsSignalHistory, History!Spec

-----------------------------------------------------------------------------
(* Up to the first wrap around the position counts the signals, and the    *)
(* entry that print_signals begins with is still empty.                    *)
FirstRound ==
  prediction_failures_caused < SIZE_SIG_BUFFER
    => /\ cur_sig_buffer_position = prediction_failures_caused
       /\ lastSignals[0] = NoSignal

LEMMA NextFirstRound ==
  SignalTypeOK /\ FirstRound /\ [AnySignal]_signalVars => FirstRound'
<1> SUFFICES ASSUME SignalTypeOK, FirstRound, [AnySignal]_signalVars PROVE FirstRound'
  OBVIOUS
<1>1. CASE UNCHANGED signalVars
  BY <1>1 DEF signalVars, FirstRound
<1>2. CASE AnySignal
  <2>1. PICK sig : add_signal(sig)
    BY <1>2 DEF AnySignal
  <2>2. /\ cur_sig_buffer_position' = IF cur_sig_buffer_position + 1 = SIZE_SIG_BUFFER
                                      THEN 0 ELSE cur_sig_buffer_position + 1
        /\ lastSignals' = [lastSignals EXCEPT ![cur_sig_buffer_position'] = sig]
        /\ prediction_failures_caused' = prediction_failures_caused + 1
    BY <2>1 DEF add_signal, WRAP_AROUND
  <2>3. /\ SIZE_SIG_BUFFER \in Nat \ {0}
        /\ prediction_failures_caused \in Nat
        /\ DOMAIN lastSignals = SigIndices
    BY ConfigAssumption DEF SignalTypeOK
  <2> SUFFICES ASSUME prediction_failures_caused' < SIZE_SIG_BUFFER
               PROVE  /\ cur_sig_buffer_position' = prediction_failures_caused'
                      /\ lastSignals'[0] = NoSignal
    BY DEF FirstRound
  <2>4. prediction_failures_caused < SIZE_SIG_BUFFER
    BY <2>2, <2>3
  <2>5. cur_sig_buffer_position = prediction_failures_caused /\ lastSignals[0] = NoSignal
    BY <2>4 DEF FirstRound
  <2>6. cur_sig_buffer_position' = prediction_failures_caused' /\ cur_sig_buffer_position' # 0
    BY <2>2, <2>3, <2>5
  <2>7. 0 \in SigIndices
    BY <2>3 DEF SigIndices
  <2> QED
    BY <2>2, <2>3, <2>5, <2>6, <2>7
<1> QED
  BY <1>1, <1>2

(* get_pbs_signal reaches every entry of the array.                        *)
LEMMA KnownSignals ==
  SignalTypeOK => {get_pbs_signal(k) : k \in SigIndices} = {lastSignals[i] : i \in SigIndices}
<1> SUFFICES ASSUME SignalTypeOK
             PROVE  {get_pbs_signal(k) : k \in SigIndices} = {lastSignals[i] : i \in SigIndices}
  OBVIOUS
<1> DEFINE pos == cur_sig_buffer_position
<1>1. pos \in 0 .. SIZE_SIG_BUFFER - 1 /\ SIZE_SIG_BUFFER \in Nat \ {0}
      /\ SigIndices = 0 .. SIZE_SIG_BUFFER - 1
  BY ConfigAssumption DEF SignalTypeOK, SigIndices
<1>2. ASSUME NEW k \in SigIndices
      PROVE  \E i \in SigIndices : get_pbs_signal(k) = lastSignals[i]
  <2>1. CASE pos - k >= 0
    <3>1. pos - k \in SigIndices
      BY <1>1, <2>1
    <3> QED
      BY <2>1, <3>1 DEF get_pbs_signal
  <2>2. CASE ~ (pos - k >= 0)
    <3>1. SIZE_SIG_BUFFER + (pos - k) \in SigIndices
      BY <1>1, <2>2
    <3> QED
      BY <2>2, <3>1 DEF get_pbs_signal
  <2> QED
    BY <2>1, <2>2
<1>3. ASSUME NEW i \in SigIndices
      PROVE  \E k \in SigIndices : get_pbs_signal(k) = lastSignals[i]
  <2>1. CASE i <= pos
    <3>1. pos - i \in SigIndices /\ pos - (pos - i) >= 0 /\ pos - (pos - i) = i
      BY <1>1, <2>1
    <3> QED
      BY <3>1 DEF get_pbs_signal
  <2>2. CASE i > pos
    <3> DEFINE k == pos + SIZE_SIG_BUFFER - i
    <3>1. k \in SigIndices /\ ~ (pos - k >= 0) /\ SIZE_SIG_BUFFER + (pos - k) = i
      BY <1>1, <2>2
    <3> HIDE DEF k
    <3> QED
      BY <3>1 DEF get_pbs_signal
  <2> QED
    BY <1>1, <2>1, <2>2
<1> QED
  BY <1>2, <1>3

LEMMA FirstRoundPrints == SignalTypeOK /\ FirstRound => PrintedSignals
<1> SUFFICES ASSUME SignalTypeOK, FirstRound, NEW undefined_tick \in {0, 1}
             PROVE  LET printed == {lastSignals[i] : i \in print_signals(undefined_tick)}
                        known   == {get_pbs_signal(k) : k \in SigIndices}
                    IN  /\ prediction_failures_caused < SIZE_SIG_BUFFER => printed \subseteq {NoSignal}
                        /\ /\ prediction_failures_caused >= SIZE_SIG_BUFFER
                           /\ \A sig \in known : sig.tick # 0
                           => printed \in {{}, known}
  BY DEF PrintedSignals
<1> DEFINE shown == print_signals(undefined_tick)
           printed == {lastSignals[i] : i \in shown}
           known == {get_pbs_signal(k) : k \in SigIndices}
<1>1. SIZE_SIG_BUFFER \in Nat \ {0} /\ SigIndices = 0 .. SIZE_SIG_BUFFER - 1
  BY ConfigAssumption DEF SigIndices
<1>2. shown = {i \in SigIndices :
                 undefined_tick # 0 /\ \A j \in 0 .. i - 1 : lastSignals[j].tick # 0}
  BY DEF print_signals
<1> HIDE DEF shown
<1>3. ASSUME prediction_failures_caused < SIZE_SIG_BUFFER PROVE printed \subseteq {NoSignal}
  <2>1. lastSignals[0] = NoSignal /\ lastSignals[0].tick = 0
    BY <1>3 DEF FirstRound, NoSignal
  <2>2. ASSUME NEW i \in shown PROVE i = 0
    <3> SUFFICES ASSUME i # 0 PROVE FALSE
      OBVIOUS
    <3>1. i \in SigIndices /\ \A j \in 0 .. i - 1 : lastSignals[j].tick # 0
      BY <1>2
    <3>2. 0 \in 0 .. i - 1
      BY <1>1, <3>1
    <3> QED
      BY <2>1, <3>1, <3>2
  <2> QED
    BY <2>1, <2>2
<1>4. ASSUME \A sig \in known : sig.tick # 0 PROVE printed \in {{}, known}
  <2>1. known = {lastSignals[i] : i \in SigIndices}
    BY KnownSignals
  <2> HIDE DEF known
  <2>2. \A i \in SigIndices : lastSignals[i].tick # 0
    BY <1>4, <2>1
  <2>3. \A i \in SigIndices : \A j \in 0 .. i - 1 : j \in SigIndices
    BY <1>1
  <2>4. shown = {} \/ shown = SigIndices
    BY <1>2, <2>2, <2>3
  <2> QED
    BY <2>1, <2>4
<1> QED
  BY <1>3, <1>4 DEF shown

(* What print_signals prints, for every size of the buffer and every       *)
(* sequence of signals: nothing but the empty entry 0 before the first     *)
(* wrap around, and afterwards all signals or none, if none is of tick 0.  *)
THEOREM PrintedCorrect == SignalSpec => []PrintedSignals
<1>1. SignalInit => FirstRound
  BY ConfigAssumption DEF SignalInit, FirstRound, SigIndices
<1>2. SignalSpec => []FirstRound
  BY <1>1, NextFirstRound, SignalTypeCorrect, PTL DEF SignalSpec
<1> QED
  BY <1>2, FirstRoundPrints, SignalTypeCorrect, PTL
=============================================================================
