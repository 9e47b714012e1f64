----------------------------- MODULE CommonLemmas -----------------------------
(***************************************************************************)
(* Lemmas that several proofs need: what add_signal does to the buffer of  *)
(* signals, for every size of it, and sums over finite sets.               *)
(***************************************************************************)
EXTENDS SignalBuffer, Functions, FiniteSetTheorems, TLAPS

(* The empty buffer is well typed.                                         *)
LEMMA InitialSignalType == SignalInit => SignalTypeOK
BY ConfigAssumption DEF SignalInit, SignalTypeOK, NoSignal, Signal, SigIndices

(* add_signal keeps the buffer well typed: the position stays in it.       *)
LEMMA AddSignalType ==
  ASSUME SignalTypeOK, NEW sig \in Signal, add_signal(sig)
  PROVE  SignalTypeOK'
<1>1. cur_sig_buffer_position' \in SigIndices
  BY ConfigAssumption DEF SignalTypeOK, add_signal, WRAP_AROUND, SigIndices
<1>2. lastSignals' \in [SigIndices -> Signal]
  BY <1>1 DEF SignalTypeOK, add_signal
<1>3. prediction_failures_caused' \in Nat
  BY DEF SignalTypeOK, add_signal
<1> QED
  BY <1>1, <1>2, <1>3 DEF SignalTypeOK

(* The new signal is the latest one and every other signal is one further  *)
(* back than before, also when the position wraps around.                  *)
LEMMA AddSignalMoves ==
  ASSUME cur_sig_buffer_position \in SigIndices, DOMAIN lastSignals = SigIndices,
         NEW sig, add_signal(sig), NEW k \in SigIndices
  PROVE  get_pbs_signal(k)' = IF k = 0 THEN sig ELSE get_pbs_signal(k - 1)
<1> DEFINE pos == cur_sig_buffer_position
<1>1. pos \in SigIndices /\ SIZE_SIG_BUFFER \in Nat \ {0}
  BY ConfigAssumption
<1>2. /\ pos' = IF pos + 1 = SIZE_SIG_BUFFER THEN 0 ELSE pos + 1
      /\ lastSignals' = [lastSignals EXCEPT ![pos'] = sig]
      /\ DOMAIN lastSignals = SigIndices
  BY DEF add_signal, WRAP_AROUND
<1>3. pos' \in SigIndices
  BY <1>1, <1>2 DEF SigIndices
<1>4. CASE k = 0
  BY <1>1, <1>2, <1>3, <1>4 DEF get_pbs_signal, SigIndices
<1>5. CASE k # 0 /\ pos + 1 = SIZE_SIG_BUFFER
  <2>1. /\ get_pbs_signal(k)' = lastSignals'[SIZE_SIG_BUFFER - k]
        /\ get_pbs_signal(k - 1) = lastSignals[SIZE_SIG_BUFFER - k]
        /\ SIZE_SIG_BUFFER - k \in SigIndices
        /\ SIZE_SIG_BUFFER - k # pos'
    BY <1>1, <1>2, <1>5 DEF get_pbs_signal, SigIndices
  <2> QED
    BY <1>2, <1>5, <2>1
<1>6. CASE k # 0 /\ pos + 1 # SIZE_SIG_BUFFER
  <2> DEFINE j == IF pos + 1 >= k THEN pos + 1 - k ELSE SIZE_SIG_BUFFER + (pos + 1 - k)
  <2>1. /\ get_pbs_signal(k)' = lastSignals'[j]
        /\ get_pbs_signal(k - 1) = lastSignals[j]
        /\ j \in SigIndices
        /\ j # pos'
    BY <1>1, <1>2, <1>6 DEF get_pbs_signal, SigIndices
  <2> QED
    BY <1>2, <1>6, <2>1
<1> QED
  BY <1>4, <1>5, <1>6

LEMMA AddSignalShifts ==
  ASSUME SignalTypeOK, NEW sig, add_signal(sig), NEW k \in SigIndices
  PROVE  get_pbs_signal(k)' = IF k = 0 THEN sig ELSE get_pbs_signal(k - 1)
BY AddSignalMoves DEF SignalTypeOK

-----------------------------------------------------------------------------
(* Facts about SumFunctionOnSet for finite sets, whatever their size.      *)
(*                                                                         *)
(* The induction theorems of the library take the induction hypothesis as  *)
(* an operator, which the provers cannot instantiate.  The proofs here use *)
(* that strict inclusion is well founded instead: if a statement fails for *)
(* some subset of a finite set, it fails for a minimal one (MinimalSet),   *)
(* and the set of counterexamples is an ordinary set.                      *)

(* A nonempty set of subsets of a finite set has a minimal element.        *)
LEMMA MinimalSet ==
  ASSUME NEW S, IsFiniteSet(S), NEW B, B \subseteq SUBSET S, B # {}
  PROVE  \E T \in B : \A U \in B : U \subseteq T => U = T
<1>1. IsWellFoundedOn(StrictSubsetOrdering(S), FiniteSubsetsOf(S))
  BY FS_StrictSubsetOrderingWellFounded
<1>2. FiniteSubsetsOf(S) = SUBSET S
  BY FS_FiniteSubsetsOfFinite
<1>3. \E T \in B : \A U \in B : <<U, T>> \notin StrictSubsetOrdering(S)
  BY <1>1, <1>2, WFMin
<1> QED
  BY <1>3 DEF StrictSubsetOrdering

(* A nonempty part of an interval has a least element.                     *)
LEMMA LeastElement ==
  ASSUME NEW a \in Int, NEW b \in Int, NEW S, S \subseteq a .. b, S # {}
  PROVE  \E x \in S : \A y \in S : x <= y
<1> DEFINE B == {a .. x : x \in S}
<1>1. PICK T \in B : \A U \in B : U \subseteq T => U = T
  <2>1. \A x \in S : x \in Int /\ a .. x \subseteq a .. b
    OBVIOUS
  <2>2. IsFiniteSet(a .. b)
    BY FS_Interval
  <2>3. B \subseteq SUBSET (a .. b)
    BY <2>1
  <2>4. B # {}
    OBVIOUS
  <2> DEFINE I == a .. b
  <2>5. IsFiniteSet(I) /\ B \subseteq SUBSET I
    BY <2>2, <2>3
  <2> HIDE DEF B, I
  <2> QED
    BY <2>4, <2>5, MinimalSet
<1>2. PICK x \in S : T = a .. x
  BY <1>1
<1>3. ASSUME NEW y \in S, ~ (x <= y) PROVE FALSE
  <2>1. x \in Int /\ y \in Int /\ a <= y /\ y < x
    BY <1>3
  <2>2. a .. y \in B /\ a .. y \subseteq a .. x
    BY <2>1
  <2>3. a .. y = a .. x
    BY <1>1, <1>2, <2>2
  <2>4. x \in a .. x /\ x \notin a .. y
    BY <2>1
  <2> QED
    BY <2>3, <2>4
<1> QED
  BY <1>3

-----------------------------------------------------------------------------
(* The recursive function the sum is defined with.                         *)
Pick(s) == CHOOSE x \in s : TRUE

IsPartialSum(g, f, S) ==
  g = [s \in SUBSET S |-> IF s = {} THEN 0 ELSE f[Pick(s)] + g[s \ {Pick(s)}]]

PartialSum(f, S) == CHOOSE g : IsPartialSum(g, f, S)

LEMMA SumIsPartialSum ==
  ASSUME NEW f, NEW S
  PROVE  SumFunctionOnSet(f, S) = PartialSum(f, S)[S]
BY DEF SumFunctionOnSet, FoldFunctionOnSet, MapThenFoldSet, PartialSum, IsPartialSum, Pick

LEMMA PickInSet == \A s : s # {} => Pick(s) \in s
BY DEF Pick

(* Partial sums over different sets agree where both are defined.          *)
LEMMA PartialSumsAgree ==
  ASSUME NEW f, NEW S, NEW T, NEW g, NEW h, IsFiniteSet(S),
         IsPartialSum(g, f, S), IsPartialSum(h, f, T)
  PROVE  \A s \in SUBSET (S \cap T) : g[s] = h[s]
<1> DEFINE B == {s \in SUBSET (S \cap T) : g[s] # h[s]}
<1>1. \A s \in SUBSET S : g[s] = IF s = {} THEN 0 ELSE f[Pick(s)] + g[s \ {Pick(s)}]
  BY DEF IsPartialSum
<1>2. \A s \in SUBSET T : h[s] = IF s = {} THEN 0 ELSE f[Pick(s)] + h[s \ {Pick(s)}]
  BY DEF IsPartialSum
<1>3. SUFFICES ASSUME B # {} PROVE FALSE
  OBVIOUS
<1>4. PICK s \in B : \A U \in B : U \subseteq s => U = s
  <2>1. B \subseteq SUBSET S
    OBVIOUS
  <2> HIDE DEF B
  <2> QED
    BY <1>3, <2>1, MinimalSet
<1> DEFINE r == s \ {Pick(s)}
<1>5. s \in SUBSET S /\ s \in SUBSET T /\ g[s] # h[s]
  OBVIOUS
<1>6. s # {}
  BY <1>1, <1>2, <1>5
<1>7. g[r] = h[r]
  <2>1. r \subseteq s /\ r # s
    BY <1>6, PickInSet
  <2>2. r \notin B
    BY <1>4, <2>1
  <2> QED
    BY <1>5, <2>1, <2>2
<1>8. g[s] = f[Pick(s)] + g[r]
  BY <1>1, <1>5, <1>6
<1>9. h[s] = f[Pick(s)] + h[r]
  BY <1>2, <1>5, <1>6
<1> QED
  BY <1>5, <1>7, <1>8, <1>9

(* The recursion defines a function on the subsets of a finite set.        *)
LEMMA PartialSumExists ==
  ASSUME NEW f, NEW S, IsFiniteSet(S)
  PROVE  \E g : IsPartialSum(g, f, S)
<1> DEFINE B == {T \in SUBSET S : ~ \E g : IsPartialSum(g, f, T)}
<1>1. SUFFICES ASSUME B # {} PROVE FALSE
  OBVIOUS
<1>2. PICK T \in B : \A U \in B : U \subseteq T => U = T
  <2>1. B \subseteq SUBSET S
    OBVIOUS
  <2> HIDE DEF B
  <2> QED
    BY <1>1, <2>1, MinimalSet
<1> DEFINE G(U) == PartialSum(f, U)
           g == [s \in SUBSET T |->
                   IF s = {} THEN 0 ELSE f[Pick(s)] + G(s \ {Pick(s)})[s \ {Pick(s)}]]
<1>3. \A U \in SUBSET T : U # T => IsPartialSum(G(U), f, U)
  <2> SUFFICES ASSUME NEW U \in SUBSET T, U # T PROVE IsPartialSum(G(U), f, U)
    OBVIOUS
  <2>1. \E h : IsPartialSum(h, f, U)
    BY <1>2
  <2> QED
    BY <2>1 DEF PartialSum
<1>4. ASSUME NEW r \in SUBSET T, r # T PROVE g[r] = G(r)[r]
  <2>1. IsPartialSum(G(r), f, r) /\ IsFiniteSet(r)
    BY <1>3, <1>4, FS_Subset
  <2>2. G(r)[r] = IF r = {} THEN 0 ELSE f[Pick(r)] + G(r)[r \ {Pick(r)}]
    BY <2>1 DEF IsPartialSum
  <2>3. ASSUME r # {} PROVE G(r)[r \ {Pick(r)}] = G(r \ {Pick(r)})[r \ {Pick(r)}]
    <3>1. r \ {Pick(r)} \in SUBSET T /\ r \ {Pick(r)} # T
      BY <1>4, PickInSet
    <3>2. IsPartialSum(G(r \ {Pick(r)}), f, r \ {Pick(r)})
      BY <1>3, <3>1
    <3> HIDE DEF G
    <3>3. \A s \in SUBSET (r \cap (r \ {Pick(r)})) : G(r)[s] = G(r \ {Pick(r)})[s]
      BY <2>1, <3>2, PartialSumsAgree
    <3>4. r \ {Pick(r)} \in SUBSET (r \cap (r \ {Pick(r)}))
      OBVIOUS
    <3> QED
      BY <3>3, <3>4
  <2> QED
    BY <2>2, <2>3
<1>5. ASSUME NEW s \in SUBSET T, s # {}
      PROVE  G(s \ {Pick(s)})[s \ {Pick(s)}] = g[s \ {Pick(s)}]
  <2>1. s \ {Pick(s)} \in SUBSET T /\ s \ {Pick(s)} # T
    BY <1>5, PickInSet
  <2> QED
    BY <1>4, <2>1
<1>6. IsPartialSum(g, f, T)
  BY <1>5 DEF IsPartialSum
<1> QED
  BY <1>2, <1>6

LEMMA SumStep ==
  ASSUME NEW f, NEW S, IsFiniteSet(S)
  PROVE  SumFunctionOnSet(f, S)
           = IF S = {} THEN 0 ELSE f[Pick(S)] + SumFunctionOnSet(f, S \ {Pick(S)})
<1> DEFINE R == S \ {Pick(S)}
<1>1. IsPartialSum(PartialSum(f, S), f, S)
  BY PartialSumExists DEF PartialSum
<1>2. IsFiniteSet(R)
  BY FS_RemoveElement
<1>3. IsPartialSum(PartialSum(f, R), f, R)
  BY <1>2, PartialSumExists DEF PartialSum
<1>4. PartialSum(f, S)[R] = PartialSum(f, R)[R]
  <2>1. \A s \in SUBSET (S \cap R) : PartialSum(f, S)[s] = PartialSum(f, R)[s]
    BY <1>1, <1>3, PartialSumsAgree
  <2>2. R \in SUBSET (S \cap R)
    OBVIOUS
  <2> QED
    BY <2>1, <2>2
<1>5. PartialSum(f, S)[S] = IF S = {} THEN 0 ELSE f[Pick(S)] + PartialSum(f, S)[R]
  BY <1>1 DEF IsPartialSum
<1> QED
  BY <1>4, <1>5, SumIsPartialSum

-----------------------------------------------------------------------------
(* Nothing adds up to 0.                                                   *)
LEMMA SumEmpty ==
  ASSUME NEW f
  PROVE  SumFunctionOnSet(f, {}) = 0
BY SumStep, FS_EmptySet

(* Integers add up to an integer.                                          *)
LEMMA SumType ==
  ASSUME NEW f, NEW S, IsFiniteSet(S), \A x \in S : f[x] \in Int
  PROVE  SumFunctionOnSet(f, S) \in Int
<1> DEFINE B == {T \in SUBSET S : SumFunctionOnSet(f, T) \notin Int}
<1>1. SUFFICES ASSUME B # {} PROVE FALSE
  OBVIOUS
<1>2. PICK T \in B : \A U \in B : U \subseteq T => U = T
  <2>1. B \subseteq SUBSET S
    OBVIOUS
  <2> HIDE DEF B
  <2> QED
    BY <1>1, <2>1, MinimalSet
<1> DEFINE R == T \ {Pick(T)}
<1>3. T \in SUBSET S /\ SumFunctionOnSet(f, T) \notin Int /\ IsFiniteSet(T)
  BY FS_Subset
<1>4. SumFunctionOnSet(f, T) = IF T = {} THEN 0 ELSE f[Pick(T)] + SumFunctionOnSet(f, R)
  BY <1>3, SumStep
<1>5. T # {}
  BY <1>3, <1>4
<1>6. Pick(T) \in T /\ f[Pick(T)] \in Int
  BY <1>3, <1>5, PickInSet
<1>7. SumFunctionOnSet(f, R) \in Int
  BY <1>2, <1>3, <1>6
<1> QED
  BY <1>3, <1>4, <1>5, <1>6, <1>7

(* Any element may be split off.                                           *)
LEMMA SumRemove ==
  ASSUME NEW f, NEW S, IsFiniteSet(S), \A y \in S : f[y] \in Int, NEW x \in S
  PROVE  SumFunctionOnSet(f, S) = f[x] + SumFunctionOnSet(f, S \ {x})
<1> DEFINE Splits(T) == \A z \in T : SumFunctionOnSet(f, T) = f[z] + SumFunctionOnSet(f, T \ {z})
           B == {T \in SUBSET S : ~ Splits(T)}
<1>1. SUFFICES ASSUME B # {} PROVE FALSE
  OBVIOUS
<1>2. PICK T \in B : \A U \in B : U \subseteq T => U = T
  <2>1. B \subseteq SUBSET S
    OBVIOUS
  <2> HIDE DEF B
  <2> QED
    BY <1>1, <2>1, MinimalSet
<1>3. PICK z \in T : SumFunctionOnSet(f, T) # f[z] + SumFunctionOnSet(f, T \ {z})
  OBVIOUS
<1> DEFINE p == Pick(T)
<1>4. /\ T \in SUBSET S
      /\ IsFiniteSet(T)
      /\ p \in T
      /\ f[p] \in Int
      /\ f[z] \in Int
  BY <1>3, FS_Subset, PickInSet
<1>5. SumFunctionOnSet(f, T) = f[p] + SumFunctionOnSet(f, T \ {p})
  BY <1>3, <1>4, SumStep
<1>6. p # z
  BY <1>3, <1>5
<1>7. Splits(T \ {p}) /\ Splits(T \ {z})
  <2>1. T \ {p} \notin B /\ T \ {z} \notin B
    BY <1>2, <1>3, <1>4
  <2> QED
    BY <2>1, <1>4
<1>8. z \in T \ {p} /\ p \in T \ {z} /\ (T \ {p}) \ {z} = (T \ {z}) \ {p}
  BY <1>3, <1>4, <1>6
<1> DEFINE rest == SumFunctionOnSet(f, (T \ {p}) \ {z})
<1>9. rest \in Int
  <2>1. IsFiniteSet((T \ {p}) \ {z})
    BY <1>4, FS_RemoveElement
  <2>2. \A y \in (T \ {p}) \ {z} : f[y] \in Int
    BY <1>4
  <2> QED
    BY <2>1, <2>2, SumType
<1>10. SumFunctionOnSet(f, T \ {p}) = f[z] + rest
  BY <1>7, <1>8
<1>11. SumFunctionOnSet(f, T \ {z}) = f[p] + rest
  BY <1>7, <1>8
<1> HIDE DEF rest, p
<1> QED
  BY <1>3, <1>4, <1>5, <1>9, <1>10, <1>11

(* One more element.                                                       *)
LEMMA SumAdd ==
  ASSUME NEW f, NEW S, IsFiniteSet(S), NEW x, x \notin S,
         \A y \in S \cup {x} : f[y] \in Int
  PROVE  SumFunctionOnSet(f, S \cup {x}) = f[x] + SumFunctionOnSet(f, S)
<1>1. IsFiniteSet(S \cup {x})
  BY FS_AddElement
<1>2. x \in S \cup {x} /\ (S \cup {x}) \ {x} = S
  OBVIOUS
<1> QED
  BY <1>1, <1>2, SumRemove

(* The sum depends on the values at the elements only.                     *)
LEMMA SumEqual ==
  ASSUME NEW f, NEW g, NEW S, IsFiniteSet(S), \A x \in S : f[x] = g[x]
  PROVE  SumFunctionOnSet(f, S) = SumFunctionOnSet(g, S)
<1> DEFINE B == {T \in SUBSET S : SumFunctionOnSet(f, T) # SumFunctionOnSet(g, T)}
<1>1. SUFFICES ASSUME B # {} PROVE FALSE
  OBVIOUS
<1>2. PICK T \in B : \A U \in B : U \subseteq T => U = T
  <2>1. B \subseteq SUBSET S
    OBVIOUS
  <2> HIDE DEF B
  <2> QED
    BY <1>1, <2>1, MinimalSet
<1> DEFINE R == T \ {Pick(T)}
<1>3. T \in SUBSET S /\ SumFunctionOnSet(f, T) # SumFunctionOnSet(g, T) /\ IsFiniteSet(T)
  BY FS_Subset
<1>4. /\ SumFunctionOnSet(f, T) = IF T = {} THEN 0 ELSE f[Pick(T)] + SumFunctionOnSet(f, R)
      /\ SumFunctionOnSet(g, T) = IF T = {} THEN 0 ELSE g[Pick(T)] + SumFunctionOnSet(g, R)
  BY <1>3, SumStep
<1>5. T # {}
  BY <1>3, <1>4
<1>6. Pick(T) \in T /\ f[Pick(T)] = g[Pick(T)]
  BY <1>3, <1>5, PickInSet
<1>7. SumFunctionOnSet(f, R) = SumFunctionOnSet(g, R)
  BY <1>2, <1>3, <1>6
<1> QED
  BY <1>3, <1>4, <1>5, <1>6, <1>7

(* Nothing but zeros adds up to 0.                                         *)
LEMMA SumZero ==
  ASSUME NEW f, NEW S, IsFiniteSet(S), \A x \in S : f[x] = 0
  PROVE  SumFunctionOnSet(f, S) = 0
<1> DEFINE B == {T \in SUBSET S : SumFunctionOnSet(f, T) # 0}
<1>1. SUFFICES ASSUME B # {} PROVE FALSE
  OBVIOUS
<1>2. PICK T \in B : \A U \in B : U \subseteq T => U = T
  <2>1. B \subseteq SUBSET S
    OBVIOUS
  <2> HIDE DEF B
  <2> QED
    BY <1>1, <2>1, MinimalSet
<1>3. IsFiniteSet(T)
  BY <1>2, FS_Subset
<1>4. T # {}
  BY <1>2, SumEmpty
<1>5. PICK x \in T : TRUE
  BY <1>4
<1>6. SumFunctionOnSet(f, T) = f[x] + SumFunctionOnSet(f, T \ {x})
  <2>1. \A y \in T : f[y] \in Int
    BY <1>2
  <2> QED
    BY <1>3, <1>5, <2>1, SumRemove
<1>7. SumFunctionOnSet(f, T \ {x}) = 0
  BY <1>2, <1>5
<1>8. f[x] = 0
  BY <1>2, <1>5
<1> QED
  BY <1>2, <1>6, <1>7, <1>8

(* The value of one element changes.                                       *)
LEMMA SumUpdate ==
  ASSUME NEW f, NEW g, NEW S, IsFiniteSet(S), NEW x \in S,
         \A y \in S : f[y] \in Int /\ g[y] \in Int,
         \A y \in S \ {x} : f[y] = g[y]
  PROVE  SumFunctionOnSet(g, S) = SumFunctionOnSet(f, S) + (g[x] - f[x])
<1>1. SumFunctionOnSet(f, S) = f[x] + SumFunctionOnSet(f, S \ {x})
  BY SumRemove
<1>2. SumFunctionOnSet(g, S) = g[x] + SumFunctionOnSet(g, S \ {x})
  BY SumRemove
<1>3. IsFiniteSet(S \ {x})
  BY FS_RemoveElement
<1>4. SumFunctionOnSet(f, S \ {x}) = SumFunctionOnSet(g, S \ {x})
  BY <1>3, SumEqual
<1>5. SumFunctionOnSet(f, S \ {x}) \in Int
  BY <1>3, SumType
<1> QED
  BY <1>1, <1>2, <1>4, <1>5

(* Larger values add up to a larger sum.                                   *)
LEMMA SumMonotone ==
  ASSUME NEW f, NEW g, NEW S, IsFiniteSet(S),
         \A x \in S : f[x] \in Int /\ g[x] \in Int /\ f[x] <= g[x]
  PROVE  SumFunctionOnSet(f, S) <= SumFunctionOnSet(g, S)
<1> DEFINE B == {T \in SUBSET S : ~ (SumFunctionOnSet(f, T) <= SumFunctionOnSet(g, T))}
<1>1. SUFFICES ASSUME B # {} PROVE FALSE
  OBVIOUS
<1>2. PICK T \in B : \A U \in B : U \subseteq T => U = T
  <2>1. B \subseteq SUBSET S
    OBVIOUS
  <2> HIDE DEF B
  <2> QED
    BY <1>1, <2>1, MinimalSet
<1> DEFINE R == T \ {Pick(T)}
<1>3. /\ T \in SUBSET S
      /\ ~ (SumFunctionOnSet(f, T) <= SumFunctionOnSet(g, T))
      /\ IsFiniteSet(T)
  BY FS_Subset
<1>4. /\ SumFunctionOnSet(f, T) = IF T = {} THEN 0 ELSE f[Pick(T)] + SumFunctionOnSet(f, R)
      /\ SumFunctionOnSet(g, T) = IF T = {} THEN 0 ELSE g[Pick(T)] + SumFunctionOnSet(g, R)
  BY <1>3, SumStep
<1>5. T # {}
  BY <1>3, <1>4
<1>6. /\ Pick(T) \in T
      /\ f[Pick(T)] \in Int /\ g[Pick(T)] \in Int /\ f[Pick(T)] <= g[Pick(T)]
  BY <1>3, <1>5, PickInSet
<1>7. SumFunctionOnSet(f, R) <= SumFunctionOnSet(g, R)
  BY <1>2, <1>3, <1>6
<1>8. SumFunctionOnSet(f, R) \in Int /\ SumFunctionOnSet(g, R) \in Int
  <2>1. IsFiniteSet(R)
    BY <1>3, FS_RemoveElement
  <2>2. \A x \in R : f[x] \in Int /\ g[x] \in Int
    BY <1>3
  <2> QED
    BY <2>1, <2>2, SumType
<1> HIDE DEF R
<1> QED
  BY <1>3, <1>4, <1>5, <1>6, <1>7, <1>8

(* Natural numbers add up to a natural number.                             *)
LEMMA SumNatural ==
  ASSUME NEW f, NEW S, IsFiniteSet(S), \A x \in S : f[x] \in Nat
  PROVE  SumFunctionOnSet(f, S) \in Nat
<1> DEFINE zero == [x \in S |-> 0]
<1>1. \A x \in S : zero[x] \in Int /\ zero[x] = 0 /\ f[x] \in Int /\ zero[x] <= f[x]
  OBVIOUS
<1> HIDE DEF zero
<1>2. SumFunctionOnSet(zero, S) = 0
  BY <1>1, SumZero
<1>3. SumFunctionOnSet(zero, S) <= SumFunctionOnSet(f, S)
  BY <1>1, SumMonotone
<1>4. SumFunctionOnSet(f, S) \in Int
  BY <1>1, SumType
<1> QED
  BY <1>2, <1>3, <1>4

(* Disjoint sets add up separately.                                        *)
LEMMA SumUnion ==
  ASSUME NEW f, NEW S, NEW R, IsFiniteSet(S), IsFiniteSet(R), S \cap R = {},
         \A x \in S \cup R : f[x] \in Int
  PROVE  SumFunctionOnSet(f, S \cup R) = SumFunctionOnSet(f, S) + SumFunctionOnSet(f, R)
<1> DEFINE Splits(T) == SumFunctionOnSet(f, S \cup T)
                          = SumFunctionOnSet(f, S) + SumFunctionOnSet(f, T)
           B == {T \in SUBSET R : ~ Splits(T)}
<1>1. SUFFICES ASSUME B # {} PROVE FALSE
  OBVIOUS
<1>2. PICK T \in B : \A U \in B : U \subseteq T => U = T
  <2>1. B \subseteq SUBSET R
    OBVIOUS
  <2> HIDE DEF B
  <2> QED
    BY <1>1, <2>1, MinimalSet
<1>3. T \in SUBSET R /\ IsFiniteSet(T) /\ IsFiniteSet(S \cup T)
  BY <1>2, FS_Subset, FS_Union
<1>4. SumFunctionOnSet(f, S) \in Int
  BY SumType
<1>5. T # {}
  <2>1. S \cup {} = S
    OBVIOUS
  <2>2. SumFunctionOnSet(f, S \cup {}) = SumFunctionOnSet(f, S) + SumFunctionOnSet(f, {})
    BY <1>4, <2>1, SumEmpty
  <2> QED
    BY <1>2, <2>2
<1>6. PICK x \in T : TRUE
  BY <1>5
<1> DEFINE U == T \ {x}
<1>7. (S \cup T) \ {x} = S \cup U /\ U \in SUBSET R /\ U # T
  BY <1>3, <1>6
<1>8. Splits(U)
  <2>1. U \subseteq T
    OBVIOUS
  <2> QED
    BY <1>2, <1>7, <2>1
<1>9. SumFunctionOnSet(f, S \cup T) = f[x] + SumFunctionOnSet(f, S \cup U)
  <2>1. x \in S \cup T /\ \A y \in S \cup T : f[y] \in Int
    BY <1>3, <1>6
  <2> QED
    BY <1>3, <1>7, <2>1, SumRemove
<1>10. SumFunctionOnSet(f, T) = f[x] + SumFunctionOnSet(f, U)
  <2>1. \A y \in T : f[y] \in Int
    BY <1>3
  <2> QED
    BY <1>3, <1>6, <2>1, SumRemove
<1>11. SumFunctionOnSet(f, U) \in Int /\ f[x] \in Int
  <2>1. IsFiniteSet(U) /\ \A y \in U : f[y] \in Int
    BY <1>3, FS_Subset
  <2> QED
    BY <1>3, <1>6, <2>1, SumType
<1>12. Splits(T)
  <2> HIDE DEF U
  <2> QED
    BY <1>4, <1>8, <1>9, <1>10, <1>11
<1> QED
  BY <1>2, <1>12
=============================================================================
