--------------------------- MODULE PreemptionProofs ---------------------------
(***************************************************************************)
(* Proofs about preemption: how often a task is preempted in any plan, and *)
(* that in a plan whose tasks are spread the preempted tasks form stacks,  *)
(* the tasks of a process stay in order, the overrun of a slot is bounded, *)
(* and every tick is a step of PlanExecution.                              *)
(***************************************************************************)
EXTENDS AccountingProofs, ThresholdProofs

(* The places behind index i of the list where a run of tasks of the       *)
(* process of i begins; h gives the process of each place.                 *)
HeadsOf(h, i) == {m \in i + 1 .. NumTasks - 1 : h[m] = h[i] /\ h[m - 1] # h[i]}

LEMMA HeadsFinite ==
  ASSUME NumTasks \in Nat, NEW h, NEW i \in Int
  PROVE  IsFiniteSet(HeadsOf(h, i)) /\ Cardinality(HeadsOf(h, i)) \in Nat
<1>1. IsFiniteSet(i + 1 .. NumTasks - 1)
  BY FS_Interval
<1>2. HeadsOf(h, i) \in SUBSET (i + 1 .. NumTasks - 1)
  BY DEF HeadsOf
<1>3. IsFiniteSet(HeadsOf(h, i))
  BY <1>1, <1>2, FS_Subset
<1> QED
  BY <1>3, FS_CardinalityType

(* A preemption moves the stack behind the run at k and in front of the    *)
(* one at k + 1, which is no new run any more: the preempted task has one  *)
(* run less ahead, and no task has one more.                               *)
LEMMA HeadsMove ==
  ASSUME NumTasks \in Nat, NEW s, NEW k, Fits(s, k), NEW h, NEW n,
         \A m \in Indices : n[m] = h[Source(m, s, k)],
         \A m \in cur .. cur + s - 1 : h[m] = h[cur],
         h[k] # h[cur], h[k + 1] = h[cur],
         NEW i \in cur .. NumTasks - 1
  PROVE  Cardinality(HeadsOf(n, i)) + (IF Source(i, s, k) = cur THEN 1 ELSE 0)
           <= Cardinality(HeadsOf(h, Source(i, s, k)))
<1> DEFINE j == Source(i, s, k)
           H == HeadsOf(h, j)
           N == HeadsOf(n, i)
<1>1. /\ s \in Nat /\ s > 0 /\ k \in Nat /\ cur \in Nat /\ i \in Nat
      /\ cur + s <= k /\ k <= NumTasks - 2
      /\ cur <= i /\ i <= NumTasks - 1
      /\ Indices = 0 .. NumTasks
  BY DEF Fits, Indices
<1>2. \A m \in cur .. NumTasks - 1 :
        /\ m > k => n[m] = h[m]
        /\ m <= k - s => n[m] = h[m + s]
        /\ m <= k /\ m > k - s => n[m] = h[cur]
  <2> SUFFICES ASSUME NEW m \in cur .. NumTasks - 1
               PROVE  /\ m > k => n[m] = h[m]
                      /\ m <= k - s => n[m] = h[m + s]
                      /\ m <= k /\ m > k - s => n[m] = h[cur]
    OBVIOUS
  <2>1. m \in Nat /\ m >= cur /\ n[m] = h[Source(m, s, k)]
    BY <1>1
  <2>2. m > k => Source(m, s, k) = m
    BY <1>1, <2>1 DEF Source
  <2>3. m <= k - s => Source(m, s, k) = m + s
    BY <1>1, <2>1 DEF Source
  <2>4. m <= k /\ m > k - s => Source(m, s, k) \in cur .. cur + s - 1
    BY <1>1, <2>1 DEF Source
  <2> QED
    BY <2>1, <2>2, <2>3, <2>4
<1>3. j \in Int /\ j >= cur
  BY <1>1 DEF Source
<1>4. IsFiniteSet(H) /\ Cardinality(H) \in Nat /\ Cardinality(N) \in Nat
  BY <1>1, <1>3, HeadsFinite
<1>5. CASE i <= k /\ i > k - s
  <2>1. j \in cur .. cur + s - 1 /\ h[j] = h[cur] /\ n[i] = h[cur]
    <3>1. j \in cur .. cur + s - 1
      BY <1>1, <1>5 DEF Source
    <3> QED
      BY <1>2, <1>5, <3>1
  <2>2. k + 1 \in H
    BY <1>1, <2>1 DEF HeadsOf
  <2>3. ASSUME NEW m \in N PROVE m \in H /\ m # k + 1
    <3>1. m \in i + 1 .. NumTasks - 1 /\ n[m] = h[cur] /\ n[m - 1] # h[cur]
      BY <2>1 DEF HeadsOf
    <3>2. m - 1 \in cur .. NumTasks - 1 /\ m \in cur .. NumTasks - 1 /\ m - 1 > k - s
      BY <1>1, <1>5, <3>1
    <3>3. m - 1 > k
      BY <1>1, <1>2, <3>1, <3>2
    <3>4. n[m - 1] = h[m - 1] /\ n[m] = h[m]
      BY <1>1, <1>2, <3>2, <3>3
    <3>5. m \in j + 1 .. NumTasks - 1 /\ m # k + 1
      BY <1>1, <2>1, <3>1, <3>3
    <3> QED
      BY <2>1, <3>1, <3>4, <3>5 DEF HeadsOf
  <2>4. N \in SUBSET (H \ {k + 1})
    BY <2>3
  <2>5. IsFiniteSet(H \ {k + 1}) /\ Cardinality(H \ {k + 1}) = Cardinality(H) - 1
    BY <1>4, <2>2, FS_RemoveElement
  <2>6. Cardinality(N) <= Cardinality(H \ {k + 1})
    BY <2>4, <2>5, FS_Subset
  <2> HIDE DEF N, H, j
  <2> QED
    BY <1>4, <2>5, <2>6 DEF j, N, H
<1>6. CASE i > k
  <2>1. j = i /\ i # cur /\ n[i] = h[i]
    <3>1. j = i /\ i # cur
      BY <1>1, <1>6 DEF Source
    <3> QED
      BY <1>2, <1>6, <3>1
  <2>2. ASSUME NEW m \in N PROVE m \in H
    <3>1. m \in i + 1 .. NumTasks - 1 /\ n[m] = h[i] /\ n[m - 1] # h[i]
      BY <2>1 DEF HeadsOf
    <3>2. m \in cur .. NumTasks - 1 /\ m - 1 \in cur .. NumTasks - 1 /\ m > k /\ m - 1 > k
      BY <1>1, <1>6, <3>1
    <3> QED
      BY <1>2, <2>1, <3>1, <3>2 DEF HeadsOf
  <2>3. N \in SUBSET H
    BY <2>2
  <2>4. Cardinality(N) <= Cardinality(H)
    BY <1>4, <2>3, FS_Subset
  <2> HIDE DEF N, H, j
  <2> QED
    BY <1>4, <2>1, <2>4 DEF j, N, H
<1>7. CASE i <= k - s
  <2> DEFINE image(m) == IF m <= k - s THEN m + s ELSE IF m = k - s + 1 THEN k + 1 ELSE m
             g == [m \in N |-> image(m)]
  <2>1. j = i + s /\ j # cur /\ n[i] = h[j]
    <3>1. j = i + s /\ j # cur
      BY <1>1, <1>7 DEF Source
    <3> QED
      BY <1>2, <1>7, <3>1
  <2>2. ASSUME NEW m \in N PROVE image(m) \in H /\ m \in Int /\ (m <= k - s + 1 \/ m > k + 1)
    <3>1. m \in i + 1 .. NumTasks - 1 /\ n[m] = h[j] /\ n[m - 1] # h[j]
      BY <2>1 DEF HeadsOf
    <3>2. m \in cur .. NumTasks - 1 /\ m - 1 \in cur .. NumTasks - 1
      BY <1>1, <3>1
    <3>2a. m \in Int /\ k \in Int /\ s \in Int /\ s > 0
      BY <1>1, <3>1
    <3>3. CASE m <= k - s
      <4>1. n[m] = h[m + s] /\ n[m - 1] = h[(m - 1) + s] /\ (m - 1) + s = (m + s) - 1
        <5>1. m - 1 <= k - s /\ (m - 1) + s = (m + s) - 1
          BY <1>1, <3>2a, <3>3
        <5> QED
          BY <1>2, <3>2, <3>3, <5>1
      <4>2. m + s \in j + 1 .. NumTasks - 1
        BY <1>1, <2>1, <3>1, <3>3
      <4> QED
        BY <1>1, <3>1, <3>3, <4>1, <4>2 DEF HeadsOf
    <3>4. CASE m = k - s + 1
      <4>1. n[m] = h[cur]
        BY <1>1, <1>2, <3>2, <3>4
      <4>2. k + 1 \in j + 1 .. NumTasks - 1 /\ (k + 1) - 1 = k
        BY <1>1, <1>7, <2>1
      <4>3. image(m) = k + 1
        BY <1>1, <3>4
      <4> QED
        BY <1>1, <3>1, <3>4, <4>1, <4>2, <4>3 DEF HeadsOf
    <3>5. CASE m > k - s + 1
      <4>1. m > k + 1
        <5> SUFFICES ASSUME m <= k + 1 PROVE FALSE
          BY <3>2a
        <5>1. m - 1 > k - s /\ m - 1 <= k
          BY <3>2a, <3>5
        <5>2. n[m - 1] = h[cur]
          BY <1>2, <3>2, <5>1
        <5>3. m = k + 1 => n[m] = h[cur]
          BY <1>2, <3>2, <3>2a
        <5>4. m <= k => n[m] = h[cur]
          BY <1>2, <3>2, <3>2a, <3>5
        <5>5. n[m] = h[cur]
          BY <3>2a, <5>3, <5>4
        <5> QED
          BY <3>1, <5>2, <5>5
      <4>2. n[m] = h[m] /\ n[m - 1] = h[m - 1]
        BY <1>1, <1>2, <3>2, <4>1
      <4>3. m \in j + 1 .. NumTasks - 1
        BY <1>1, <1>7, <2>1, <3>1, <4>1
      <4>4. image(m) = m
        <5>1. ~ (m <= k - s) /\ m # k - s + 1
          BY <3>2a, <4>1
        <5> QED
          BY <5>1
      <4> QED
        BY <1>1, <3>1, <4>1, <4>2, <4>3, <4>4 DEF HeadsOf
    <3> QED
      BY <1>1, <3>1, <3>3, <3>4, <3>5
  <2>3. ASSUME NEW a \in N, NEW b \in N, image(a) = image(b)
        PROVE  a = b
    <3>1. a \in Int /\ b \in Int /\ (a <= k - s + 1 \/ a > k + 1) /\ (b <= k - s + 1 \/ b > k + 1)
      BY <2>2
    <3> QED
      BY <1>1, <2>3, <3>1
  <2>4. g \in Injection(N, H)
    <3> HIDE DEF image
    <3> QED
      BY <2>2, <2>3 DEF Injection, IsInjective
  <2>5. Cardinality(N) <= Cardinality(H)
    BY <1>4, <2>4, FS_Injection
  <2> HIDE DEF N, H, j
  <2> QED
    BY <1>4, <2>1, <2>5 DEF j, N, H
<1> QED
  BY <1>1, <1>5, <1>6, <1>7

-----------------------------------------------------------------------------
(* How often a task is preempted.                                          *)

PidAt == [m \in Indices |-> parsed.pid[tasks[m]]]

(* The later tasks of the process of e.                                    *)
Later(e) == {f \in e + 1 .. NumTasks - 1 : parsed.pid[f] = parsed.pid[e]}

(* The task handle_no_preemption_slot_found has finished.                  *)
OnceMore(e) == IF state[e] = PLAN_TASK_FINISHED /\ plan_state = PLAN_FINISHED THEN 1 ELSE 0

(* Every preemption uses up a run of tasks of the process: those a task    *)
(* has behind it and its preemptions are never more than its process had   *)
(* later tasks.                                                            *)
RunsBounded ==
  \A i \in cur .. NumTasks - 1 :
    was_preempted[tasks[i]] + Cardinality(HeadsOf(PidAt, i))
      <= Cardinality(Later(tasks[i])) + OnceMore(tasks[i])

LEMMA NextRunsParts ==
  RunsBounded' <=>
    \A i \in cur' .. NumTasks - 1 : \A e : e = tasks'[i] =>
      was_preempted'[e] + Cardinality(HeadsOf(PidAt', i)) <= Cardinality(Later(e)') + OnceMore(e)'
BY DEF RunsBounded, HeadsOf, Later, OnceMore

LEMMA LaterFinite ==
  \A e \in Entries : IsFiniteSet(Later(e)) /\ Cardinality(Later(e)) \in Nat
<1> SUFFICES ASSUME NEW e \in Entries
             PROVE  IsFiniteSet(Later(e)) /\ Cardinality(Later(e)) \in Nat
  OBVIOUS
<1>1. e + 1 \in Int /\ NumTasks - 1 \in Int
  BY EntriesFinite
<1>2. IsFiniteSet(e + 1 .. NumTasks - 1) /\ Later(e) \in SUBSET (e + 1 .. NumTasks - 1)
  BY <1>1, FS_Interval DEF Later
<1>3. IsFiniteSet(Later(e))
  BY <1>2, FS_Subset
<1> QED
  BY <1>3, FS_CardinalityType

LEMMA PreemptionBound ==
  PreemptionsBounded <=>
    \A e \in Entries : was_preempted[e] <= Cardinality(Later(e))
                                           + (IF plan_state = PLAN_FINISHED THEN 1 ELSE 0)
BY DEF PreemptionsBounded, Later

LEMMA NextPreemptionBound ==
  parsed' = parsed =>
    (PreemptionsBounded' <=>
       \A e \in Entries : was_preempted'[e] <= Cardinality(Later(e))
                                               + (IF plan_state' = PLAN_FINISHED THEN 1 ELSE 0))
BY DEF PreemptionsBounded, Later

LEMMA InitRunsBounded == PlanIsLoaded => RunsBounded /\ PreemptionsBounded
<1> SUFFICES ASSUME PlanIsLoaded PROVE RunsBounded /\ PreemptionsBounded
  OBVIOUS
<1>1. /\ tasks = [i \in Indices |-> i]
      /\ cur = 0
      /\ was_preempted = [e \in Indices |-> 0]
      /\ plan_state = ON_PLAN
  BY DEF PlanIsLoaded, parse_plan
<1>2. /\ NumTasks \in Nat \ {0}
      /\ Indices = 0 .. NumTasks
      /\ Entries = 0 .. NumTasks - 1
  BY EntriesFinite
<1>3. ASSUME NEW i \in Entries PROVE Cardinality(HeadsOf(PidAt, i)) <= Cardinality(Later(i))
  <2>1. \A m \in Entries : PidAt[m] = parsed.pid[m] /\ tasks[m] = m
    BY <1>1, <1>2 DEF PidAt
  <2>2. i + 1 .. NumTasks - 1 \subseteq Entries
    BY <1>2
  <2>3. HeadsOf(PidAt, i) \in SUBSET Later(i)
    BY <2>1, <2>2 DEF HeadsOf, Later
  <2> QED
    BY <2>3, LaterFinite, FS_Subset
<1>4. ASSUME NEW i \in Entries
      PROVE  was_preempted[i] = 0 /\ tasks[i] = i /\ Cardinality(Later(i)) \in Nat
             /\ Cardinality(HeadsOf(PidAt, i)) \in Nat
  <2>1. i \in Indices /\ i \in Int
    BY <1>2
  <2> QED
    BY <1>1, <1>2, <2>1, LaterFinite, HeadsFinite
<1>5. ASSUME NEW i \in Entries PROVE OnceMore(i) = 0
  BY <1>1 DEF OnceMore, ON_PLAN, PLAN_FINISHED
<1>6. RunsBounded
  <2> SUFFICES ASSUME NEW i \in Entries
               PROVE  was_preempted[tasks[i]] + Cardinality(HeadsOf(PidAt, i))
                        <= Cardinality(Later(tasks[i])) + OnceMore(tasks[i])
    BY <1>1, <1>2 DEF RunsBounded
  <2>1. /\ was_preempted[i] = 0 /\ tasks[i] = i /\ OnceMore(i) = 0
        /\ Cardinality(Later(i)) \in Nat /\ Cardinality(HeadsOf(PidAt, i)) \in Nat
        /\ Cardinality(HeadsOf(PidAt, i)) <= Cardinality(Later(i))
    BY <1>3, <1>4, <1>5
  <2> QED
    BY <2>1
<1>7. PreemptionsBounded
  <2>1. \A e \in Entries : was_preempted[e] = 0 /\ Cardinality(Later(e)) \in Nat
    BY <1>4
  <2> QED
    BY <1>1, <2>1, PreemptionBound DEF ON_PLAN, PLAN_FINISHED
<1> QED
  BY <1>6, <1>7

(* find_slot_to_move_to finds a slot whenever the process has a run of     *)
(* tasks ahead.                                                            *)
LEMMA RunIsASlot ==
  ASSUME IInv, cur \in 0 .. NumTasks - 1,
         ~ \E k \in Indices : IsInsertionSlot(tasks, parsed.pid, cur, NumTasks, k)
  PROVE  HeadsOf(PidAt, cur) = {}
<1> DEFINE h == PidAt
           H == HeadsOf(h, cur)
<1> SUFFICES ASSUME H # {} PROVE FALSE
  OBVIOUS
<1>1. /\ NumTasks \in Nat /\ cur \in Nat /\ cur <= NumTasks - 1
      /\ Indices = 0 .. NumTasks
      /\ NumTasks - 1 \in Int
  BY EntriesFinite
<1>2. \A j \in cur .. NumTasks - 1 : h[j] = parsed.pid[tasks[j]]
  BY <1>1 DEF PidAt
<1>3. PICK m \in H : \A y \in H : m <= y
  <2>1. H \subseteq cur + 1 .. NumTasks - 1 /\ cur + 1 \in Int
    BY <1>1 DEF HeadsOf
  <2> HIDE DEF H
  <2> QED
    BY <1>1, <2>1, LeastElement
<1>4. m \in cur + 1 .. NumTasks - 1 /\ h[m] = h[cur] /\ h[m - 1] # h[cur]
  BY <1>3 DEF HeadsOf
<1> DEFINE D == {j \in cur + 1 .. m - 1 : h[j] # h[cur]}
<1>5. m \in Int /\ m - 1 \in Int /\ cur + 1 \in Int /\ m - 1 \in cur + 1 .. NumTasks - 2
  <2>1. m - 1 # cur
    BY <1>4
  <2> QED
    BY <1>1, <1>4, <2>1
<1>6. PICK gap \in D : \A y \in D : gap <= y
  <2>1. D \subseteq cur + 1 .. m - 1 /\ D # {}
    BY <1>4, <1>5
  <2> HIDE DEF D
  <2> QED
    BY <1>5, <2>1, LeastElement
<1>7. gap \in cur + 1 .. m - 1 /\ gap \in Int
  BY <1>5, <1>6
<1>8. \A j \in cur .. gap - 1 : h[j] = h[cur]
  <2> SUFFICES ASSUME NEW j \in cur .. gap - 1, j # cur PROVE h[j] = h[cur]
    OBVIOUS
  <2>1. j \in cur + 1 .. m - 1 /\ ~ (gap <= j)
    BY <1>1, <1>5, <1>7
  <2> QED
    BY <1>6, <2>1
<1>9. \A j \in gap .. m - 1 : h[j] # h[cur]
  <2> DEFINE E == {j \in gap .. m - 1 : h[j] = h[cur]}
  <2> SUFFICES ASSUME E # {} PROVE FALSE
    OBVIOUS
  <2>1. PICK j \in E : \A y \in E : j <= y
    <3>1. E \subseteq gap .. m - 1
      OBVIOUS
    <3> HIDE DEF E
    <3> QED
      BY <1>5, <1>7, <3>1, LeastElement
  <2>2. j \in gap .. m - 1 /\ h[j] = h[cur] /\ j # gap
    BY <1>6, <2>1
  <2>3. j \in Int /\ j - 1 \in gap .. m - 1 /\ ~ (j <= j - 1)
    BY <1>5, <1>7, <2>2
  <2>4. h[j - 1] # h[cur]
    BY <2>1, <2>3
  <2>5. j \in cur + 1 .. NumTasks - 1 /\ ~ (m <= j)
    BY <1>1, <1>4, <1>5, <1>7, <2>2
  <2> QED
    BY <1>3, <2>2, <2>4, <2>5 DEF HeadsOf
<1>10. IsInsertionSlot(tasks, parsed.pid, cur, NumTasks, m - 1)
  <2>1. /\ \A j \in cur .. gap - 1 : parsed.pid[tasks[j]] = parsed.pid[tasks[cur]]
        /\ \A j \in gap .. m - 1 : parsed.pid[tasks[j]] # parsed.pid[tasks[cur]]
    <3>1. /\ cur .. gap - 1 \subseteq cur .. NumTasks - 1
          /\ gap .. m - 1 \subseteq cur .. NumTasks - 1
          /\ cur \in cur .. NumTasks - 1
      BY <1>1, <1>5, <1>7
    <3> HIDE DEF h
    <3> QED
      BY <1>2, <1>8, <1>9, <3>1
  <2>2. parsed.pid[tasks[m]] = parsed.pid[tasks[cur]]
    <3>1. m \in cur .. NumTasks - 1 /\ cur \in cur .. NumTasks - 1
      BY <1>1, <1>4
    <3> HIDE DEF h
    <3> QED
      BY <1>2, <1>4, <3>1
  <2>3. (m - 1) + 1 = m
    BY <1>5
  <2> QED
    BY <1>5, <1>7, <2>1, <2>2, <2>3 DEF IsInsertionSlot
<1>11. m - 1 \in Indices
  BY <1>1, <1>5
<1> QED
  BY <1>10, <1>11

(* What follows from RunsBounded for a task that is still ahead.           *)
BoundAhead ==
  \A e \in Rest : was_preempted[e] <= Cardinality(Later(e))
                                      + (IF plan_state = PLAN_FINISHED THEN 1 ELSE 0)

LEMMA RunsBoundAhead == IInv /\ RunsBounded => BoundAhead
<1> SUFFICES ASSUME IInv, RunsBounded, NEW e \in Rest
             PROVE  was_preempted[e] <= Cardinality(Later(e))
                                        + (IF plan_state = PLAN_FINISHED THEN 1 ELSE 0)
  BY DEF BoundAhead
<1>1. PICK i \in cur .. NumTasks - 1 : tasks[i] = e
  BY DEF Rest
<1>2. was_preempted[e] + Cardinality(HeadsOf(PidAt, i)) <= Cardinality(Later(e)) + OnceMore(e)
  BY <1>1 DEF RunsBounded
<1>3. i \in Int /\ NumTasks \in Nat /\ e \in Entries /\ e \in Indices
  BY EntriesFinite DEF IInv, TypeOK, Rest
<1>4. Cardinality(HeadsOf(PidAt, i)) \in Nat /\ Cardinality(Later(e)) \in Nat
  BY <1>3, HeadsFinite, LaterFinite
<1>5. was_preempted[e] \in Nat
  BY <1>3 DEF IInv, TypeOK
<1> QED
  BY <1>2, <1>4, <1>5 DEF OnceMore

(* A tick that preempts nothing changes no bound; the others only that of  *)
(* the current task, which stays ahead.                                    *)
LEMMA BoundKept ==
  ASSUME IInv, PreemptionsBounded, parsed' = parsed,
         plan_state = PLAN_FINISHED => plan_state' = PLAN_FINISHED,
         NEW same, \A e \in Entries : e # same => was_preempted'[e] = was_preempted[e],
         same \in Entries => same \in Rest' /\ BoundAhead'
  PROVE  PreemptionsBounded'
<1> SUFFICES ASSUME NEW e \in Entries
             PROVE  was_preempted'[e] <= Cardinality(Later(e))
                                         + (IF plan_state' = PLAN_FINISHED THEN 1 ELSE 0)
  BY NextPreemptionBound
<1>1. CASE e = same
  <2>1. Later(e)' = Later(e)
    BY DEF Later
  <2>2. e \in Rest' /\ BoundAhead'
    BY <1>1
  <2> QED
    BY <2>1, <2>2 DEF BoundAhead
<1>2. CASE e # same
  <2>1. was_preempted'[e] = was_preempted[e] /\ Cardinality(Later(e)) \in Nat /\ was_preempted[e] \in Nat
    BY <1>2, LaterFinite, EntriesFinite DEF IInv, TypeOK
  <2>2. was_preempted[e] <= Cardinality(Later(e)) + (IF plan_state = PLAN_FINISHED THEN 1 ELSE 0)
    BY PreemptionBound
  <2> QED
    BY <2>1, <2>2
<1> QED
  BY <1>1, <1>2

(* While the plan is on, no task ahead is finished.                        *)
LEMMA NothingOnceMore ==
  ASSUME IInv, FinishedInv, NEW i \in cur .. NumTasks - 1, i # cur \/ ~ FinishesInTick
  PROVE  OnceMore(tasks[i]) = 0
<1>1. cur \in Indices /\ NumTasks \in Nat /\ Indices = 0 .. NumTasks
  BY EntriesFinite DEF IInv, TypeOK
<1>2. CASE i # cur
  BY <1>2, FinishedInvParts DEF OnceMore
<1>3. CASE i = cur
  <2>1. cur \in 0 .. NumTasks - 1 /\ cur \in cur .. NumTasks - 1
    BY <1>1, <1>3
  <2>2. cur_task # END
    <3>1. NumTasks \in Indices /\ cur # NumTasks
      BY <1>1, <2>1
    <3> QED
      BY <1>1, <3>1 DEF IInv, PlanIsPermutation, cur_task
  <2>3. retired_task[cur_task] \in Nat /\ parsed.real[cur_task] \in Nat
    BY <2>2, TaskRuns DEF IInv, TypeOK
  <2>4. ~ (retired_task[cur_task] >= parsed.real[cur_task])
    BY <1>3, <2>3, ConfigAssumption DEF FinishesInTick
  <2>5. state[cur_task] # PLAN_TASK_FINISHED
    BY <2>2, <2>4, FinishedInvParts
  <2> QED
    BY <1>3, <2>5 DEF OnceMore, cur_task
<1> QED
  BY <1>2, <1>3

LEMMA OnceMoreType == \A e : OnceMore(e) \in {0, 1} /\ OnceMore(e)' \in {0, 1}
BY DEF OnceMore

LEMMA PreemptKeepsBounds ==
  ASSUME IInv, FinishedInv, RunsBounded, TickPreemptsTask
  PROVE  RunsBounded'
<1>1. /\ cur \in 0 .. NumTasks - 1
      /\ cur' = cur + 1 \/ cur' = cur
      /\ parsed' = parsed
      /\ was_preempted' = [was_preempted EXCEPT ![cur_task] = @ + 1]
      /\ tasks' \in [Indices -> Indices]
  BY PreemptMoves
<1>2. /\ NumTasks \in Nat
      /\ Indices = 0 .. NumTasks
      /\ tasks \in [Indices -> Indices]
      /\ was_preempted \in [Indices -> Nat]
  BY EntriesFinite DEF IInv, TypeOK
<1>3. PICK s \in Indices, k \in Indices : Preempts(s, k)
  BY PreemptMoves
<1>4. /\ Fits(s, k)
      /\ \A m \in Indices : tasks'[m] = tasks[Source(m, s, k)]
      /\ parsed.pid[tasks[k + 1]] = parsed.pid[tasks[cur]]
      /\ \A m \in cur .. cur + s - 1 : parsed.pid[tasks[m]] = parsed.pid[tasks[cur]]
      /\ parsed.pid[tasks[k]] # parsed.pid[tasks[cur]]
  <2>1. cur \in Nat
    BY <1>1
  <2>2. parsed.pid[tasks[k]] # parsed.pid[tasks[cur]]
    <3>1. IsInsertionSlot(tasks, parsed.pid, cur, NumTasks, k) /\ k \in Int
      BY <1>2, <1>3 DEF Preempts
    <3>2. PICK gap \in cur + 1 .. k : \A j \in gap .. k : parsed.pid[tasks[j]] # parsed.pid[tasks[cur]]
      BY <3>1 DEF IsInsertionSlot
    <3>3. k \in gap .. k
      BY <3>1
    <3> QED
      BY <3>2, <3>3
  <2> QED
    BY <1>2, <1>3, <2>1, <2>2, StackFits DEF Preempts
<1>5. ~ FinishesInTick
  BY DEF TickPreemptsTask, TimerTick
<1>6. \A m \in Indices : Source(m, s, k) \in Indices
  BY <1>2, <1>4, SourceAndTarget
<1>7. \A m \in Indices : PidAt'[m] = PidAt[Source(m, s, k)]
  BY <1>1, <1>4, <1>6 DEF PidAt
<1>8. /\ \A m \in cur .. cur + s - 1 : PidAt[m] = PidAt[cur]
      /\ PidAt[k] # PidAt[cur]
      /\ PidAt[k + 1] = PidAt[cur]
  <2>0. s \in Nat /\ k \in Nat /\ cur \in Nat /\ cur + s <= k /\ k <= NumTasks - 2
    BY <1>4 DEF Fits
  <2>1. /\ cur \in Indices /\ k \in Indices /\ k + 1 \in Indices
        /\ \A m \in cur .. cur + s - 1 : m \in Indices
    BY <1>2, <2>0
  <2> QED
    BY <1>4, <2>1 DEF PidAt
<1>a. cur \in Nat /\ cur' \in Nat /\ cur <= cur' /\ cur <= NumTasks - 1
  BY <1>1
<1> SUFFICES ASSUME NEW i \in cur' .. NumTasks - 1, NEW e, e = tasks'[i]
             PROVE  was_preempted'[e] + Cardinality(HeadsOf(PidAt', i))
                      <= Cardinality(Later(e)') + OnceMore(e)'
  BY NextRunsParts
<1> DEFINE j == Source(i, s, k)
           headsNew == Cardinality(HeadsOf(PidAt', i))
           headsOld == Cardinality(HeadsOf(PidAt, j))
           later == Cardinality(Later(e))
<1>9. i \in cur .. NumTasks - 1 /\ i \in Indices /\ i \in Int
  BY <1>a, <1>2
<1>10. j \in cur .. NumTasks - 1 /\ j \in Indices /\ j \in Int /\ j \in 0 .. NumTasks - 1
  <2>1. j \in cur .. NumTasks - 1
    BY <1>2, <1>4, <1>9, SourceAndTarget
  <2> HIDE DEF j
  <2> QED
    BY <1>a, <1>2, <2>1
<1>11. tasks[j] = e /\ e \in Indices /\ e \in Entries
  <2>1. tasks[j] = e
    BY <1>4, <1>9
  <2> HIDE DEF j
  <2>2. e \in Entries
    BY <1>10, <2>1, DoneAndRest DEF ListIsSplit
  <2>3. e \in Indices
    BY <1>2, <1>10, <2>1
  <2> QED
    BY <2>1, <2>2, <2>3
<1>12. headsNew \in Nat /\ headsOld \in Nat /\ later \in Nat
  BY <1>2, <1>9, <1>10, <1>11, HeadsFinite, LaterFinite
<1>13. headsNew + (IF j = cur THEN 1 ELSE 0) <= headsOld
  BY <1>2, <1>4, <1>7, <1>8, <1>9, HeadsMove
<1>14. was_preempted[e] + headsOld <= later + 0
  <2>1. OnceMore(e) = 0
    BY <1>5, <1>10, <1>11, NothingOnceMore
  <2> QED
    BY <1>10, <1>11, <2>1 DEF RunsBounded
<1>15. e = cur_task <=> j = cur
  <2>1. cur \in Indices
    BY <1>a, <1>2
  <2> QED
    BY <1>10, <1>11, <2>1 DEF IInv, PlanIsPermutation, cur_task
<1>16. was_preempted'[e] = was_preempted[e] + (IF j = cur THEN 1 ELSE 0) /\ was_preempted[e] \in Nat
  <2> HIDE DEF j
  <2>1. was_preempted[e] \in Nat
    BY <1>2, <1>11
  <2>2. e = cur_task => was_preempted'[e] = was_preempted[e] + 1
    BY <1>1, <1>2, <1>11
  <2>3. e # cur_task => was_preempted'[e] = was_preempted[e]
    BY <1>1, <1>2, <1>11
  <2> QED
    BY <1>15, <2>1, <2>2, <2>3
<1>17. OnceMore(e)' \in {0, 1} /\ Later(e)' = Later(e)
  BY <1>1, OnceMoreType DEF Later
<1> HIDE DEF j, headsNew, headsOld, later
<1>18. was_preempted'[e] + headsNew <= later + OnceMore(e)'
  BY <1>12, <1>13, <1>14, <1>16, <1>17
<1> QED
  BY <1>17, <1>18 DEF headsNew, later

LEMMA NextRunsBounded ==
  ASSUME IInv, IInv', FinishedInv, RunsBounded, PreemptionsBounded, [Next]_vars
  PROVE  RunsBounded' /\ PreemptionsBounded'
<1>1. RunsBounded' => BoundAhead'
  <2>1. IInv' /\ RunsBounded' => BoundAhead'
    BY RunsBoundAhead, PTL
  <2> QED
    BY <2>1
<1>2. CASE UNCHANGED vars
  <2>1. UNCHANGED <<parsed, tasks, cur, was_preempted, state, plan_state>>
    BY <1>2 DEF vars, taskVars, nodeVars
  <2>2. PidAt' = PidAt /\ \A e : Later(e)' = Later(e) /\ OnceMore(e)' = OnceMore(e)
    BY <2>1 DEF PidAt, Later, OnceMore
  <2>3. RunsBounded'
    BY <2>1, <2>2, NextRunsParts DEF RunsBounded
  <2> QED
    BY <2>1, <2>3 DEF PreemptionsBounded
<1>3. CASE TickFinishesTask
  <2>1. /\ cur \in 0 .. NumTasks - 1
        /\ cur' = cur + 1 \/ cur' = cur + 2
        /\ UNCHANGED <<parsed, tasks, was_preempted, plan_state>>
    BY <1>3, FinishMoves
  <2>2. \A i \in cur' .. NumTasks - 1 : i \in cur .. NumTasks - 1 /\ i # cur /\ i \in Int
    BY <2>1, EntriesFinite
  <2>3. ASSUME NEW i \in cur' .. NumTasks - 1
        PROVE  \A e : e = tasks[i] =>
                 was_preempted[e] + Cardinality(HeadsOf(PidAt, i))
                   <= Cardinality(Later(e)) + OnceMore(e)'
    <3>1. was_preempted[tasks[i]] + Cardinality(HeadsOf(PidAt, i)) <= Cardinality(Later(tasks[i])) + 0
      <4>1. OnceMore(tasks[i]) = 0
        BY <2>2, NothingOnceMore
      <4> QED
        BY <2>2, <4>1 DEF RunsBounded
    <3>2. i \in 0 .. NumTasks - 1
      BY <2>1, <2>2
    <3>3. tasks[i] \in Entries
      BY <3>2, DoneAndRest DEF ListIsSplit
    <3>4. /\ was_preempted[tasks[i]] \in Nat
          /\ Cardinality(HeadsOf(PidAt, i)) \in Nat
          /\ Cardinality(Later(tasks[i])) \in Nat
      <4>1. tasks[i] \in Indices /\ NumTasks \in Nat /\ i \in Int
        BY <2>2, <3>3, EntriesFinite
      <4> QED
        BY <3>3, <4>1, HeadsFinite, LaterFinite DEF IInv, TypeOK
    <3> QED
      BY <3>1, <3>4, OnceMoreType
  <2>4. RunsBounded'
    <3>1. PidAt' = PidAt /\ \A e : Later(e)' = Later(e)
      BY <2>1 DEF PidAt, Later
    <3> QED
      BY <2>1, <2>3, <3>1, NextRunsParts
  <2>5. PreemptionsBounded'
    BY <2>1 DEF PreemptionsBounded
  <2> QED
    BY <2>4, <2>5
<1>4. CASE TickRunsTask
  <2>1. /\ UNCHANGED <<parsed, tasks, cur>>
        /\ UNCHANGED <<was_preempted, state, plan_state>>
    BY <1>4, TickStays DEF TickRunsTask
  <2>2. PidAt' = PidAt /\ \A e : Later(e)' = Later(e) /\ OnceMore(e)' = OnceMore(e)
    BY <2>1 DEF PidAt, Later, OnceMore
  <2>3. RunsBounded'
    BY <2>1, <2>2, NextRunsParts DEF RunsBounded
  <2> QED
    BY <2>1, <2>3 DEF PreemptionsBounded
<1>5. CASE TickPreemptsTask
  <2>1. RunsBounded'
    BY <1>5, PreemptKeepsBounds
  <2>2. /\ cur \in 0 .. NumTasks - 1
        /\ UNCHANGED <<parsed, plan_state>>
        /\ was_preempted' = [was_preempted EXCEPT ![cur_task] = @ + 1]
    BY <1>5, PreemptMoves
  <2>3. \A e \in Entries : e # cur_task => was_preempted'[e] = was_preempted[e]
    BY <2>2, EntriesFinite DEF IInv, TypeOK
  <2>4. cur_task \in Entries /\ cur_task \in Rest'
    <3>1. cur_task \in Entries /\ cur_task \in Rest
      <4>1. cur >= cur
        BY <2>2, EntriesFinite
      <4> QED
        BY <2>2, <4>1, DoneAndRest DEF ListIsSplit, cur_task
    <3>2. ~ IsFreeSlot(cur_task)
      BY DEF IInv, CurTaskIsRunnable
    <3> QED
      BY <1>5, <3>1, <3>2, PreemptDone
  <2>5. PreemptionsBounded'
    BY <1>1, <2>1, <2>2, <2>3, <2>4, BoundKept
  <2> QED
    BY <2>1, <2>5
<1>6. CASE TickFindsNoSlot
  <2>1. /\ cur \in 0 .. NumTasks - 1
        /\ UNCHANGED <<parsed, tasks, cur>>
        /\ was_preempted' = [was_preempted EXCEPT ![cur_task] = @ + 1]
        /\ state' = [state EXCEPT ![cur_task] = PLAN_TASK_FINISHED]
        /\ plan_state' = PLAN_FINISHED
        /\ ~ FinishesInTick
    BY <1>6, TickStays DEF TickFindsNoSlot, TimerTick
  <2>2. HeadsOf(PidAt, cur) = {}
    BY <1>6, <2>1, RunIsASlot DEF TickFindsNoSlot
  <2>3. /\ NumTasks \in Nat /\ Indices = 0 .. NumTasks
        /\ was_preempted \in [Indices -> Nat]
        /\ state \in [Indices -> {PLAN_TASK_WAITING, PLAN_TASK_RUNNING, PLAN_TASK_FINISHED}]
    BY EntriesFinite DEF IInv, TypeOK
  <2>4. ASSUME NEW i \in cur .. NumTasks - 1
        PROVE  \A e : e = tasks[i] =>
                 was_preempted'[e] + Cardinality(HeadsOf(PidAt, i))
                   <= Cardinality(Later(e)) + OnceMore(e)'
    <3> SUFFICES ASSUME NEW e, e = tasks[i]
                 PROVE  was_preempted'[e] + Cardinality(HeadsOf(PidAt, i))
                          <= Cardinality(Later(e)) + OnceMore(e)'
      OBVIOUS
    <3> DEFINE heads == Cardinality(HeadsOf(PidAt, i))
               later == Cardinality(Later(e))
    <3>1. i \in 0 .. NumTasks - 1 /\ i \in Indices /\ i \in Int /\ cur \in Indices
      BY <2>1, <2>3
    <3>2. e \in Entries /\ e \in Indices
      BY <3>1, DoneAndRest, EntriesFinite DEF ListIsSplit
    <3>3. heads \in Nat /\ later \in Nat /\ was_preempted[e] \in Nat
      BY <2>3, <3>1, <3>2, HeadsFinite, LaterFinite
    <3>4. was_preempted[e] + heads <= later + 0
      <4>1. OnceMore(e) = 0
        BY <2>1, NothingOnceMore
      <4> QED
        BY <4>1 DEF RunsBounded
    <3>5. e = cur_task <=> i = cur
      BY <3>1 DEF IInv, PlanIsPermutation, cur_task
    <3>6. CASE i = cur
      <4>1. was_preempted'[e] = was_preempted[e] + 1 /\ state'[e] = PLAN_TASK_FINISHED
        BY <2>1, <2>3, <3>2, <3>5, <3>6
      <4>2. OnceMore(e)' = 1
        BY <2>1, <4>1 DEF OnceMore
      <4> HIDE DEF heads, later
      <4>3. was_preempted'[e] + heads <= later + OnceMore(e)'
        BY <3>3, <3>4, <4>1, <4>2
      <4> QED
        BY <4>3 DEF heads, later
    <3>7. CASE i # cur
      <4>1. was_preempted'[e] = was_preempted[e]
        BY <2>1, <2>3, <3>2, <3>5, <3>7
      <4>2. OnceMore(e)' \in {0, 1}
        BY OnceMoreType
      <4> HIDE DEF heads, later
      <4>3. was_preempted'[e] + heads <= later + OnceMore(e)'
        BY <3>3, <3>4, <4>1, <4>2
      <4> QED
        BY <4>3 DEF heads, later
    <3> QED
      BY <3>6, <3>7
  <2>5. RunsBounded'
    <3>1. PidAt' = PidAt /\ \A e : Later(e)' = Later(e)
      BY <2>1 DEF PidAt, Later
    <3> QED
      BY <2>1, <2>4, <3>1, NextRunsParts
  <2>6. cur_task \in Rest'
    <3>1. cur >= cur
      BY <2>1, <2>3
    <3>2. cur_task \in Rest
      BY <2>1, <3>1, DoneAndRest DEF ListIsSplit, cur_task
    <3> QED
      BY <2>1, <3>2 DEF Rest
  <2>7. \A e \in Entries : e # cur_task => was_preempted'[e] = was_preempted[e]
    BY <2>1, <2>3, EntriesFinite
  <2>8. PreemptionsBounded'
    BY <1>1, <2>1, <2>5, <2>6, <2>7, BoundKept
  <2> QED
    BY <2>5, <2>8
<1> QED
  BY <1>2, <1>3, <1>4, <1>5, <1>6 DEF Next, pbs_run_timer_tick, TickAfterEnd

(* No task of any plan is preempted more often than its process has later  *)
(* tasks, and once more when no slot is left: task->was_preempted, which   *)
(* check_t2_preemptions compares with its limit, does not grow for ever.   *)
THEOREM PreemptionsCorrect == Spec => []PreemptionsBounded
<1>1. Init => RunsBounded /\ PreemptionsBounded
  BY InitLoads, InitRunsBounded
<1>2. IInv /\ IInv' /\ FinishedInv /\ (RunsBounded /\ PreemptionsBounded) /\ [Next]_vars
        => (RunsBounded /\ PreemptionsBounded)'
  BY NextRunsBounded
<1> QED
  BY <1>1, <1>2, SpecIInv, SpecFinishedInv, PTL DEF Spec

-----------------------------------------------------------------------------
(* Plans whose tasks are spread: preempted tasks stay in stacks, and the   *)
(* tasks of a process in their order.                                      *)

(* The part of a list from index c to n - 1, seen as the sequences T of    *)
(* its entries, P of their processes and O of their slot owners.           *)
(* SlotStacks in these terms.                                              *)
Stacked(T, P, O, c, n) ==
  \A i \in c .. n - 1 :
    \E j \in i .. n - 1 : /\ O[i] = T[j]
                          /\ \A m \in i .. j : O[m] = T[j] /\ P[m] = P[i]

(* Only the first tasks of a process are guests, and all of one owner.     *)
FirstStacked(T, P, O, c, n) ==
  \A i, j \in c .. n - 1 : i < j /\ P[i] = P[j] /\ O[j] # T[j] => O[i] = O[j]

(* Neighbours of one process share a slot, or only this process is left.   *)
Together(P, O, c, n) ==
  \A i \in c .. n - 2 :
    P[i] = P[i + 1] => O[i] = O[i + 1] \/ \A j \in i .. n - 1 : P[j] = P[i]

(* The first s of them are a stack, and k is the insertion slot for it.    *)
StackAt(T, P, O, c, n, s, k) ==
  /\ c \in Nat /\ n \in Nat /\ s \in Nat \ {0} /\ k \in Nat
  /\ c + s <= k /\ k <= n - 2
  /\ \A i, j \in c .. n - 1 : T[i] = T[j] => i = j
  /\ \A i \in c .. c + s - 1 : P[i] = P[c] /\ O[i] = O[c]
  /\ ~ (P[c + s] = P[c] /\ O[c + s] = O[c])
  /\ P[k + 1] = P[c]
  /\ \E gap \in c + 1 .. k : /\ \A i \in c .. gap - 1 : P[i] = P[c]
                             /\ \A i \in gap .. k : P[i] # P[c]

(* The sequences T2, P2 and O2 are those after the preemption.             *)
StackMoved(T, P, O, T2, P2, O2, c, n, s, k) ==
  /\ \A i \in c .. k - s : T2[i] = T[i + s] /\ P2[i] = P[i + s] /\ O2[i] = O[i + s]
  /\ \A i \in k - s + 1 .. k : P2[i] = P[c] /\ O2[i] = T[k + 1]
  /\ \A i \in k + 1 .. n - 1 : T2[i] = T[i] /\ P2[i] = P[i] /\ O2[i] = O[i]

(* The stack ends where its process ends, so it is moved past tasks of     *)
(* other processes only; behind the insertion slot the process has no      *)
(* guests.                                                                 *)
LEMMA StackPassesOthers ==
  ASSUME NEW T, NEW P, NEW O, NEW c, NEW n, NEW s, NEW k,
         Stacked(T, P, O, c, n), FirstStacked(T, P, O, c, n), Together(P, O, c, n),
         StackAt(T, P, O, c, n, s, k)
  PROVE  /\ \A i \in c + s .. k : P[i] # P[c]
         /\ \A j \in k + 1 .. n - 1 : P[j] = P[c] => O[j] = T[j]
<1>1. /\ c \in Nat /\ n \in Nat /\ s \in Nat \ {0} /\ k \in Nat
      /\ c + s <= k /\ k <= n - 2
  BY DEF StackAt
<1>2. PICK gap \in c + 1 .. k : /\ \A i \in c .. gap - 1 : P[i] = P[c]
                                /\ \A i \in gap .. k : P[i] # P[c]
  BY DEF StackAt
<1>3. P[k] # P[c]
  BY <1>1, <1>2
<1>4. P[c + s] # P[c]
  <2> SUFFICES ASSUME P[c + s] = P[c] PROVE FALSE
    OBVIOUS
  <2>1. c + s - 1 \in c .. n - 2 /\ c + s - 1 \in c .. c + s - 1 /\ c + s - 1 + 1 = c + s
    BY <1>1
  <2>2. P[c + s - 1] = P[c] /\ O[c + s - 1] = O[c] /\ O[c + s] # O[c]
    BY <2>1 DEF StackAt
  <2>3. \A j \in c + s - 1 .. n - 1 : P[j] = P[c + s - 1]
    BY <2>1, <2>2 DEF Together
  <2>4. k \in c + s - 1 .. n - 1
    BY <1>1
  <2> QED
    BY <1>3, <2>2, <2>3, <2>4
<1>5. gap <= c + s
  BY <1>1, <1>2, <1>4
<1>6. \A i \in c + s .. k : P[i] # P[c]
  BY <1>1, <1>2, <1>5
<1>7. ASSUME NEW j \in k + 1 .. n - 1, P[j] = P[c], O[j] # T[j]
      PROVE  FALSE
  <2>1. c \in c .. n - 1 /\ j \in c .. n - 1 /\ c < j
    BY <1>1
  <2>2. O[c] = O[j]
    BY <1>7, <2>1 DEF FirstStacked
  <2>3. PICK a \in c .. n - 1 : O[c] = T[a] /\ \A m \in c .. a : P[m] = P[c]
    BY <2>1 DEF Stacked
  <2>4. PICK b \in j .. n - 1 : O[j] = T[b]
    BY <2>1 DEF Stacked
  <2>5. b \in c .. n - 1
    BY <1>1
  <2>6. a = b
    BY <2>2, <2>3, <2>4, <2>5 DEF StackAt
  <2>7. k \in c .. a
    BY <1>1, <2>6
  <2> QED
    BY <1>3, <2>3, <2>7
<1> QED
  BY <1>6, <1>7

LEMMA MovedStacks ==
  ASSUME NEW T, NEW P, NEW O, NEW T2, NEW P2, NEW O2, NEW c, NEW n, NEW s, NEW k,
         Stacked(T, P, O, c, n), FirstStacked(T, P, O, c, n), Together(P, O, c, n),
         StackAt(T, P, O, c, n, s, k),
         StackMoved(T, P, O, T2, P2, O2, c, n, s, k)
  PROVE  /\ Stacked(T2, P2, O2, c, n)
         /\ FirstStacked(T2, P2, O2, c, n)
         /\ Together(P2, O2, c, n)
<1>1. /\ c \in Nat /\ n \in Nat /\ s \in Nat \ {0} /\ k \in Nat
      /\ c + s <= k /\ k <= n - 2
      /\ P[k + 1] = P[c]
  BY DEF StackAt
<1>2. /\ \A i \in c + s .. k : P[i] # P[c]
      /\ \A j \in k + 1 .. n - 1 : P[j] = P[c] => O[j] = T[j]
  BY StackPassesOthers
<1>3. /\ \A i \in c .. k - s : T2[i] = T[i + s] /\ P2[i] = P[i + s] /\ O2[i] = O[i + s]
      /\ \A i \in k - s + 1 .. k : P2[i] = P[c] /\ O2[i] = T[k + 1]
      /\ \A i \in k + 1 .. n - 1 : T2[i] = T[i] /\ P2[i] = P[i] /\ O2[i] = O[i]
  BY DEF StackMoved
<1>4. ASSUME NEW i \in c .. n - 1
      PROVE  \E j \in i .. n - 1 : /\ O2[i] = T2[j]
                                   /\ \A m \in i .. j : O2[m] = T2[j] /\ P2[m] = P2[i]
  <2>1. CASE i <= k - s
    <3>1. i + s \in c .. n - 1 /\ i + s \in c + s .. k
      BY <1>1, <2>1
    <3>2. PICK j \in i + s .. n - 1 :
            O[i + s] = T[j] /\ \A m \in i + s .. j : O[m] = T[j] /\ P[m] = P[i + s]
      BY <3>1 DEF Stacked
    <3>3. j <= k
      <4> SUFFICES ASSUME j > k PROVE FALSE
        BY <1>1
      <4>1. k + 1 \in i + s .. j
        BY <1>1, <3>1
      <4> QED
        BY <1>1, <1>2, <3>1, <3>2, <4>1
    <3>4. j - s \in i .. n - 1 /\ j - s \in c .. k - s /\ j - s + s = j
      BY <1>1, <3>1, <3>3
    <3>5. \A m \in i .. j - s : m \in c .. k - s /\ m + s \in i + s .. j
      BY <1>1, <3>1, <3>3
    <3>6. i \in c .. k - s
      BY <1>1, <2>1
    <3>7. O2[i] = T2[j - s]
      BY <1>3, <3>2, <3>4, <3>6
    <3>8. ASSUME NEW m \in i .. j - s PROVE O2[m] = T2[j - s] /\ P2[m] = P2[i]
      BY <1>3, <3>2, <3>4, <3>5, <3>6
    <3> QED
      BY <3>4, <3>7, <3>8
  <2>2. CASE i > k - s /\ i <= k
    <3>1. i \in k - s + 1 .. k /\ k + 1 \in i .. n - 1 /\ k + 1 \in k + 1 .. n - 1
      BY <1>1, <2>2
    <3>2. \A m \in i .. k + 1 : m \in k - s + 1 .. k \/ m = k + 1
      BY <1>1, <2>2
    <3>3. T2[k + 1] = T[k + 1] /\ P2[k + 1] = P[c] /\ O2[k + 1] = T[k + 1]
      BY <1>1, <1>2, <1>3, <3>1
    <3>4. \A m \in i .. k + 1 : O2[m] = T2[k + 1] /\ P2[m] = P[c]
      BY <1>3, <3>2, <3>3
    <3>5. P2[i] = P[c] /\ O2[i] = T2[k + 1]
      BY <1>3, <3>1, <3>3
    <3> QED
      BY <3>1, <3>4, <3>5
  <2>3. CASE i > k
    <3>1. PICK j \in i .. n - 1 : O[i] = T[j] /\ \A m \in i .. j : O[m] = T[j] /\ P[m] = P[i]
      BY DEF Stacked
    <3>2. \A m \in i .. j : m \in k + 1 .. n - 1
      BY <1>1, <2>3
    <3>3. i \in k + 1 .. n - 1 /\ j \in k + 1 .. n - 1
      BY <1>1, <2>3
    <3> QED
      BY <1>3, <3>1, <3>2, <3>3
  <2> QED
    BY <1>1, <2>1, <2>2, <2>3
<1>5. ASSUME NEW i \in c .. n - 1, NEW j \in c .. n - 1, i < j, P2[i] = P2[j], O2[j] # T2[j]
      PROVE  O2[i] = O2[j]
  <2>1. CASE j <= k - s
    <3>1. i \in c .. k - s /\ j \in c .. k - s /\ i + s \in c .. n - 1 /\ j + s \in c .. n - 1
          /\ i + s < j + s
      BY <1>1, <1>5, <2>1
    <3> QED
      BY <1>3, <1>5, <3>1 DEF FirstStacked
  <2>2. CASE j > k - s /\ j <= k
    <3>1. j \in k - s + 1 .. k
      BY <1>1, <2>2
    <3>2. P2[j] = P[c]
      BY <1>3, <3>1
    <3>3. i \in k - s + 1 .. k
      <4> SUFFICES ASSUME i <= k - s PROVE FALSE
        BY <1>1, <1>5, <2>2
      <4>1. i \in c .. k - s /\ i + s \in c + s .. k
        BY <1>1
      <4> QED
        BY <1>2, <1>3, <1>5, <3>2, <4>1
    <3> QED
      BY <1>3, <3>1, <3>3
  <2>3. CASE j > k
    <3>1. j \in k + 1 .. n - 1
      BY <1>1, <2>3
    <3>2. P2[j] = P[j] /\ O2[j] = O[j] /\ T2[j] = T[j]
      BY <1>3, <3>1
    <3>3. P[j] # P[c]
      BY <1>2, <1>5, <3>1, <3>2
    <3>4. CASE i \in c .. k - s
      <4>1. i + s \in c .. n - 1 /\ i + s < j
        BY <1>1, <2>3, <3>4
      <4> QED
        BY <1>3, <1>5, <3>2, <3>4, <4>1 DEF FirstStacked
    <3>5. CASE i \in k - s + 1 .. k
      BY <1>3, <1>5, <3>2, <3>3, <3>5
    <3>6. CASE i \in k + 1 .. n - 1
      BY <1>3, <1>5, <3>2, <3>6 DEF FirstStacked
    <3> QED
      BY <1>1, <3>4, <3>5, <3>6
  <2> QED
    BY <1>1, <2>1, <2>2, <2>3
<1>6. ASSUME NEW i \in c .. n - 2, P2[i] = P2[i + 1]
      PROVE  O2[i] = O2[i + 1] \/ \A j \in i .. n - 1 : P2[j] = P2[i]
  <2>1. CASE i + 1 <= k - s
    <3>1. /\ i \in c .. k - s /\ i + 1 \in c .. k - s
          /\ i + s \in c .. n - 2 /\ i + s \in c + s .. k
          /\ (i + 1) + s = (i + s) + 1
          /\ k + 1 \in i + s .. n - 1
      BY <1>1, <2>1
    <3>2. P[i + s] = P[(i + s) + 1] /\ P[i + s] # P[c]
      BY <1>2, <1>3, <1>6, <3>1
    <3>3. O[i + s] = O[(i + s) + 1]
      BY <1>1, <3>1, <3>2 DEF Together
    <3> QED
      BY <1>3, <3>1, <3>3
  <2>2. CASE i = k - s
    <3>1. i \in c .. k - s /\ i + 1 \in k - s + 1 .. k /\ i + s = k /\ k \in c + s .. k
      BY <1>1, <2>2
    <3> QED
      BY <1>2, <1>3, <1>6, <3>1
  <2>3. CASE i > k - s /\ i <= k
    <3>1. i \in k - s + 1 .. k /\ (i + 1 \in k - s + 1 .. k \/ i + 1 = k + 1)
          /\ k + 1 \in k + 1 .. n - 1
      BY <1>1, <2>3
    <3> QED
      BY <1>1, <1>2, <1>3, <3>1
  <2>4. CASE i > k
    <3>1. i \in k + 1 .. n - 1 /\ i + 1 \in k + 1 .. n - 1
          /\ \A j \in i .. n - 1 : j \in k + 1 .. n - 1
      BY <1>1, <2>4
    <3> QED
      BY <1>3, <1>6, <3>1 DEF Together
  <2> QED
    BY <1>1, <2>1, <2>2, <2>3, <2>4
<1> QED
  BY <1>4, <1>5, <1>6 DEF Stacked, FirstStacked, Together
-----------------------------------------------------------------------------
(* The slot owner of the entry at each place of the list.                  *)
OwnerAt == [i \in Indices |-> slot_owner[tasks[i]]]

(* The inductive invariant of a spread plan.                               *)
StackInv ==
  /\ Stacked(tasks, PidAt, OwnerAt, cur, NumTasks)
  /\ FirstStacked(tasks, PidAt, OwnerAt, cur, NumTasks)
  /\ Together(PidAt, OwnerAt, cur, NumTasks)
  /\ OrderIsKept

LEMMA NextStackInvParts ==
  StackInv' <=> /\ Stacked(tasks', PidAt', OwnerAt', cur', NumTasks)
                /\ FirstStacked(tasks', PidAt', OwnerAt', cur', NumTasks)
                /\ Together(PidAt', OwnerAt', cur', NumTasks)
                /\ OrderIsKept'
BY DEF StackInv, Stacked, FirstStacked, Together

(* What holds from index c on holds from any later index on.               *)
LEMMA StacksAhead ==
  ASSUME NEW T, NEW P, NEW O, NEW n \in Int, NEW c \in Int, NEW d \in Int, c <= d,
         Stacked(T, P, O, c, n), FirstStacked(T, P, O, c, n), Together(P, O, c, n)
  PROVE  Stacked(T, P, O, d, n) /\ FirstStacked(T, P, O, d, n) /\ Together(P, O, d, n)
<1>1. /\ \A i \in d .. n - 1 : i \in c .. n - 1
      /\ \A i \in d .. n - 2 : i \in c .. n - 2
  OBVIOUS
<1> QED
  BY <1>1 DEF Stacked, FirstStacked, Together

LEMMA StackInvStacks == IInv /\ StackInv => SlotStacks
<1> SUFFICES ASSUME IInv, StackInv PROVE SlotStacks
  OBVIOUS
<1>1. \A i \in cur .. NumTasks - 1 : i \in Indices
  BY EntriesFinite DEF IInv, TypeOK
<1>2. ASSUME NEW i \in cur .. NumTasks - 1
      PROVE  \E j \in i .. NumTasks - 1 :
               /\ slot_owner[tasks[i]] = tasks[j]
               /\ \A k \in i .. j : /\ slot_owner[tasks[k]] = tasks[j]
                                    /\ parsed.pid[tasks[k]] = parsed.pid[tasks[i]]
  <2>1. PICK j \in i .. NumTasks - 1 :
          OwnerAt[i] = tasks[j] /\ \A m \in i .. j : OwnerAt[m] = tasks[j] /\ PidAt[m] = PidAt[i]
    BY DEF StackInv, Stacked
  <2>2. cur \in Int /\ NumTasks \in Int
    BY EntriesFinite DEF IInv, TypeOK
  <2>3. \A m \in i .. j : m \in cur .. NumTasks - 1
    BY <2>2
  <2> QED
    BY <1>1, <2>1, <2>3 DEF OwnerAt, PidAt
<1> QED
  BY <1>2 DEF SlotStacks

LEMMA InitStackInv == PlanIsLoaded /\ IsSpread(parsed.pid) => StackInv
<1> SUFFICES ASSUME PlanIsLoaded, IsSpread(parsed.pid) PROVE StackInv
  OBVIOUS
<1>1. /\ tasks = [i \in Indices |-> i]
      /\ slot_owner = [e \in Indices |-> e]
      /\ cur = 0
  BY DEF PlanIsLoaded, parse_plan
<1>2. NumTasks \in Nat /\ Indices = 0 .. NumTasks
  BY EntriesFinite
<1>3. \A i \in 0 .. NumTasks - 1 : tasks[i] = i /\ OwnerAt[i] = i /\ PidAt[i] = parsed.pid[i]
  BY <1>1, <1>2 DEF OwnerAt, PidAt
<1>4. Stacked(tasks, PidAt, OwnerAt, cur, NumTasks)
  <2> SUFFICES ASSUME NEW i \in 0 .. NumTasks - 1
               PROVE  \E j \in i .. NumTasks - 1 :
                        /\ OwnerAt[i] = tasks[j]
                        /\ \A m \in i .. j : OwnerAt[m] = tasks[j] /\ PidAt[m] = PidAt[i]
    BY <1>1 DEF Stacked
  <2>1. i \in i .. NumTasks - 1 /\ \A m \in i .. i : m = i
    BY <1>2
  <2> QED
    BY <1>3, <2>1
<1>5. FirstStacked(tasks, PidAt, OwnerAt, cur, NumTasks)
  BY <1>1, <1>3 DEF FirstStacked
<1>6. Together(PidAt, OwnerAt, cur, NumTasks)
  <2>1. \A i \in 0 .. NumTasks - 2 : /\ i \in 0 .. NumTasks - 1 /\ i + 1 \in 0 .. NumTasks - 1
                                     /\ \A j \in i .. NumTasks - 1 : j \in 0 .. NumTasks - 1
    BY <1>2
  <2> QED
    BY <1>1, <1>3, <2>1 DEF Together, IsSpread
<1>7. OrderIsKept
  BY <1>1, <1>2, <1>3 DEF OrderIsKept
<1> QED
  BY <1>4, <1>5, <1>6, <1>7 DEF StackInv

(* A preemption in terms of the three sequences.                           *)
LEMMA PreemptedStack ==
  ASSUME IInv, StackInv, TickPreemptsTask, NEW s \in Indices, NEW k \in Indices, Preempts(s, k)
  PROVE  /\ StackAt(tasks, PidAt, OwnerAt, cur, NumTasks, s, k)
         /\ StackMoved(tasks, PidAt, OwnerAt, tasks', PidAt', OwnerAt', cur, NumTasks, s, k)
         /\ \A i \in k - s + 1 .. k : tasks'[i] = tasks[cur + (i - (k - s + 1))]
         /\ \A i \in 0 .. cur - 1 : tasks'[i] = tasks[i]
<1>1. /\ cur \in 0 .. NumTasks - 1
      /\ parsed' = parsed
      /\ tasks' \in [Indices -> Indices]
  BY PreemptMoves
<1>2. /\ NumTasks \in Nat
      /\ Indices = 0 .. NumTasks
      /\ tasks \in [Indices -> Indices]
  BY EntriesFinite DEF IInv, TypeOK
<1>3. /\ s \in Nat \ {0} /\ k \in Nat /\ cur \in Nat
      /\ cur + s <= k /\ k <= NumTasks - 2
  BY DEF Preempts, Fits
<1>4. \A i, j \in Indices : tasks[i] = tasks[j] => i = j
  BY DEF IInv, PlanIsPermutation
<1>5. \A i \in cur .. NumTasks : i \in Indices
  BY <1>2, <1>3
<1>6. \A i \in Indices : PidAt[i] = parsed.pid[tasks[i]] /\ OwnerAt[i] = slot_owner[tasks[i]]
  BY DEF PidAt, OwnerAt
<1>7. /\ parsed.pid[tasks[k + 1]] = parsed.pid[tasks[cur]]
      /\ \E gap \in cur + 1 .. k :
           /\ \A i \in cur .. gap - 1 : parsed.pid[tasks[i]] = parsed.pid[tasks[cur]]
           /\ \A i \in gap .. k : parsed.pid[tasks[i]] # parsed.pid[tasks[cur]]
  BY DEF Preempts, IsInsertionSlot
<1>8. /\ \A i \in cur .. cur + s - 1 : /\ parsed.pid[tasks[i]] = parsed.pid[tasks[cur]]
                                       /\ slot_owner[tasks[i]] = slot_owner[tasks[cur]]
      /\ ~ (/\ parsed.pid[tasks[cur + s]] = parsed.pid[tasks[cur]]
            /\ slot_owner[tasks[cur + s]] = slot_owner[tasks[cur]])
  BY DEF Preempts, IsStackSize
<1>9. StackAt(tasks, PidAt, OwnerAt, cur, NumTasks, s, k)
  <2>1. \A i, j \in cur .. NumTasks - 1 : tasks[i] = tasks[j] => i = j
    <3>1. \A i \in cur .. NumTasks - 1 : i \in Indices
      BY <1>2, <1>3
    <3> QED
      BY <1>4, <3>1
  <2>2. cur \in Indices /\ k + 1 \in Indices /\ cur + s \in Indices
    BY <1>2, <1>3
  <2>3. \A i \in cur .. cur + s - 1 : i \in Indices
    BY <1>2, <1>3
  <2>4. \A i \in cur .. cur + s - 1 : PidAt[i] = PidAt[cur] /\ OwnerAt[i] = OwnerAt[cur]
    BY <1>6, <1>8, <2>2, <2>3
  <2>5. ~ (PidAt[cur + s] = PidAt[cur] /\ OwnerAt[cur + s] = OwnerAt[cur])
    BY <1>6, <1>8, <2>2
  <2>6. PidAt[k + 1] = PidAt[cur]
    BY <1>6, <1>7, <2>2
  <2>7. \E gap \in cur + 1 .. k : /\ \A i \in cur .. gap - 1 : PidAt[i] = PidAt[cur]
                                  /\ \A i \in gap .. k : PidAt[i] # PidAt[cur]
    <3>1. PICK gap \in cur + 1 .. k :
            /\ \A i \in cur .. gap - 1 : parsed.pid[tasks[i]] = parsed.pid[tasks[cur]]
            /\ \A i \in gap .. k : parsed.pid[tasks[i]] # parsed.pid[tasks[cur]]
      BY <1>7
    <3>2. ASSUME NEW i \in cur .. k PROVE i \in Indices
      BY <1>2, <1>3
    <3>3. cur \in Int /\ k \in Int /\ gap \in Int /\ cur + 1 <= gap /\ gap <= k
      BY <1>3
    <3>4. (cur .. gap - 1) \subseteq (cur .. k) /\ (gap .. k) \subseteq (cur .. k)
      BY <3>3
    <3> QED
      BY <1>6, <2>2, <3>1, <3>2, <3>4
  <2> QED
    BY <1>2, <1>3, <2>1, <2>4, <2>5, <2>6, <2>7 DEF StackAt
<1>10. /\ \A i \in Indices : tasks'[i] = tasks[Source(i, s, k)]
       /\ \A e \in Indices :
            slot_owner'[e] = IF \E j \in cur .. cur + s - 1 : tasks[j] = e THEN tasks[k + 1]
                             ELSE slot_owner[e]
  BY DEF Preempts
<1>11. \A j \in Indices : slot_owner'[tasks[j]] = IF j \in cur .. cur + s - 1 THEN tasks[k + 1]
                                                  ELSE slot_owner[tasks[j]]
  <2> SUFFICES ASSUME NEW j \in Indices
               PROVE  slot_owner'[tasks[j]] = IF j \in cur .. cur + s - 1 THEN tasks[k + 1]
                                              ELSE slot_owner[tasks[j]]
    OBVIOUS
  <2>1. tasks[j] \in Indices
    BY <1>2
  <2>2. \A i \in cur .. cur + s - 1 : i \in Indices
    BY <1>2, <1>3
  <2>3. (\E i \in cur .. cur + s - 1 : tasks[i] = tasks[j]) <=> j \in cur .. cur + s - 1
    BY <1>4, <2>2
  <2> QED
    BY <1>10, <2>1, <2>3
<1>12. ASSUME NEW i \in Indices, NEW j \in Indices, tasks'[i] = tasks[j]
       PROVE  /\ PidAt'[i] = PidAt[j]
              /\ OwnerAt'[i] = IF j \in cur .. cur + s - 1 THEN tasks[k + 1] ELSE OwnerAt[j]
  BY <1>1, <1>6, <1>11, <1>12 DEF PidAt, OwnerAt
<1>13. ASSUME NEW i \in cur .. k - s
       PROVE  tasks'[i] = tasks[i + s] /\ PidAt'[i] = PidAt[i + s] /\ OwnerAt'[i] = OwnerAt[i + s]
  <2>1. i \in Indices /\ i + s \in Indices /\ i + s \notin cur .. cur + s - 1
    BY <1>2, <1>3
  <2>2. Source(i, s, k) = i + s
    BY <1>3 DEF Source
  <2> QED
    BY <1>10, <1>12, <2>1, <2>2
<1>14. ASSUME NEW i \in k - s + 1 .. k
       PROVE  /\ tasks'[i] = tasks[cur + (i - (k - s + 1))]
              /\ PidAt'[i] = PidAt[cur] /\ OwnerAt'[i] = tasks[k + 1]
  <2> DEFINE j == cur + (i - (k - s + 1))
  <2>1. i \in Indices /\ j \in Indices /\ j \in cur .. cur + s - 1
    BY <1>2, <1>3
  <2>2. Source(i, s, k) = j
    BY DEF Source
  <2> HIDE DEF j
  <2>3. PidAt[j] = PidAt[cur]
    BY <1>9, <2>1 DEF StackAt
  <2> QED
    BY <1>10, <1>12, <2>1, <2>2, <2>3 DEF j
<1>15. ASSUME NEW i \in Indices, i < cur \/ i > k
       PROVE  tasks'[i] = tasks[i] /\ PidAt'[i] = PidAt[i] /\ OwnerAt'[i] = OwnerAt[i]
  <2>1. i \notin cur .. cur + s - 1 /\ Source(i, s, k) = i
    <3>1. i \in Nat
      BY <1>2
    <3> QED
      BY <1>3, <1>15, <3>1 DEF Source
  <2> QED
    BY <1>10, <1>12, <2>1
<1>16. /\ \A i \in 0 .. cur - 1 : i \in Indices /\ i < cur
       /\ \A i \in k + 1 .. NumTasks - 1 : i \in Indices /\ i > k
  <2>1. NumTasks \in Nat /\ Indices = 0 .. NumTasks
    BY EntriesFinite
  <2> QED
    BY <1>3, <2>1
<1> QED
  BY <1>9, <1>13, <1>14, <1>15, <1>16 DEF StackMoved

LEMMA PreemptKeepsStacks ==
  ASSUME IInv, StackInv, TickPreemptsTask
  PROVE  StackInv'
<1>1. PICK s \in Indices, k \in Indices : Preempts(s, k)
  BY PreemptMoves
<1>2. /\ StackAt(tasks, PidAt, OwnerAt, cur, NumTasks, s, k)
      /\ StackMoved(tasks, PidAt, OwnerAt, tasks', PidAt', OwnerAt', cur, NumTasks, s, k)
      /\ \A i \in k - s + 1 .. k : tasks'[i] = tasks[cur + (i - (k - s + 1))]
      /\ \A i \in 0 .. cur - 1 : tasks'[i] = tasks[i]
  BY <1>1, PreemptedStack
<1>3. /\ cur \in 0 .. NumTasks - 1
      /\ cur' = cur \/ cur' = cur + 1
      /\ parsed' = parsed
  BY PreemptMoves
<1>4. NumTasks \in Nat /\ Indices = 0 .. NumTasks
  BY EntriesFinite
<1>5. /\ Stacked(tasks', PidAt', OwnerAt', cur, NumTasks)
      /\ FirstStacked(tasks', PidAt', OwnerAt', cur, NumTasks)
      /\ Together(PidAt', OwnerAt', cur, NumTasks)
  BY <1>2, MovedStacks DEF StackInv
<1>6. /\ Stacked(tasks', PidAt', OwnerAt', cur', NumTasks)
      /\ FirstStacked(tasks', PidAt', OwnerAt', cur', NumTasks)
      /\ Together(PidAt', OwnerAt', cur', NumTasks)
  <2>1. cur \in Int /\ cur' \in Int /\ cur <= cur' /\ NumTasks \in Int
    BY <1>3, <1>4
  <2> QED
    BY <1>5, <2>1, StacksAhead
<1>7. OrderIsKept'
  <2>1. \A i \in cur + s .. k : PidAt[i] # PidAt[cur]
    BY <1>2, StackPassesOthers DEF StackInv
  <2>2. /\ s \in Nat \ {0} /\ k \in Nat /\ cur \in Nat
        /\ cur + s <= k /\ k <= NumTasks - 2
        /\ \A i \in Indices : tasks'[i] = tasks[Source(i, s, k)]
    BY <1>1 DEF Preempts, Fits
  <2>3. \A i \in Indices : PidAt[i] = parsed.pid[tasks[i]]
    BY DEF PidAt
  <2> SUFFICES ASSUME NEW i \in 0 .. NumTasks - 1, NEW j \in 0 .. NumTasks - 1, i < j,
                      IsTask(tasks'[i]), parsed.pid[tasks'[i]] = parsed.pid[tasks'[j]]
               PROVE  tasks'[i] < tasks'[j]
    BY <1>3 DEF OrderIsKept, IsTask
  <2> DEFINE a == Source(i, s, k)
             b == Source(j, s, k)
  <2>4. i \in Indices /\ j \in Indices
    BY <1>4
  <2>5. tasks'[i] = tasks[a] /\ tasks'[j] = tasks[b]
    BY <2>2, <2>4
  <2>6. /\ a \in 0 .. NumTasks - 1 /\ b \in 0 .. NumTasks - 1
        /\ a < b \/ (a \in cur + s .. k /\ b \in cur .. cur + s - 1)
    <3>1. i \in Nat /\ j \in Nat /\ NumTasks \in Nat
      BY <1>4
    <3>2. /\ s \in Nat /\ s > 0 /\ k \in Nat /\ cur \in Nat
          /\ cur + s <= k /\ k <= NumTasks - 2
      BY <2>2
    <3> QED
      BY <3>1, <3>2 DEF Source
  <2> HIDE DEF a, b
  <2>7. CASE a < b
    BY <2>5, <2>6, <2>7 DEF StackInv, OrderIsKept
  <2>8. CASE a \in cur + s .. k /\ b \in cur .. cur + s - 1
    <3>1. PidAt[b] = PidAt[cur]
      BY <1>2, <2>8 DEF StackAt
    <3>2. a \in Indices /\ b \in Indices
      BY <1>4, <2>6
    <3>3. PidAt[a] = PidAt[b]
      BY <2>3, <2>5, <3>2
    <3> QED
      BY <2>1, <2>8, <3>1, <3>3
  <2> QED
    BY <2>6, <2>7, <2>8
<1> QED
  BY <1>6, <1>7, NextStackInvParts

LEMMA NextStackInv == IInv /\ StackInv /\ [Next]_vars => StackInv'
<1> SUFFICES ASSUME IInv, StackInv, [Next]_vars PROVE StackInv'
  OBVIOUS
<1>1. ASSUME UNCHANGED <<parsed, tasks, slot_owner>>, cur \in Int, cur' \in Int, cur <= cur'
      PROVE  StackInv'
  <2>1. PidAt' = PidAt /\ OwnerAt' = OwnerAt
    BY <1>1 DEF PidAt, OwnerAt
  <2>2. OrderIsKept'
    BY <1>1 DEF StackInv, OrderIsKept, IsTask
  <2>3. /\ Stacked(tasks, PidAt, OwnerAt, cur', NumTasks)
        /\ FirstStacked(tasks, PidAt, OwnerAt, cur', NumTasks)
        /\ Together(PidAt, OwnerAt, cur', NumTasks)
    <3>1. NumTasks \in Int
      BY EntriesFinite
    <3> QED
      BY <1>1, <3>1, StacksAhead DEF StackInv
  <2> QED
    BY <1>1, <2>1, <2>2, <2>3, NextStackInvParts
<1>2. cur \in Int
  BY EntriesFinite DEF IInv, TypeOK
<1>3. CASE UNCHANGED vars
  BY <1>1, <1>2, <1>3 DEF vars, taskVars
<1>4. CASE TickFinishesTask
  BY <1>1, <1>2, <1>4, FinishMoves
<1>5. CASE TickPreemptsTask
  BY <1>5, PreemptKeepsStacks
<1>6. CASE TickRunsTask \/ TickFindsNoSlot
  BY <1>1, <1>2, <1>6, TickStays
<1> QED
  BY <1>3, <1>4, <1>5, <1>6 DEF Next, pbs_run_timer_tick, TickAfterEnd

LEMMA SpecStackInv == Spec /\ IsSpread(parsed.pid) => []StackInv
BY InitLoads, InitStackInv, SpecIInv, NextStackInv, PTL DEF Spec

(* order_is_kept for every spread plan: no preemption reorders the tasks   *)
(* of a process.                                                           *)
THEOREM OrderCorrect == Spec /\ IsSpread(parsed.pid) => []OrderIsKept
<1>1. StackInv => OrderIsKept
  BY DEF StackInv
<1> QED
  BY <1>1, SpecStackInv, PTL

(* For every spread plan get_stack_size_preempted_tasks finds all tasks    *)
(* that wait with the current one, and the owner of their slot.            *)
THEOREM StacksCorrect == Spec /\ IsSpread(parsed.pid) => []SlotStacks
BY StackInvStacks, SpecStackInv, SpecIInv, PTL

-----------------------------------------------------------------------------
(* How far a slot may overrun.                                             *)

(* The tasks that finished in the slot of e without being its owner.       *)
Guests(e) == {b \in Entries \ {e} : slot_owner[b] = e /\ state[b] = PLAN_TASK_FINISHED}

(* Only the slots of process 0 can have been shrunk, by a signal.          *)
Unshrunk(e) == prediction_failures_caused = 0 \/ parsed.pid[e] # 0

(* A slot that can still be booked on has no tick more over t1 than it has *)
(* guests; any other one may have one more, the last that was booked.      *)
SlotIsBounded(e) ==
  /\ retired_slot[e] < calculate_t1(planned[e]) + INS_PER_TICK * (1 + Cardinality(Guests(e)))
  /\ slot_owner[e] = e /\ e \in Rest
       => retired_slot[e] < calculate_t1(planned[e]) + INS_PER_TICK * Cardinality(Guests(e))

OverrunInv == plan_state = ON_PLAN => \A e \in Entries : Unshrunk(e) => SlotIsBounded(e)

LEMMA OverrunInvBounds == OverrunInv => SlotOverrunBounded
BY DEF OverrunInv, Unshrunk, SlotIsBounded, Guests, SlotOverrunBounded

LEMMA NextSlotIsBounded ==
  \A e \in Entries :
    SlotIsBounded(e)' <=>
      /\ retired_slot'[e] < calculate_t1(planned'[e])
                            + INS_PER_TICK * (1 + Cardinality(Guests(e)'))
      /\ slot_owner'[e] = e /\ e \in Rest'
           => retired_slot'[e] < calculate_t1(planned'[e])
                                 + INS_PER_TICK * Cardinality(Guests(e)')
BY DEF SlotIsBounded, Guests, Rest, calculate_t1

LEMMA GuestsFinite ==
  \A e \in Entries : /\ IsFiniteSet(Guests(e)) /\ Cardinality(Guests(e)) \in Nat
                     /\ IsFiniteSet(Guests(e)') /\ Cardinality(Guests(e)') \in Nat
<1> SUFFICES ASSUME NEW e \in Entries
             PROVE  /\ IsFiniteSet(Guests(e)) /\ Cardinality(Guests(e)) \in Nat
                    /\ IsFiniteSet(Guests(e)') /\ Cardinality(Guests(e)') \in Nat
  OBVIOUS
<1>1. Guests(e) \in SUBSET Entries /\ Guests(e)' \in SUBSET Entries
  BY DEF Guests
<1>2. IsFiniteSet(Guests(e)) /\ IsFiniteSet(Guests(e)')
  BY <1>1, EntriesFinite, FS_Subset
<1> QED
  BY <1>2, FS_CardinalityType

(* The slot a task runs in belongs to a task that owns its own slot and    *)
(* waits in the same stack.                                                *)
LEMMA OwnerOwns ==
  ASSUME IInv, StackInv, cur \in 0 .. NumTasks - 1
  PROVE  \E j \in cur .. NumTasks - 1 :
           /\ slot_owner[cur_task] = tasks[j]
           /\ slot_owner[tasks[j]] = tasks[j]
           /\ tasks[j] \in Entries /\ tasks[j] \in Rest
           /\ \A m \in cur .. j : OwnerAt[m] = OwnerAt[cur] /\ PidAt[m] = PidAt[cur]
<1>1. NumTasks \in Nat /\ Indices = 0 .. NumTasks
  BY EntriesFinite
<1>2. cur \in cur .. NumTasks - 1 /\ cur \in Indices
  BY <1>1
<1>3. PICK j \in cur .. NumTasks - 1 :
        OwnerAt[cur] = tasks[j] /\ \A m \in cur .. j : OwnerAt[m] = tasks[j] /\ PidAt[m] = PidAt[cur]
  BY <1>2 DEF StackInv, Stacked
<1>4. j \in Indices /\ j \in cur .. j /\ j \in 0 .. NumTasks - 1 /\ j >= cur
  BY <1>1
<1>5. OwnerAt[cur] = slot_owner[cur_task] /\ OwnerAt[j] = slot_owner[tasks[j]]
  BY <1>2, <1>4 DEF OwnerAt, cur_task
<1>6. tasks[j] \in Entries /\ tasks[j] \in Rest
  BY <1>4, DoneAndRest DEF ListIsSplit
<1> QED
  BY <1>3, <1>4, <1>5, <1>6

(* Finished tasks stay finished guests of the slot they ran in.            *)
LEMMA GuestsStay ==
  ASSUME IInv, IInv', FinishedInv, plan_state = ON_PLAN, [Next]_vars
  PROVE  /\ \A e \in Entries : Guests(e) \subseteq Guests(e)'
         /\ \A e \in Entries : e \in Rest' => e \in Rest
<1>1. /\ NumTasks \in Nat
      /\ Indices = 0 .. NumTasks
      /\ cur \in 0 .. NumTasks
      /\ state \in [Indices -> {PLAN_TASK_WAITING, PLAN_TASK_RUNNING, PLAN_TASK_FINISHED}]
  BY EntriesFinite DEF IInv, TypeOK
<1>2. ListIsSplit /\ ListIsSplit'
  BY DoneAndRest, NextDoneAndRest
<1>3. ASSUME NEW i \in 0 .. cur - 1
      PROVE  /\ tasks'[i] = tasks[i]
             /\ slot_owner'[tasks[i]] = slot_owner[tasks[i]]
  BY <1>3, StepKeepsHistory
<1>4. \A i, j \in Indices : tasks'[i] = tasks'[j] => i = j
  BY DEF IInv, PlanIsPermutation
<1>5. cur' \in Nat /\ cur <= cur'
  <2>1. CASE UNCHANGED vars
    BY <1>1, <2>1 DEF vars
  <2>2. CASE TickFinishesTask
    BY <1>1, <2>2, FinishMoves
  <2>3. CASE TickPreemptsTask
    <3>1. cur' = IF IsFreeSlot(tasks'[cur]) THEN cur + 1 ELSE cur
      BY <2>3, PreemptMoves
    <3>2. cur \in Nat
      BY <1>1
    <3> QED
      BY <3>1, <3>2
  <2>4. CASE TickRunsTask \/ TickFindsNoSlot
    BY <1>1, <2>4, TickStays
  <2> QED
    BY <2>1, <2>2, <2>3, <2>4 DEF Next, pbs_run_timer_tick, TickAfterEnd
<1>6. ASSUME NEW e \in Entries, e \in Rest', e \notin Rest
      PROVE  FALSE
  <2>1. e \in Done
    BY <1>2, <1>6 DEF ListIsSplit
  <2>2. PICK i \in 0 .. cur - 1 : tasks[i] = e
    BY <2>1 DEF Done
  <2>3. i \in 0 .. NumTasks - 1 /\ ~ (i >= cur')
    <3>1. NumTasks \in Nat /\ cur \in 0 .. NumTasks
      BY <1>1
    <3> QED
      BY <1>5, <3>1
  <2>4. tasks'[i] = e
    BY <1>3, <2>2
  <2> QED
    BY <1>2, <1>6, <2>3, <2>4 DEF ListIsSplit
<1>7. ASSUME NEW i \in 0 .. cur - 1, state[tasks[i]] = PLAN_TASK_FINISHED
      PROVE  state'[tasks[i]] = PLAN_TASK_FINISHED
  <2>1. i \in Indices /\ tasks[i] \in Indices /\ i < cur /\ i \in Nat
    <3>1. i \in Indices /\ i < cur /\ i \in Nat
      BY <1>1
    <3> QED
      BY <3>1 DEF IInv, TypeOK
  <2>2. ASSUME NEW m \in Indices, m >= cur
        PROVE  tasks'[m] # tasks[i]
    <3>1. m # i
      BY <1>1, <2>1, <2>2
    <3> QED
      BY <1>3, <1>4, <2>1, <2>2, <3>1
  <2>3. CASE UNCHANGED vars
    BY <1>7, <2>3 DEF vars, taskVars
  <2>4. CASE TickFinishesTask
    <3>1. /\ cur \in Indices /\ cur + 1 \in Indices /\ cur' \in Indices
          /\ cur >= cur /\ cur + 1 >= cur /\ cur' >= cur
          /\ tasks' = tasks
          /\ state' = [state EXCEPT ![cur_task] = PLAN_TASK_FINISHED,
                                    ![tasks[cur + 1]] = PLAN_TASK_RUNNING,
                                    ![tasks[cur']] = PLAN_TASK_RUNNING]
      BY <1>1, <1>5, <2>4, FinishMoves
    <3>2. tasks[cur] # tasks[i] /\ tasks[cur + 1] # tasks[i] /\ tasks[cur'] # tasks[i]
      BY <2>2, <3>1
    <3> QED
      BY <1>1, <1>7, <2>1, <3>1, <3>2
  <2>5. CASE TickPreemptsTask
    <3>1. /\ cur \in Indices /\ cur' \in Indices
          /\ cur >= cur /\ cur' >= cur
          /\ state' = [state EXCEPT ![tasks'[cur]] = PLAN_TASK_RUNNING,
                                    ![tasks'[cur']] = PLAN_TASK_RUNNING]
      BY <1>1, <1>5, <2>5, PreemptMoves
    <3>2. tasks'[cur] # tasks[i] /\ tasks'[cur'] # tasks[i]
      BY <2>2, <3>1
    <3> QED
      BY <1>1, <1>7, <2>1, <3>1, <3>2
  <2>6. CASE TickRunsTask
    BY <1>7, <2>6 DEF TickRunsTask
  <2>7. CASE TickFindsNoSlot
    BY <1>1, <1>7, <2>1, <2>7 DEF TickFindsNoSlot
  <2> QED
    BY <2>3, <2>4, <2>5, <2>6, <2>7 DEF Next, pbs_run_timer_tick, TickAfterEnd
<1>8. ASSUME NEW e \in Entries, NEW b \in Guests(e)
      PROVE  b \in Guests(e)'
  <2>1. b \in Entries \ {e} /\ slot_owner[b] = e /\ state[b] = PLAN_TASK_FINISHED
    BY DEF Guests
  <2>2. PICK i \in 0 .. NumTasks - 1 : tasks[i] = b
    BY <1>2, <2>1 DEF ListIsSplit
  <2>3. i \notin cur .. NumTasks - 1
    <3>1. plan_state # PLAN_FINISHED
      BY DEF ON_PLAN, PLAN_FINISHED
    <3> QED
      BY <2>1, <2>2, <3>1, FinishedInvParts
  <2>4. i \in 0 .. cur - 1
    BY <1>1, <2>3
  <2>5. slot_owner'[b] = e /\ state'[b] = PLAN_TASK_FINISHED
    BY <1>3, <1>7, <2>1, <2>2, <2>4
  <2> QED
    BY <2>1, <2>5 DEF Guests
<1> QED
  BY <1>6, <1>8

LEMMA GuestsGrow ==
  ASSUME NEW e \in Entries, Guests(e) \subseteq Guests(e)'
  PROVE  /\ Cardinality(Guests(e)) <= Cardinality(Guests(e)')
         /\ \A b \in Guests(e)' \ Guests(e) :
              Cardinality(Guests(e)) + 1 <= Cardinality(Guests(e)')
<1>1. /\ IsFiniteSet(Guests(e)) /\ Cardinality(Guests(e)) \in Nat
      /\ IsFiniteSet(Guests(e)') /\ Cardinality(Guests(e)') \in Nat
  BY GuestsFinite
<1>2. Cardinality(Guests(e)) <= Cardinality(Guests(e)')
  BY <1>1, FS_Subset
<1>3. ASSUME NEW b \in Guests(e)' \ Guests(e)
      PROVE  Cardinality(Guests(e)) + 1 <= Cardinality(Guests(e)')
  <2> DEFINE G == Guests(e) \cup {b}
             N == Guests(e)'
  <2>1. IsFiniteSet(G) /\ Cardinality(G) = Cardinality(Guests(e)) + 1
    BY <1>1, <1>3, FS_AddElement
  <2>2. G \in SUBSET N /\ IsFiniteSet(N)
    BY <1>1
  <2> HIDE DEF G, N
  <2>3. Cardinality(G) <= Cardinality(N)
    BY <2>2, FS_Subset
  <2> QED
    BY <2>1, <2>3 DEF N
<1> QED
  BY <1>2, <1>3

(* The room that guests make in a slot.                                    *)
LEMMA Room ==
  ASSUME NEW x \in Nat, NEW y \in Nat, x <= y
  PROVE  /\ INS_PER_TICK * x \in Nat
         /\ INS_PER_TICK * x <= INS_PER_TICK * y
         /\ INS_PER_TICK * (1 + x) = INS_PER_TICK * x + INS_PER_TICK
         /\ INS_PER_TICK * (x + 1) = INS_PER_TICK * x + INS_PER_TICK
<1>1. INS_PER_TICK \in Nat
  BY ConfigAssumption
<1>2. PICK d \in Nat : y = x + d
  <2>1. y - x \in Nat /\ y = x + (y - x)
    OBVIOUS
  <2> QED
    BY <2>1
<1>3. INS_PER_TICK * d \in Nat /\ INS_PER_TICK * x \in Nat
  BY <1>1
<1>4. INS_PER_TICK * (x + d) = INS_PER_TICK * x + INS_PER_TICK * d
  BY <1>1
<1>5. INS_PER_TICK * (1 + x) = INS_PER_TICK * x + INS_PER_TICK
  BY <1>1
<1> QED
  BY <1>1, <1>2, <1>3, <1>4, <1>5

LEMMA T1Type == IInv => \A e \in Entries : calculate_t1(planned[e]) \in Nat \ {0}
<1> SUFFICES ASSUME IInv, NEW e \in Entries PROVE calculate_t1(planned[e]) \in Nat \ {0}
  OBVIOUS
<1>1. planned[e] \in Nat
  BY EntriesFinite DEF IInv, TypeOK
<1>2. calculate_t1(planned[e]) = planned[e] + T1_NO_PREEMPTION
  BY <1>1, T1IsPlannedAndSpacer
<1> QED
  BY <1>1, <1>2, ScaleIsPositive

LEMMA InitSlots == Init => \A e \in Entries : SlotIsBounded(e)
<1> SUFFICES ASSUME Init, NEW e \in Entries PROVE SlotIsBounded(e)
  OBVIOUS
<1> DEFINE g == Cardinality(Guests(e))
           t1 == calculate_t1(planned[e])
<1>1. retired_slot[e] = 0
  BY EntriesFinite DEF Init, parse_plan
<1>2. g \in Nat
  BY GuestsFinite
<1>3. t1 \in Nat \ {0}
  BY InitLoads, InitIInv, T1Type
<1> HIDE DEF g, t1
<1>4. INS_PER_TICK * g \in Nat /\ INS_PER_TICK * (1 + g) \in Nat
  BY <1>2, ConfigAssumption
<1>5. 0 < t1 + INS_PER_TICK * (1 + g) /\ 0 < t1 + INS_PER_TICK * g
  BY <1>3, <1>4
<1> QED
  BY <1>1, <1>5 DEF g, t1, SlotIsBounded

(* While the plan is not declared finished, a tick books on a slot and     *)
(* compares it with the t1 of the length it leaves.                        *)
LEMMA TickOnPlan ==
  ASSUME plan_state' = ON_PLAN, pbs_run_timer_tick
  PROVE  /\ plan_state = ON_PLAN
         /\ ~ TickFindsNoSlot
         /\ cur_task # END
         /\ retired_slot' = SlotRetired(INS_PER_TICK)
         /\ TickRunsTask => planned' = PlannedAfterT2
<1>1. ON_PLAN # PLAN_FINISHED
  BY DEF ON_PLAN, PLAN_FINISHED
<1>2. CASE TickFinishesTask
  <2>1. ~ TickFindsNoSlot /\ ~ TickRunsTask
    BY <1>2 DEF TickFinishesTask, TickFindsNoSlot, TickRunsTask, TimerTick
  <2> QED
    BY <1>2, <2>1 DEF TickFinishesTask
<1>3. CASE TickRunsTask \/ TickPreemptsTask \/ TickFindsNoSlot
  <2>1. ~ TickFindsNoSlot
    BY <1>1 DEF TickFindsNoSlot
  <2> QED
    BY <1>3, <2>1 DEF TickRunsTask, TickPreemptsTask, TimerTick, Retire
<1> QED
  BY <1>2, <1>3 DEF pbs_run_timer_tick

(* A slot that was not shrunk before the tick and is not in it.            *)
LEMMA UnshrunkBefore ==
  ASSUME IInv, SignalTypeOK, pbs_run_timer_tick, NEW e \in Entries, Unshrunk(e)'
  PROVE  Unshrunk(e) /\ planned[e] <= planned'[e]
<1>1. parsed' = parsed
  BY TickBooks
<1>2. planned[e] \in Nat /\ \A n \in Nat : n <= n
  BY EntriesFinite DEF IInv, TypeOK
<1>3. CASE planned' = planned /\ UNCHANGED signalVars
  BY <1>1, <1>2, <1>3 DEF Unshrunk, signalVars
<1>4. ASSUME prediction_failures_caused' = prediction_failures_caused + 1,
             NEW factor \in {STRETCH_CONSTANT, SHRINK_CONSTANT}, NEW target,
             target = 0 \/ factor # SHRINK_CONSTANT,
             planned' = reschedule(factor, target)
      PROVE  Unshrunk(e) /\ planned[e] <= planned'[e]
  <2>1. prediction_failures_caused' # 0
    BY <1>4 DEF SignalTypeOK
  <2>2. parsed.pid[e] # 0
    BY <1>1, <2>1 DEF Unshrunk
  <2> QED
    BY <1>4, <2>2, StretchedOrKept DEF Unshrunk
<1> QED
  BY <1>3, <1>4, PlannedChanges DEF STRETCH_CONSTANT, SHRINK_CONSTANT

(* t1 does not fall when the length does not.                              *)
LEMMA T1Grows ==
  ASSUME IInv, IInv', NEW e \in Entries, planned[e] <= planned'[e]
  PROVE  /\ calculate_t1(planned[e]) \in Nat
         /\ calculate_t1(planned'[e]) \in Nat
         /\ calculate_t1(planned[e]) <= calculate_t1(planned'[e])
<1>1. planned[e] \in Nat /\ planned'[e] \in Nat
  BY EntriesFinite DEF IInv, TypeOK
<1>2. /\ calculate_t1(planned[e]) = planned[e] + T1_NO_PREEMPTION
      /\ calculate_t1(planned'[e]) = planned'[e] + T1_NO_PREEMPTION
  BY <1>1, T1IsPlannedAndSpacer
<1>3. T1_NO_PREEMPTION \in Nat
  BY ScaleIsPositive
<1> QED
  BY <1>1, <1>2, <1>3

(* A slot that is not booked on keeps its bounds.                          *)
LEMMA OtherSlots ==
  ASSUME IInv, IInv', NEW e \in Entries, Guests(e) \subseteq Guests(e)',
         retired_slot'[e] = retired_slot[e], planned[e] <= planned'[e], SlotIsBounded(e),
         slot_owner'[e] = e /\ e \in Rest' => slot_owner[e] = e /\ e \in Rest
  PROVE  SlotIsBounded(e)'
<1> DEFINE g == Cardinality(Guests(e))
           h == Cardinality(Guests(e)')
           t1 == calculate_t1(planned[e])
           u1 == calculate_t1(planned'[e])
           r == retired_slot[e]
           open == slot_owner[e] = e /\ e \in Rest
           next == slot_owner'[e] = e /\ e \in Rest'
<1>1. g \in Nat /\ h \in Nat /\ g <= h
  BY GuestsFinite, GuestsGrow
<1>2. t1 \in Nat /\ u1 \in Nat /\ t1 <= u1 /\ r \in Nat
  BY T1Grows, EntriesFinite DEF IInv, TypeOK
<1>3. /\ r < t1 + INS_PER_TICK * (1 + g)
      /\ open => r < t1 + INS_PER_TICK * g
  BY DEF SlotIsBounded
<1>4. next => open
  OBVIOUS
<1> HIDE DEF g, h, t1, u1, r, open
<1>5. /\ INS_PER_TICK * g <= INS_PER_TICK * h
      /\ INS_PER_TICK * g \in Nat /\ INS_PER_TICK * h \in Nat
      /\ INS_PER_TICK * (1 + g) = INS_PER_TICK * g + INS_PER_TICK
      /\ INS_PER_TICK * (1 + h) = INS_PER_TICK * h + INS_PER_TICK
      /\ INS_PER_TICK \in Nat
  BY <1>1, Room, ConfigAssumption
<1>6. /\ r < u1 + INS_PER_TICK * (1 + h)
      /\ r < t1 + INS_PER_TICK * g => r < u1 + INS_PER_TICK * h
  BY <1>2, <1>3, <1>5
<1> QED
  BY <1>3, <1>4, <1>6, NextSlotIsBounded DEF h, u1, r

(* A tick keeps every slot bounded that it does not shrink.                *)
LEMMA TickKeepsSlot ==
  ASSUME IInv, IInv', FinishedInv, StackInv, plan_state' = ON_PLAN, pbs_run_timer_tick,
         NEW e \in Entries, SlotIsBounded(e), planned[e] <= planned'[e]
  PROVE  SlotIsBounded(e)'
<1>1. /\ plan_state = ON_PLAN
      /\ ~ TickFindsNoSlot
      /\ cur_task # END
      /\ retired_slot' = SlotRetired(INS_PER_TICK)
      /\ TickRunsTask => planned' = PlannedAfterT2
  BY TickOnPlan
<1>2. (\A f \in Entries : Guests(f) \subseteq Guests(f)')
      /\ (\A f \in Entries : f \in Rest' => f \in Rest)
  BY <1>1, GuestsStay DEF Next
<1>3. cur \in 0 .. NumTasks - 1
  BY <1>1, TaskRuns
<1>4. PICK j \in cur .. NumTasks - 1 :
         /\ slot_owner[cur_task] = tasks[j]
         /\ slot_owner[tasks[j]] = tasks[j]
         /\ tasks[j] \in Entries /\ tasks[j] \in Rest
         /\ \A m \in cur .. j : OwnerAt[m] = OwnerAt[cur] /\ PidAt[m] = PidAt[cur]
  BY <1>3, OwnerOwns
<1>5. e \in Indices /\ retired_slot[e] \in Nat /\ DOMAIN retired_slot = Indices
  BY EntriesFinite DEF IInv, TypeOK
<1>6. CASE e # tasks[j]
  <2>1. retired_slot'[e] = retired_slot[e]
    BY <1>1, <1>4, <1>5, <1>6 DEF SlotRetired
  <2>2. slot_owner'[e] = e => slot_owner[e] = e
    <3>1. CASE TickPreemptsTask
      <4>1. PICK s \in Indices, k \in Indices : Preempts(s, k)
        BY <3>1, PreemptMoves
      <4>2. slot_owner'[e] = IF \E m \in cur .. cur + s - 1 : tasks[m] = e THEN tasks[k + 1]
                             ELSE slot_owner[e]
        BY <1>5, <4>1 DEF Preempts
      <4>3. ASSUME NEW m \in cur .. cur + s - 1 PROVE tasks[m] # tasks[k + 1]
        <5>1. m \in Indices /\ k + 1 \in Indices /\ m # k + 1
          BY <4>1, EntriesFinite DEF Preempts, Fits
        <5> QED
          BY <5>1 DEF IInv, PlanIsPermutation
      <4> QED
        BY <4>2, <4>3
    <3>2. CASE TickFinishesTask \/ TickRunsTask
      BY <3>2, FinishMoves, TickStays
    <3> QED
      BY <1>1, <3>1, <3>2 DEF pbs_run_timer_tick
  <2> QED
    BY <1>2, <2>1, <2>2, OtherSlots
<1>7. CASE e = tasks[j]
  <2> DEFINE g == Cardinality(Guests(e))
             h == Cardinality(Guests(e)')
             t1 == calculate_t1(planned[e])
             u1 == calculate_t1(planned'[e])
             r == retired_slot[e]
  <2>1. g \in Nat /\ h \in Nat /\ g <= h
    BY <1>2, GuestsFinite, GuestsGrow
  <2>2. t1 \in Nat /\ u1 \in Nat /\ t1 <= u1 /\ r \in Nat /\ INS_PER_TICK \in Nat
    BY <1>5, T1Grows, ConfigAssumption
  <2>3. retired_slot'[e] = r + INS_PER_TICK
    BY <1>1, <1>4, <1>5, <1>7 DEF SlotRetired
  <2>4. r < t1 + INS_PER_TICK * g
    BY <1>4, <1>7 DEF SlotIsBounded
  <2>5. /\ INS_PER_TICK * g <= INS_PER_TICK * h
        /\ INS_PER_TICK * g \in Nat /\ INS_PER_TICK * h \in Nat
        /\ INS_PER_TICK * (g + 1) = INS_PER_TICK * g + INS_PER_TICK
        /\ INS_PER_TICK * (1 + h) = INS_PER_TICK * h + INS_PER_TICK
        /\ g + 1 <= h => INS_PER_TICK * (g + 1) <= INS_PER_TICK * h
    <3> HIDE DEF g, h
    <3>1. g + 1 \in Nat /\ h <= h
      BY <2>1
    <3> QED
      BY <2>1, <3>1, Room
  <2>6. \/ r + INS_PER_TICK < u1
        \/ g + 1 <= h
        \/ ~ (slot_owner'[e] = e /\ e \in Rest')
    <3>1. CASE TickFinishesTask
      <4>1. CASE e \in Rest'
        <5>1. /\ cur_task \in Entries /\ ~ IsFreeSlot(cur_task)
              /\ cur_task \notin Rest'
          <6>1. cur_task \in Entries
            <7>1. cur_task \in Indices /\ cur_task # END
              BY <1>1, <1>3, EntriesFinite DEF IInv, TypeOK, cur_task
            <7> QED
              BY <7>1, EntriesFinite DEF END
          <6>2. ~ IsFreeSlot(cur_task)
            BY DEF IInv, CurTaskIsRunnable
          <6> QED
            BY <3>1, <6>1, <6>2, FinishDone
        <5>2. cur_task # e
          BY <4>1, <5>1
        <5>3. state'[cur_task] = PLAN_TASK_FINISHED /\ slot_owner' = slot_owner
          <6>1. /\ state' = [state EXCEPT ![cur_task] = PLAN_TASK_FINISHED,
                                          ![tasks[cur + 1]] = PLAN_TASK_RUNNING,
                                          ![tasks[cur']] = PLAN_TASK_RUNNING]
                /\ slot_owner' = slot_owner
                /\ cur' = IF IsFreeSlot(tasks[cur + 1]) THEN cur + 2 ELSE cur + 1
                /\ cur' \in Indices /\ cur + 1 \in Indices /\ cur \in Indices
            BY <1>3, <3>1, FinishMoves, EntriesFinite
          <6>2. cur # cur + 1 /\ cur # cur'
            BY <1>3, <6>1
          <6>3. tasks[cur + 1] # cur_task /\ tasks[cur'] # cur_task
            BY <6>1, <6>2 DEF IInv, PlanIsPermutation, cur_task
          <6>4. DOMAIN state = Indices /\ cur_task \in Indices
            BY <5>1, EntriesFinite DEF IInv, TypeOK
          <6> QED
            BY <6>1, <6>3, <6>4
        <5>4. cur_task \in Guests(e)'
          BY <1>4, <1>7, <5>1, <5>2, <5>3 DEF Guests
        <5>5. cur_task \notin Guests(e)
          <6>1. state[cur_task] # PLAN_TASK_FINISHED
            <7>1. cur \in cur .. NumTasks - 1
              BY <1>3
            <7>2. plan_state # PLAN_FINISHED
              BY <1>1 DEF ON_PLAN, PLAN_FINISHED
            <7> QED
              BY <7>1, <7>2, FinishedInvParts DEF cur_task
          <6> QED
            BY <6>1 DEF Guests
        <5> QED
          BY <1>2, <5>4, <5>5, GuestsGrow
      <4> QED
        BY <4>1
    <3>2. CASE TickRunsTask
      <4>1. ~ (retired_slot'[e] >= u1)
        BY <1>1, <1>4, <1>7, <3>2 DEF TickRunsTask, T1Transgressed
      <4> HIDE DEF u1, r
      <4> QED
        BY <2>2, <2>3, <4>1
    <3>3. CASE TickPreemptsTask
      <4>1. PICK s \in Indices, k \in Indices : Preempts(s, k)
        BY <3>3, PreemptMoves
      <4>2. StackAt(tasks, PidAt, OwnerAt, cur, NumTasks, s, k)
        BY <3>3, <4>1, PreemptedStack
      <4>3. /\ s \in Nat \ {0} /\ k \in Nat /\ cur \in Nat
            /\ cur + s <= k /\ k <= NumTasks - 2
        BY <4>1 DEF Preempts, Fits
      <4>4. j \in cur .. cur + s - 1
        <5>1. ~ (cur + s \in cur .. j)
          BY <1>4, <4>2 DEF StackAt
        <5> QED
          BY <4>3, <5>1
      <4>5. slot_owner'[e] = tasks[k + 1]
        BY <1>5, <1>7, <4>1, <4>4 DEF Preempts
      <4>6. tasks[k + 1] # tasks[j]
        <5>1. j \in Indices /\ k + 1 \in Indices /\ j # k + 1
          BY <4>3, <4>4, EntriesFinite
        <5> QED
          BY <5>1 DEF IInv, PlanIsPermutation
      <4> QED
        BY <1>7, <4>5, <4>6
    <3> QED
      BY <1>1, <3>1, <3>2, <3>3 DEF pbs_run_timer_tick
  <2> DEFINE next == slot_owner'[e] = e /\ e \in Rest'
  <2> HIDE DEF g, h, t1, u1, r
  <2>7. /\ r + INS_PER_TICK < u1 + INS_PER_TICK * (1 + h)
        /\ next => r + INS_PER_TICK < u1 + INS_PER_TICK * h
    BY <2>1, <2>2, <2>4, <2>5, <2>6
  <2> QED
    BY <2>3, <2>7, NextSlotIsBounded DEF h, u1, r
<1> QED
  BY <1>6, <1>7

LEMMA SlotsStand ==
  UNCHANGED vars => /\ plan_state' = plan_state
                    /\ \A e \in Entries : /\ Unshrunk(e)' <=> Unshrunk(e)
                                          /\ SlotIsBounded(e)' <=> SlotIsBounded(e)
<1> SUFFICES ASSUME UNCHANGED vars, NEW e \in Entries
             PROVE  /\ plan_state' = plan_state
                    /\ Unshrunk(e)' <=> Unshrunk(e)
                    /\ SlotIsBounded(e)' <=> SlotIsBounded(e)
  BY DEF vars, nodeVars
<1>1. /\ UNCHANGED <<parsed, prediction_failures_caused, plan_state>>
      /\ UNCHANGED <<retired_slot, planned, slot_owner, state, tasks, cur>>
  BY DEF vars, taskVars, nodeVars, signalVars
<1>2. Rest' = Rest /\ Guests(e)' = Guests(e) /\ Unshrunk(e)' = Unshrunk(e)
  BY <1>1 DEF Rest, Unshrunk, Guests
<1> QED
  BY <1>1, <1>2, NextSlotIsBounded DEF SlotIsBounded

LEMMA NextKeepsOverrunInv ==
  ASSUME IInv, IInv', FinishedInv, SignalInv, StackInv, OverrunInv, [Next]_vars
  PROVE  OverrunInv'
<1> SUFFICES ASSUME plan_state' = ON_PLAN, NEW e \in Entries, Unshrunk(e)'
             PROVE  SlotIsBounded(e)'
  BY DEF OverrunInv
<1>1. CASE UNCHANGED vars
  BY <1>1, SlotsStand DEF OverrunInv
<1>2. CASE pbs_run_timer_tick
  <2>1. Unshrunk(e) /\ planned[e] <= planned'[e]
    BY <1>2, UnshrunkBefore DEF SignalInv
  <2>2. SlotIsBounded(e)
    BY <1>2, <2>1, TickOnPlan DEF OverrunInv
  <2> QED
    BY <1>2, <2>1, <2>2, TickKeepsSlot
<1> QED
  BY <1>1, <1>2 DEF Next, TickAfterEnd

(* t1 bounds the overrun of the slots of every spread plan, by less than   *)
(* a tick for the owner and for every guest that finished in it: of all of *)
(* them until the first signal, and of those of the processes that         *)
(* signal_tm2 does not shrink for ever, however often they are stretched.  *)
THEOREM SlotOverrunCorrect == Spec /\ IsSpread(parsed.pid) => []SlotOverrunBounded
<1>1. Init => OverrunInv
  BY InitSlots DEF OverrunInv
<1>2. IInv /\ IInv' /\ FinishedInv /\ SignalInv /\ StackInv /\ OverrunInv /\ [Next]_vars
        => OverrunInv'
  BY NextKeepsOverrunInv
<1> QED
  BY <1>1, <1>2, OverrunInvBounds, SpecIInv, SpecFinishedInv, SpecSignalInv, SpecStackInv, PTL
  DEF Spec

(* What t2 of a task takes: as many preempted tasks that finished in its   *)
(* slot as T2_SPACER has ticks, and for a slot of a tick or more about     *)
(* T2_SIGMA of them.                                                       *)
NeedsGuests(e) ==
  check_t2_task(planned[e], retired_slot[e]) =>
    /\ Cardinality(Guests(e)) >= T1_MAX_TICKS_OFF
    /\ planned[e] >= INS_PER_TICK =>
         Cardinality(Guests(e)) >= T2_SIGMA - 1 - T1_MIN_TICKS_OFF

T2TaskNeedsGuests ==
  plan_state = ON_PLAN => \A e \in Entries : Unshrunk(e) => NeedsGuests(e)

LEMMA TicksCompare ==
  ASSUME NEW a \in Nat \ {0}, NEW b \in Nat, NEW c \in Nat, a * b < a * (1 + c)
  PROVE  b <= c
<1> SUFFICES ASSUME ~ (b <= c) PROVE FALSE
  OBVIOUS
<1> DEFINE d == b - (1 + c)
<1>1. d \in Nat /\ b = (1 + c) + d
  OBVIOUS
<1>2. a * d \in Nat
  BY <1>1
<1> HIDE DEF d
<1>3. a * ((1 + c) + d) = a * (1 + c) + a * d
  BY <1>1
<1>4. a * (1 + c) \in Int
  OBVIOUS
<1> QED
  BY <1>1, <1>2, <1>3, <1>4

LEMMA BoundedNeedsGuests ==
  ASSUME IInv, NEW e \in Entries,
         retired_slot[e] < calculate_t1(planned[e]) + INS_PER_TICK * (1 + Cardinality(Guests(e)))
  PROVE  NeedsGuests(e)
<1> SUFFICES ASSUME check_t2_task(planned[e], retired_slot[e])
             PROVE  /\ Cardinality(Guests(e)) >= T1_MAX_TICKS_OFF
                    /\ planned[e] >= INS_PER_TICK =>
                         Cardinality(Guests(e)) >= T2_SIGMA - 1 - T1_MIN_TICKS_OFF
  BY DEF NeedsGuests
<1> DEFINE length == planned[e]
           booked == retired_slot[e]
           t1 == calculate_t1(length)
           g == Cardinality(Guests(e))
<1>1. length \in Nat /\ booked \in Nat
  BY EntriesFinite DEF IInv, TypeOK
<1>2. /\ INS_PER_TICK \in Nat \ {0} /\ T1_MAX_TICKS_OFF \in Nat \ {0}
      /\ T1_MIN_TICKS_OFF \in Nat \ {0} /\ T2_SIGMA \in Nat /\ T2_SIGMA > 0
  BY ConfigAssumption DEF T2_SIGMA
<1>3. g \in Nat
  BY GuestsFinite
<1>4. t1 = length + INS_PER_TICK * T1_MIN_TICKS_OFF
  BY <1>1, <1>2, T1IsPlannedAndSpacer DEF T1_NO_PREEMPTION
<1>5. booked > MaxOf(t1 + T2_SPACER, length * T2_SIGMA)
  BY DEF check_t2_task, calculate_t2_task
<1>6. T2_SPACER = INS_PER_TICK * T1_MAX_TICKS_OFF
  BY <1>2 DEF T2_SPACER
<1>7. booked < t1 + INS_PER_TICK * (1 + g)
  OBVIOUS
<1>8. /\ length * T2_SIGMA \in Nat /\ INS_PER_TICK * (1 + g) \in Nat
      /\ INS_PER_TICK * T1_MIN_TICKS_OFF \in Nat /\ INS_PER_TICK * T1_MAX_TICKS_OFF \in Nat
  BY <1>1, <1>2, <1>3
<1> HIDE DEF length, booked, t1, g, T2_SIGMA, T2_SPACER
<1>9. booked > t1 + T2_SPACER /\ booked > length * T2_SIGMA
  BY <1>1, <1>4, <1>5, <1>6, <1>8 DEF MaxOf
<1>10. T1_MAX_TICKS_OFF <= g
  <2>1. INS_PER_TICK * T1_MAX_TICKS_OFF < INS_PER_TICK * (1 + g)
    BY <1>1, <1>4, <1>6, <1>7, <1>8, <1>9
  <2> QED
    BY <1>2, <1>3, <2>1, TicksCompare
<1>11. ASSUME length >= INS_PER_TICK PROVE T2_SIGMA - 1 <= T1_MIN_TICKS_OFF + g
  <2> DEFINE more == T2_SIGMA - 1
             over == length - INS_PER_TICK
  <2>1. more \in Nat /\ over \in Nat /\ T2_SIGMA = more + 1 /\ length = over + INS_PER_TICK
    BY <1>1, <1>2, <1>11
  <2>2. length * T2_SIGMA = length * more + length
    <3> HIDE DEF more
    <3> QED
      BY <1>1, <2>1
  <2>3. length * more = over * more + INS_PER_TICK * more
    <3> HIDE DEF more, over
    <3> QED
      BY <1>2, <2>1
  <2> HIDE DEF more, over
  <2>4. over * more \in Nat /\ INS_PER_TICK * more \in Nat
    BY <1>2, <2>1
  <2>5. INS_PER_TICK * (1 + (T1_MIN_TICKS_OFF + g))
          = INS_PER_TICK * T1_MIN_TICKS_OFF + INS_PER_TICK * (1 + g)
    BY <1>2, <1>3
  <2>6. INS_PER_TICK * more < INS_PER_TICK * (1 + (T1_MIN_TICKS_OFF + g))
    <3>1. length * T2_SIGMA < length + INS_PER_TICK * T1_MIN_TICKS_OFF + INS_PER_TICK * (1 + g)
      BY <1>1, <1>4, <1>7, <1>8, <1>9
    <3>2. length * more < INS_PER_TICK * T1_MIN_TICKS_OFF + INS_PER_TICK * (1 + g)
      BY <1>1, <1>8, <2>2, <2>3, <2>4, <3>1
    <3> QED
      BY <1>8, <2>3, <2>4, <2>5, <3>2
  <2>7. T1_MIN_TICKS_OFF + g \in Nat
    BY <1>2, <1>3
  <2> QED
    BY <1>2, <2>1, <2>6, <2>7, TicksCompare DEF more
<1> QED
  BY <1>2, <1>3, <1>10, <1>11 DEF g, length

(* Preemption comes before t2: in spread plans check_t2_task is true only  *)
(* for a slot that finished that many guests, or that signal_tm2 shrank.   *)
THEOREM T2TaskCorrect == Spec /\ IsSpread(parsed.pid) => []T2TaskNeedsGuests
<1>1. IInv /\ SlotOverrunBounded => T2TaskNeedsGuests
  <2> SUFFICES ASSUME IInv, SlotOverrunBounded, plan_state = ON_PLAN,
                      NEW e \in Entries, Unshrunk(e)
               PROVE  NeedsGuests(e)
    BY DEF T2TaskNeedsGuests
  <2> QED
    BY BoundedNeedsGuests DEF SlotOverrunBounded, Unshrunk, Guests
<1> QED
  BY <1>1, SlotOverrunCorrect, SpecIInv, PTL

(* The number of tasks of the process of e.                                *)
Kin(e) == Cardinality({f \in Entries : parsed.pid[f] = parsed.pid[e]})

(* No process has more tasks than are needed for t2.  With the macros of   *)
(* config.h these are 171, or 10 for tasks shorter than a tick.            *)
FewTasks ==
  \A e \in Entries : IsTask(e) =>
    \/ Kin(e) <= T1_MAX_TICKS_OFF
    \/ planned[e] >= INS_PER_TICK /\ Kin(e) <= T2_SIGMA - 1 - T1_MIN_TICKS_OFF

(* No length falls: signal_tm2 finds no task to shrink or is not called.   *)
NothingShrinks == \A e \in Entries : planned[e] <= planned'[e]

SlotsBounded == plan_state = ON_PLAN => \A e \in Entries : SlotIsBounded(e)

(* Nothing is booked on a free slot.                                       *)
FreeSlotsUnused == \A e \in Entries : IsFreeSlot(e) => retired_slot[e] = 0

LEMMA NextFreeSlotsUnused ==
  IInv /\ OwnerIsKin /\ FreeSlotsUnused /\ [Next]_vars => FreeSlotsUnused'
<1> SUFFICES ASSUME IInv, OwnerIsKin, FreeSlotsUnused, [Next]_vars,
                    NEW e \in Entries, IsFreeSlot(e)'
             PROVE  retired_slot'[e] = 0
  BY DEF FreeSlotsUnused
<1>1. CASE UNCHANGED vars
  BY <1>1 DEF vars, taskVars, IsFreeSlot, FreeSlotsUnused
<1>2. CASE pbs_run_timer_tick
  <2>1. parsed' = parsed /\ cur_task # END
    BY <1>2
    DEF pbs_run_timer_tick, TickFinishesTask, TickRunsTask, TickPreemptsTask, TickFindsNoSlot,
        TimerTick
  <2>2. PICK ins : retired_slot' = SlotRetired(ins)
    BY <1>2
    DEF pbs_run_timer_tick, TickFinishesTask, TickRunsTask, TickPreemptsTask, TickFindsNoSlot,
        Retire
  <2>3. e \in Indices /\ cur_task \in Indices /\ retired_slot \in [Indices -> Nat]
    BY <2>1, TaskRuns, EntriesFinite DEF IInv, TypeOK
  <2>4. slot_owner[cur_task] # e
    BY <2>1, <2>3 DEF IInv, CurTaskIsRunnable, OwnerIsKin, IsFreeSlot
  <2>5. retired_slot'[e] = retired_slot[e]
    BY <2>2, <2>3, <2>4 DEF SlotRetired
  <2> QED
    BY <2>1, <2>5 DEF IsFreeSlot, FreeSlotsUnused
<1> QED
  BY <1>1, <1>2 DEF Next, TickAfterEnd

LEMMA GuestsAreKin ==
  ASSUME IInv, OwnerIsKin, NEW e \in Entries
  PROVE  Kin(e) \in Nat /\ Cardinality(Guests(e)) \in Nat /\ Cardinality(Guests(e)) < Kin(e)
<1> DEFINE P == {f \in Entries : parsed.pid[f] = parsed.pid[e]}
           G == Guests(e)
<1>1. IsFiniteSet(P) /\ IsFiniteSet(G) /\ Cardinality(G) \in Nat
  BY EntriesFinite, GuestsFinite, FS_Subset
<1>2. G \cup {e} \in SUBSET P /\ e \notin G
  BY EntriesFinite DEF Guests, OwnerIsKin
<1>3. Kin(e) = Cardinality(P)
  BY DEF Kin
<1> HIDE DEF P, G
<1>4. Cardinality(G \cup {e}) = Cardinality(G) + 1
  BY <1>1, <1>2, FS_AddElement
<1>5. Cardinality(G \cup {e}) <= Cardinality(P) /\ Cardinality(P) \in Nat
  BY <1>1, <1>2, FS_Subset, FS_CardinalityType
<1> QED
  BY <1>1, <1>3, <1>4, <1>5 DEF G

(* check_t2_task is true for no slot.                                      *)
T2TaskIsOutOfReach ==
  plan_state = ON_PLAN =>
    \A e \in Entries : ~ check_t2_task(planned[e], retired_slot[e])

LEMMA FewTasksNoT2 ==
  IInv /\ OwnerIsKin /\ FreeSlotsUnused /\ FewTasks /\ SlotsBounded => T2TaskIsOutOfReach
<1> SUFFICES ASSUME IInv, OwnerIsKin, FreeSlotsUnused, FewTasks, SlotsBounded,
                    plan_state = ON_PLAN, NEW e \in Entries
             PROVE  ~ check_t2_task(planned[e], retired_slot[e])
  BY DEF T2TaskIsOutOfReach
<1>1. CASE IsTask(e)
  <2>1. NeedsGuests(e)
    BY BoundedNeedsGuests DEF SlotsBounded, SlotIsBounded
  <2>2. Kin(e) \in Nat /\ Cardinality(Guests(e)) \in Nat /\ Cardinality(Guests(e)) < Kin(e)
    BY GuestsAreKin
  <2>3. T1_MAX_TICKS_OFF \in Nat /\ T2_SIGMA - 1 - T1_MIN_TICKS_OFF \in Int
    BY ConfigAssumption DEF T2_SIGMA
  <2> QED
    BY <1>1, <2>1, <2>2, <2>3 DEF NeedsGuests, FewTasks
<1>2. CASE ~ IsTask(e)
  <2>1. e \in Indices /\ e # END
    BY EntriesFinite DEF END
  <2>2. IsFreeSlot(e)
    BY <1>2, <2>1 DEF IInv, TypeOK, PlanOK, IsTask, IsFreeSlot
  <2>3. retired_slot[e] = 0
    BY <2>2 DEF FreeSlotsUnused
  <2>4. planned[e] \in Nat /\ calculate_t1(planned[e]) \in Nat
    BY <2>1, T1Type DEF IInv, TypeOK
  <2>5. T2_SPACER \in Nat /\ planned[e] * T2_SIGMA \in Nat
    BY <2>4, ScaleIsPositive, ConfigAssumption DEF T2_SIGMA
  <2> DEFINE t2 == calculate_t2_task(planned[e])
  <2>6. t2 \in Nat
    <3> HIDE DEF T2_SPACER, T2_SIGMA
    <3> QED
      BY <2>4, <2>5 DEF calculate_t2_task, MaxOf
  <2> HIDE DEF t2
  <2>7. ~ (0 > t2)
    BY <2>6
  <2> QED
    BY <2>3, <2>7 DEF check_t2_task, t2
<1> QED
  BY <1>1, <1>2

(* check_t2_task compares the slot with T2_SIGMA times the planned length, *)
(* not with T2_SIGMA percent of it, and t1 preempts first: t2 of a task is *)
(* out of reach in every spread plan with few tasks of a process, however  *)
(* often it is stretched, as long as no slot is shrunk, which only happens *)
(* to those of process 0 when a task was early.                            *)
THEOREM T2TaskOutOfReachCorrect ==
  Spec /\ IsSpread(parsed.pid) /\ FewTasks /\ [][NothingShrinks]_vars => []T2TaskIsOutOfReach
<1>1. Init => SlotsBounded /\ FreeSlotsUnused
  <2>1. Init => SlotsBounded
    BY InitSlots DEF SlotsBounded
  <2>2. Init => FreeSlotsUnused
    BY EntriesFinite DEF Init, parse_plan, FreeSlotsUnused
  <2> QED
    BY <2>1, <2>2
<1>2. IInv /\ IInv' /\ FinishedInv /\ StackInv /\ SlotsBounded /\ [Next]_vars
        /\ [NothingShrinks]_vars => SlotsBounded'
  <2> SUFFICES ASSUME IInv, IInv', FinishedInv, StackInv, SlotsBounded, [Next]_vars,
                      [NothingShrinks]_vars, plan_state' = ON_PLAN, NEW e \in Entries
               PROVE  SlotIsBounded(e)'
    BY DEF SlotsBounded
  <2>1. CASE UNCHANGED vars
    BY <2>1, SlotsStand DEF SlotsBounded
  <2>2. CASE pbs_run_timer_tick /\ NothingShrinks
    <3>1. plan_state = ON_PLAN
      BY <2>2, TickOnPlan
    <3>2. SlotIsBounded(e) /\ planned[e] <= planned'[e]
      BY <2>2, <3>1 DEF SlotsBounded, NothingShrinks
    <3> QED
      BY <2>2, <3>2, TickKeepsSlot
  <2> QED
    BY <2>1, <2>2 DEF Next, TickAfterEnd
<1>3. IInv /\ IInv' /\ FewTasks /\ [Next]_vars /\ [NothingShrinks]_vars => FewTasks'
  <2> SUFFICES ASSUME IInv, IInv', FewTasks, [Next]_vars, [NothingShrinks]_vars,
                      NEW e \in Entries, IsTask(e)'
               PROVE  \/ Kin(e)' <= T1_MAX_TICKS_OFF
                      \/ /\ planned'[e] >= INS_PER_TICK
                         /\ Kin(e)' <= T2_SIGMA - 1 - T1_MIN_TICKS_OFF
    BY DEF FewTasks
  <2>1. parsed' = parsed
    BY DEF vars, Next, pbs_run_timer_tick, TickFinishesTask, TickRunsTask, TickPreemptsTask,
           TickFindsNoSlot, TimerTick, TickAfterEnd
  <2>2. IsTask(e) /\ Kin(e)' = Kin(e)
    BY <2>1 DEF IsTask, Kin
  <2>3. planned[e] \in Nat /\ planned'[e] \in Nat /\ INS_PER_TICK \in Nat
    BY EntriesFinite, ConfigAssumption DEF IInv, TypeOK
  <2>4. planned'[e] = planned[e] \/ planned[e] <= planned'[e]
    BY DEF vars, taskVars, NothingShrinks
  <2>5. planned[e] >= INS_PER_TICK => planned'[e] >= INS_PER_TICK
    BY <2>3, <2>4
  <2> QED
    BY <2>2, <2>5 DEF FewTasks
<1> QED
  BY <1>1, <1>2, <1>3, NextFreeSlotsUnused, FewTasksNoT2, SpecIInv, SpecFinishedInv, SpecStackInv,
     SpecOwnerIsKin, PTL
  DEF Spec

-----------------------------------------------------------------------------
(* The scheduler is a PlanExecution.                                       *)

MayRun == Execution!Eligible(execution_finished)

(* The task under the cursor is one its process may run next; at the       *)
(* sentinel there is none.                                                 *)
Runs ==
  /\ cur_task = END => MayRun = {}
  /\ cur_task # END => cur_task \in MayRun /\ execution_process[cur_task] = parsed.pid[cur_task]

LEMMA CurTaskMayRun == IInv /\ OrderIsKept => Runs
<1> SUFFICES ASSUME IInv, OrderIsKept PROVE Runs
  OBVIOUS
<1>1. /\ NumTasks \in Nat
      /\ Indices = 0 .. NumTasks
      /\ Entries = 0 .. NumTasks - 1
      /\ cur \in 0 .. NumTasks
  BY EntriesFinite DEF IInv, TypeOK
<1>2. ListIsSplit
  BY DoneAndRest
<1>3. /\ DOMAIN execution_process = {e \in Entries : IsTask(e)}
      /\ \A e \in {f \in Entries : IsTask(f)} : execution_process[e] = parsed.pid[e]
      /\ execution_finished = {e \in Entries : IsTask(e) /\ e \in Done}
  BY DEF execution_process, execution_finished, Done
<1>4. MayRun = {t \in {e \in Entries : IsTask(e)} \ execution_finished :
                  \A u \in {e \in Entries : IsTask(e)} \ execution_finished :
                     execution_process[u] = execution_process[t] => t <= u}
  BY <1>3 DEF MayRun, Execution!Eligible
<1>5. cur_task = END <=> cur = NumTasks
  <2>1. cur \in Indices /\ NumTasks \in Indices
    BY <1>1
  <2> QED
    BY <2>1 DEF IInv, PlanIsPermutation, cur_task
<1>6. CASE cur_task = END
  <2>1. Rest = {}
    BY <1>1, <1>5, <1>6 DEF Rest
  <2>2. {e \in Entries : IsTask(e)} \ execution_finished = {}
    BY <1>2, <1>3, <2>1 DEF ListIsSplit
  <2> QED
    BY <1>4, <1>6, <2>2 DEF Runs
<1>7. CASE cur_task # END
  <2>1. cur \in 0 .. NumTasks - 1 /\ cur >= cur
    BY <1>1, <1>5, <1>7
  <2>2. cur_task \in Entries /\ cur_task \notin Done
    BY <1>2, <2>1 DEF ListIsSplit, cur_task
  <2>3. IsTask(cur_task)
    <3>1. parsed.pid[cur_task] \in Processes \cup {FREE_PID, END_PID}
      BY <2>2, EntriesFinite DEF IInv, TypeOK
    <3> QED
      BY <2>2, <3>1 DEF IInv, PlanOK, CurTaskIsRunnable, IsTask, IsFreeSlot
  <2>4. ASSUME NEW u \in Entries, IsTask(u), u \notin Done, parsed.pid[u] = parsed.pid[cur_task]
        PROVE  cur_task <= u
    <3>1. PICK m \in 0 .. NumTasks - 1 : tasks[m] = u
      BY <1>2, <2>4 DEF ListIsSplit
    <3>2. m >= cur
      BY <1>2, <2>4, <3>1 DEF ListIsSplit
    <3>3. CASE m = cur
      BY <1>1, <2>2, <3>1, <3>3 DEF cur_task
    <3>4. CASE m # cur
      <4>1. cur < m
        BY <1>1, <3>2, <3>4
      <4>2. tasks[cur] < tasks[m]
        BY <2>1, <2>3, <2>4, <3>1, <4>1 DEF OrderIsKept, cur_task
      <4> QED
        BY <1>1, <2>2, <2>4, <3>1, <4>2 DEF cur_task
    <3> QED
      BY <3>3, <3>4
  <2>5. cur_task \in MayRun
    BY <1>3, <1>4, <2>2, <2>3, <2>4
  <2> QED
    BY <1>3, <1>7, <2>2, <2>3, <2>5 DEF Runs
<1> QED
  BY <1>6, <1>7

LEMMA InitExecution == PlanIsLoaded => Execution!Init
<1> SUFFICES ASSUME PlanIsLoaded PROVE Execution!Init
  OBVIOUS
<1>1. execution_finished = {}
  BY DEF PlanIsLoaded, parse_plan, execution_finished
<1>2. OrderIsKept
  <2>1. tasks = [i \in Indices |-> i] /\ Indices = 0 .. NumTasks /\ NumTasks \in Nat
    BY EntriesFinite DEF PlanIsLoaded, parse_plan
  <2> QED
    BY <2>1 DEF OrderIsKept
<1>3. cur_task # END
  BY EntriesFinite DEF PlanIsLoaded, parse_plan, cur_task, END
<1>4. cur_task \in MayRun
  BY <1>2, <1>3, InitIInv, CurTaskMayRun DEF Runs
<1> QED
  BY <1>1, <1>4 DEF Execution!Init, MayRun

(* What every tick leaves alone in the refinement mapping.                 *)
LEMMA SameProcesses == parsed' = parsed => execution_process' = execution_process
BY DEF execution_process, IsTask

LEMMA NextMayRun ==
  execution_process' = execution_process => MayRun' = Execution!Eligible(execution_finished')
BY DEF MayRun, Execution!Eligible

LEMMA NextRuns ==
  ASSUME IInv, IInv', StackInv', [Next]_vars
  PROVE  Runs'
<1>1. StackInv' => OrderIsKept'
  BY DEF StackInv
<1>2. IInv' /\ OrderIsKept' => Runs'
  BY CurTaskMayRun, PTL
<1> QED
  BY <1>1, <1>2

LEMMA StepExecution ==
  ASSUME IInv, IInv', StackInv, StackInv', [Next]_vars
  PROVE  [Execution!Next]_(Execution!executionVars)
<1>1. Runs'
  BY NextRuns
<1>2. \A e \in Entries : IsTask(e) => ~ IsFreeSlot(e)
  <2>1. FREE_PID \notin Processes
    BY PlanAssumption DEF FREE_PID, Processes
  <2> QED
    BY <2>1 DEF IsTask, IsFreeSlot
<1>3. execution_finished = {e \in Entries : IsTask(e) /\ e \in Done}
  BY DEF execution_finished, Done
<1>4. execution_finished' = {e \in Entries : IsTask(e)' /\ e \in Done'}
  BY DEF execution_finished, Done
<1>5. ASSUME UNCHANGED <<parsed, tasks, cur>>
      PROVE  UNCHANGED Execution!executionVars
  BY <1>5 DEF Execution!executionVars, execution_process, execution_finished, cur_task, IsTask
<1>6. CASE UNCHANGED vars \/ TickRunsTask \/ TickFindsNoSlot
  <2>1. UNCHANGED <<parsed, tasks, cur>>
    BY <1>6, TickStays DEF vars
  <2> QED
    BY <1>5, <2>1
<1>7. CASE TickFinishesTask
  <2>1. parsed' = parsed /\ cur_task # END
    BY <1>7 DEF TickFinishesTask
  <2>2. execution_process' = execution_process
    BY <2>1, SameProcesses
  <2>3. cur_task \in Entries /\ IsTask(cur_task)
    <3>1. cur \in 0 .. NumTasks - 1
      BY <1>7, FinishMoves
    <3>2. cur_task \in Entries
      BY <3>1, DoneAndRest DEF ListIsSplit, cur_task
    <3>3. parsed.pid[cur_task] \in Processes \cup {FREE_PID, END_PID}
      BY <3>2, EntriesFinite DEF IInv, TypeOK
    <3> QED
      BY <3>2, <3>3 DEF IInv, PlanOK, CurTaskIsRunnable, IsTask, IsFreeSlot
  <2>4. execution_finished' = execution_finished \cup {cur_task}
    <3>1. \A e \in Entries : IsTask(e)' <=> IsTask(e)
      BY <2>1 DEF IsTask
    <3>2. \A e \in Entries : IsTask(e) => (e \in Done' <=> e \in Done \/ e = cur_task)
      BY <1>2, <1>7, FinishDone
    <3> QED
      BY <1>3, <1>4, <2>3, <3>1, <3>2
  <2>5. IF Execution!Eligible(execution_finished') = {} THEN cur_task' = END
        ELSE cur_task' \in Execution!Eligible(execution_finished')
    <3>1. MayRun' = Execution!Eligible(execution_finished')
      BY <2>2, NextMayRun
    <3>2. END' = END
      BY DEF END
    <3> QED
      BY <1>1, <3>1, <3>2 DEF Runs
  <2> QED
    BY <2>1, <2>2, <2>4, <2>5 DEF Execution!Next, Execution!Finish
<1>8. CASE TickPreemptsTask
  <2>1. /\ parsed' = parsed /\ cur_task # END
        /\ cur \in 0 .. NumTasks - 1
        /\ cur' = cur \/ cur' = cur + 1
    BY <1>8, PreemptMoves DEF TickPreemptsTask, TimerTick
  <2>2. execution_process' = execution_process
    BY <2>1, SameProcesses
  <2>3. execution_finished' = execution_finished
    <3>1. \A e \in Entries : IsTask(e)' <=> IsTask(e)
      BY <2>1 DEF IsTask
    <3>2. \A e \in Entries : IsTask(e) => (e \in Done' <=> e \in Done)
      BY <1>2, <1>8, PreemptDone
    <3> QED
      BY <1>3, <1>4, <3>1, <3>2
  <2>4. PICK s \in Indices, k \in Indices : Preempts(s, k)
    BY <1>8, PreemptMoves
  <2>5. /\ StackAt(tasks, PidAt, OwnerAt, cur, NumTasks, s, k)
        /\ StackMoved(tasks, PidAt, OwnerAt, tasks', PidAt', OwnerAt', cur, NumTasks, s, k)
        /\ \A i \in k - s + 1 .. k : tasks'[i] = tasks[cur + (i - (k - s + 1))]
    BY <1>8, <2>4, PreemptedStack
  <2>6. \A i \in cur + s .. k : PidAt[i] # PidAt[cur]
    BY <2>5, StackPassesOthers DEF StackInv
  <2>7. /\ s \in Nat \ {0} /\ k \in Nat /\ cur \in Nat
        /\ cur + s <= k /\ k <= NumTasks - 2
    BY <2>4 DEF Preempts, Fits
  <2>8. NumTasks \in Nat /\ Indices = 0 .. NumTasks
    BY EntriesFinite
  <2>9. cur' \in cur .. k - s \/ cur' = k - s + 1
    BY <2>1, <2>7
  <2>10. cur' \in Indices /\ cur' # NumTasks /\ cur' \in Nat
    BY <2>1, <2>7, <2>8
  <2>11. cur_task' # END
    <3>1. NumTasks \in Indices /\ tasks'[NumTasks] = END /\ END' = END
      BY <2>8 DEF IInv, PlanIsPermutation, END
    <3> QED
      BY <2>10, <3>1 DEF IInv, PlanIsPermutation, cur_task
  <2>12. /\ cur_task' \in Execution!Eligible(execution_finished)
         /\ execution_process[cur_task'] = parsed.pid[cur_task']
    BY <1>1, <2>1, <2>2, <2>3, <2>11, NextMayRun DEF Runs
  <2>13. execution_process[cur_task] = parsed.pid[cur_task]
    <3>1. Runs
      BY CurTaskMayRun DEF StackInv
    <3> QED
      BY <2>1, <3>1 DEF Runs
  <2>14. CASE cur' \in cur .. k - s
    <3>1. PidAt'[cur'] = PidAt[cur' + s] /\ cur' + s \in cur + s .. k
      <4>1. cur' + s \in cur + s .. k
        <5>1. cur \in Int /\ s \in Int /\ k \in Int
          BY <2>7
        <5>2. \A i \in cur .. k - s : i + s \in cur + s .. k
          BY <5>1
        <5> QED
          BY <2>14, <5>2
      <4>2. \A i \in cur .. k - s : PidAt'[i] = PidAt[i + s]
        BY <2>5 DEF StackMoved
      <4> QED
        BY <2>14, <4>1, <4>2
    <3>2. PidAt'[cur'] = parsed.pid[cur_task'] /\ PidAt[cur] = parsed.pid[cur_task]
      BY <2>1, <2>8, <2>10 DEF PidAt, cur_task
    <3>3. execution_process[cur_task'] # execution_process[cur_task]
      BY <2>6, <2>12, <2>13, <3>1, <3>2
    <3> QED
      BY <2>1, <2>2, <2>3, <2>12, <3>3 DEF Execution!Next, Execution!Preempt
  <2>15. CASE cur' = k - s + 1
    <3>1. cur' \in k - s + 1 .. k /\ cur + (cur' - (k - s + 1)) = cur
      BY <2>7, <2>15
    <3>2. cur_task' = cur_task
      BY <2>5, <3>1 DEF cur_task
    <3> QED
      BY <2>2, <2>3, <3>2 DEF Execution!executionVars
  <2> QED
    BY <2>9, <2>14, <2>15
<1> QED
  BY <1>6, <1>7, <1>8 DEF Next, pbs_run_timer_tick, TickAfterEnd

(* The safety part of ImplementsPlanExecution for every spread plan: the   *)
(* scheduler starts as a PlanExecution does, and every tick finishes the   *)
(* running task, gives way to another process, or shows nothing.           *)
THEOREM ExecutionRefined ==
  Spec /\ IsSpread(parsed.pid) => Execution!Init /\ [][Execution!Next]_(Execution!executionVars)
<1>1. IInv /\ IInv' /\ StackInv /\ StackInv' /\ [Next]_vars
        => [Execution!Next]_(Execution!executionVars)
  BY StepExecution
<1> QED
  BY <1>1, InitLoads, InitExecution, SpecIInv, SpecStackInv, PTL DEF Spec

-----------------------------------------------------------------------------
(* The assertions of a tick.                                               *)

(* The totals of parse_plan, which no tick changes.                        *)
TotalsAreNat ==
  /\ parsed.instructions_planned \in Nat
  /\ \A q \in Processes : parsed.length_plan[q] \in Nat

LEMMA InitTotals == PlanIsLoaded => TotalsAreNat
<1> SUFFICES ASSUME PlanIsLoaded PROVE TotalsAreNat
  OBVIOUS
<1>1. PICK plan \in Plans : parse_plan(plan)
  BY DEF PlanIsLoaded
<1>2. \A e \in Entries : plan.planned[e] \in Nat
  BY EntriesFinite, PlanAssumption DEF PlanType
<1>3. ASSUME NEW M \in SUBSET Entries PROVE SumFunctionOnSet(plan.planned, M) \in Nat
  <2>1. IsFiniteSet(M)
    BY EntriesFinite, FS_Subset
  <2> QED
    BY <1>2, <2>1, SumNatural
<1>4. calculate_length_plan(plan) \in Nat
  BY <1>3 DEF calculate_length_plan
<1>5. \A q \in Processes : process_length_plan(plan, q) \in Nat
  BY <1>3 DEF process_length_plan
<1> QED
  BY <1>1, <1>4, <1>5 DEF parse_plan, TotalsAreNat

LEMMA ParsedStays == [Next]_vars => parsed' = parsed
BY DEF Next, pbs_run_timer_tick, TickFinishesTask, TickRunsTask, TickPreemptsTask,
       TickFindsNoSlot, TimerTick, TickAfterEnd, vars

LEMMA NextTotals == TotalsAreNat /\ [Next]_vars => TotalsAreNat'
BY ParsedStays DEF TotalsAreNat

(* What a tick asserts of the current task, its process and the plan.  The *)
(* thresholds of earliness and the capacity buffer need something to be    *)
(* planned.                                                                *)
TickAsserts ==
  cur_task # END =>
    LET length == parsed.length_plan[cur_process]
    IN  /\ process_retired[cur_process] >= 0
        /\ calculate_t2_node(NumProcesses, parsed.instructions_planned, stress) > 0
        /\ parsed.instructions_planned >= 5
             => calculate_tm2_node(parsed.instructions_planned) < 0
        /\ length > 0 => calculate_capacity_buffer(length) > length
        /\ planned[cur_task] > 1
             => calculate_tm2_task(planned[cur_task]) \in 1 .. planned[cur_task] - 1

LEMMA AssertsFollow == IInv /\ InstructionAccounting /\ TotalsAreNat => TickAsserts
<1> SUFFICES ASSUME IInv, InstructionAccounting, TotalsAreNat, cur_task # END
             PROVE  LET length == parsed.length_plan[cur_process]
                    IN  /\ process_retired[cur_process] >= 0
                        /\ calculate_t2_node(NumProcesses, parsed.instructions_planned,
                                             stress) > 0
                        /\ parsed.instructions_planned >= 5
                             => calculate_tm2_node(parsed.instructions_planned) < 0
                        /\ length > 0 => calculate_capacity_buffer(length) > length
                        /\ planned[cur_task] > 1
                             => calculate_tm2_task(planned[cur_task])
                                  \in 1 .. planned[cur_task] - 1
  BY DEF TickAsserts
<1>1. cur_process \in Processes /\ cur_task \in Indices
  BY TaskRuns
<1>2. process_retired[cur_process] >= 0
  <2> DEFINE M == TasksOf(cur_process)
  <2>1. process_retired[cur_process] = Booked(M)
    BY <1>1, AccountingParts
  <2>2. M \in SUBSET Entries
    BY DEF TasksOf
  <2> HIDE DEF M
  <2>3. IsFiniteSet(M \cap Done) /\ IsFiniteSet(M \cap Rest)
    BY <2>2, CountsAreInt
  <2>4. \A e \in Entries : parsed.real[e] \in Nat /\ retired_slot[e] \in Nat
    BY EntriesFinite DEF IInv, TypeOK
  <2>5. SumFunctionOnSet(parsed.real, M \cap Done) \in Nat
    BY <2>2, <2>3, <2>4, SumNatural
  <2>6. SumFunctionOnSet(retired_slot, M \cap Rest) \in Nat
    BY <2>2, <2>3, <2>4, SumNatural
  <2> QED
    BY <2>1, <2>5, <2>6 DEF Booked
<1>3. calculate_t2_node(NumProcesses, parsed.instructions_planned, stress) > 0
  <2>1. /\ NumProcesses \in Nat \ {0}
        /\ parsed.instructions_planned \in Int
        /\ stress \in Int
    BY PlanAssumption, ConfigAssumption DEF IInv, TypeOK, TotalsAreNat
  <2> QED
    BY <2>1, T2NodeIsPositive
<1>4. parsed.instructions_planned >= 5 => calculate_tm2_node(parsed.instructions_planned) < 0
  BY Tm2NodeIsNegative DEF TotalsAreNat
<1>5. parsed.length_plan[cur_process] > 0
        => calculate_capacity_buffer(parsed.length_plan[cur_process])
             > parsed.length_plan[cur_process]
  <2>1. parsed.length_plan[cur_process] \in Nat
    BY <1>1 DEF TotalsAreNat
  <2> QED
    BY <2>1, CapacityBufferExceedsPlan
<1>6. planned[cur_task] > 1
        => calculate_tm2_task(planned[cur_task]) \in 1 .. planned[cur_task] - 1
  <2>1. planned[cur_task] \in Nat
    BY <1>1, EntriesFinite DEF IInv, TypeOK
  <2> QED
    BY <2>1, Tm2TaskInsideTask
<1> QED
  BY <1>2, <1>3, <1>4, <1>5, <1>6

(* No assertion of threshold_checking.c and process.c can fail in a tick,  *)
(* for any plan, however often it is preempted and rescheduled, unless     *)
(* there is (nearly) nothing planned for the plan, the process or the task.*)
THEOREM AssertionsCorrect == Spec => []TickAsserts
<1>1. Init => TotalsAreNat
  BY InitLoads, InitTotals
<1> QED
  BY <1>1, NextTotals, AssertsFollow, SpecIInv, AccountingCorrect, PTL DEF Spec

-----------------------------------------------------------------------------
(* Everything the plan keeps whatever the signal buffer holds, so that it  *)
(* can be stated where the buffer outlives the plan.                       *)
PlanInv ==
  /\ IInv
  /\ FinishedInv
  /\ OwnerIsKin
  /\ InstructionAccounting
  /\ TotalsAreNat
  /\ TicksInv
  /\ RunsBounded /\ PreemptionsBounded
  /\ IsSpread(parsed.pid) => StackInv

(* What it shows: the safety of one plan, from its first tick to its end.  *)
PlanIsSafe ==
  /\ TypeOK
  /\ PlanIsPermutation
  /\ CurTaskIsRunnable
  /\ OwnerIsAhead
  /\ FinishedBehindCursor
  /\ InstructionAccounting
  /\ TickAsserts
  /\ TicksBounded
  /\ PreemptionsBounded
  /\ PreemptionIsDefined
  /\ EndIsComplete
  /\ IsSpread(parsed.pid) => OrderIsKept /\ SlotStacks

LEMMA LoadedPlanInv == PlanIsLoaded => PlanInv
BY InitIInv, InitFinishedInv, InitOwnerIsKin, InitAccounting, InitTotals, InitTicksInv,
   InitRunsBounded, InitStackInv
DEF PlanInv

LEMMA NextPlanInv == PlanInv /\ [Next]_vars => PlanInv'
<1> SUFFICES ASSUME PlanInv, [Next]_vars PROVE PlanInv'
  OBVIOUS
<1>1. IInv /\ FinishedInv /\ OwnerIsKin /\ InstructionAccounting /\ TicksInv
  BY DEF PlanInv
<1>2. IInv'
  BY <1>1, NextIInv
<1>3. FinishedInv' /\ OwnerIsKin' /\ InstructionAccounting' /\ TicksInv'
  BY <1>1, NextFinishedInv, NextOwnerIsKin, NextAccounting, NextTicksInv
<1>4. RunsBounded' /\ PreemptionsBounded'
  BY <1>1, <1>2, NextRunsBounded DEF PlanInv
<1>5. parsed' = parsed /\ TotalsAreNat'
  BY ParsedStays, NextTotals DEF PlanInv
<1>6. IsSpread(parsed'.pid) => StackInv'
  BY <1>1, <1>5, NextStackInv DEF PlanInv
<1> QED
  BY <1>2, <1>3, <1>4, <1>5, <1>6 DEF PlanInv

LEMMA PlanInvIsSafe == PlanInv => PlanIsSafe
BY PreemptionFollows, TicksFollow, EndFollows, AssertsFollow, StackInvStacks
DEF PlanInv, PlanIsSafe, IInv, FinishedInv, StackInv
=============================================================================
