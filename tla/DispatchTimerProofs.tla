------------------------- MODULE DispatchTimerProofs --------------------------
(***************************************************************************)
(* Theorems about DispatchTimer, for any number of timers and of threads   *)
(* that make them or are interrupted, and any delays.                      *)
(***************************************************************************)
EXTENDS DispatchTimer, SequenceTheorems, FiniteSetTheorems, WellFoundedInduction, TLAPS

Busy(c) == pc[c] # "idle"

Typed ==
  /\ now \in Nat
  /\ due \in [Timer -> Nat \cup {None}] /\ time \in [Timer -> Nat]
  /\ orderedTimers \in Seq(Timer) /\ armed \subseteq Timer /\ alarms \in Nat
  /\ lock \in Caller \cup {None}
  /\ pc \in [Caller -> {"idle", "lock", "arm", "unlock"}]
  /\ arg \in [Caller -> Timer \cup {None}]
  /\ handler \in [Thread -> {"none", "lock", "dispatch"}]
  /\ popped \in [Thread -> Timer \cup {None}]
  /\ ranAt \in [Timer -> Nat \cup {None}]

(* A timer is made by one caller, and is neither in the array nor armed       *)
(* before that caller is in the critical section.                             *)
Made ==
  /\ \A c \in Caller :
       /\ pc[c] \in {"arm", "unlock"} <=> lock = c
       /\ Busy(c) => arg[c] \in Timer /\ due[arg[c]] # None
       /\ \A d \in Caller : Busy(c) /\ Busy(d) /\ arg[c] = arg[d] => c = d
       /\ pc[c] = "lock" => \A i \in 1..Len(orderedTimers) : orderedTimers[i] # arg[c]
       /\ pc[c] \in {"lock", "arm"} => arg[c] \notin armed
  /\ \A t \in armed : due[t] # None

(* The array is in the order of the deadlines, and no timer is there twice.   *)
Sorted ==
  \A i \in 1..Len(orderedTimers) :
    /\ due[orderedTimers[i]] # None
    /\ \/ time[orderedTimers[i]] = due[orderedTimers[i]] * Tick
       \/ time[orderedTimers[i]] = due[orderedTimers[i]] * Tick + 1
    /\ \A j \in 1..Len(orderedTimers) :
         /\ i < j => due[orderedTimers[i]] <= due[orderedTimers[j]]
         /\ orderedTimers[i] = orderedTimers[j] => i = j

(* A timer in the array that is not due has its kernel timer still to come.   *)
ToCome == armed \cup {arg[c] : c \in Unarmed}
Covered == \A i \in 1..Len(orderedTimers) :
             due[orderedTimers[i]] <= now \/ orderedTimers[i] \in ToCome

(* Every timer in the array will be popped once.                              *)
Counted ==
  /\ ~aborted
  /\ IsFiniteSet(Unarmed) /\ IsFiniteSet(Popping)
  /\ Len(orderedTimers) =
       Cardinality(armed) + alarms + Cardinality(Unarmed) + Cardinality(Popping)

Timely ==
  /\ \A h \in Thread : handler[h] = "dispatch" =>
       popped[h] \in Timer /\ due[popped[h]] # None /\ due[popped[h]] <= now
  /\ NeverEarly

TimerInv == Typed /\ Made /\ Sorted /\ Covered /\ Counted /\ Timely

-----------------------------------------------------------------------------
LEMMA Constants ==
  /\ IsFiniteSet(Timer) /\ Cardinality(Timer) \in Nat /\ Tick \in Nat
  /\ None \notin Caller /\ None \notin Timer /\ None \notin Nat
  /\ Delays \subseteq Nat /\ MaxTime \in Nat
  /\ \A t \in Timer : Tick >= 2
<1>1. ASSUME NEW t \in Timer PROVE Cardinality(Timer) # 0
  BY FS_EmptySet, TimerAssumption DEF TimerAssumption
<1> QED
  BY <1>1, TimerAssumption, FS_CardinalityType DEF TimerAssumption, Tick

(* Comparing times, bumped or not, compares deadlines.                        *)
LEMMA Bumped ==
  ASSUME NEW T \in Nat, T >= 2, NEW a \in Nat, NEW b \in Nat, NEW x \in {0, 1}
  PROVE  /\ a * T \in Nat /\ (a * T <= b * T + x <=> a <= b)
         /\ a * T = b * T + x => a = b
<1>1. a * T \in Nat /\ b * T \in Nat
  OBVIOUS
<1>2. ASSUME a <= b PROVE a * T <= b * T
  BY <1>2
<1>3. ASSUME b + 1 <= a PROVE b * T + T <= a * T
  <2>1. (b + 1) * T <= a * T
    BY <1>3
  <2> QED
    BY <2>1
<1> QED
  BY <1>1, <1>2, <1>3

LEMMA Smallest ==
  ASSUME NEW S, S \subseteq Nat, S # {}
  PROVE  \E i \in S : \A k \in S : i <= k
<1>1. \E i \in S : \A k \in S : ~(<<k, i>> \in OpToRel(<, Nat))
  BY NatLessThanWellFounded, WFMin
<1>2. PICK i \in S : \A k \in S : ~(<<k, i>> \in OpToRel(<, Nat))
  BY <1>1
<1>3. \A k \in S : ~(k < i)
  BY <1>2 DEF OpToRel
<1> QED
  BY <1>3

LEMMA InsertAtFacts ==
  ASSUME NEW S, NEW s \in Seq(S), NEW p \in 1..(Len(s) + 1), NEW t \in S
  PROVE  /\ InsertAt(s, p, t) \in Seq(S)
         /\ Len(InsertAt(s, p, t)) = Len(s) + 1
         /\ \A i \in 1..(Len(s) + 1) :
              InsertAt(s, p, t)[i] = IF i < p THEN s[i] ELSE IF i = p THEN t ELSE s[i - 1]
<1> DEFINE a == SubSeq(s, 1, p - 1)
           b == SubSeq(s, p, Len(s))
<1>1. Len(s) \in Nat /\ p \in Nat /\ p >= 1 /\ p <= Len(s) + 1
  OBVIOUS
<1>2. a \in Seq(S) /\ Len(a) = p - 1 /\ \A i \in 1..(p - 1) : a[i] = s[i]
  BY <1>1, SubSeqProperties
<1>3. b \in Seq(S) /\ Len(b) = Len(s) - p + 1 /\ \A i \in 1..(Len(s) - p + 1) : b[i] = s[p + i - 1]
  BY <1>1, SubSeqProperties
<1>4. <<t>> \in Seq(S) /\ Len(<<t>>) = 1 /\ <<t>>[1] = t
  OBVIOUS
<1> HIDE DEF a, b
<1>5. /\ a \o <<t>> \in Seq(S) /\ Len(a \o <<t>>) = p
      /\ \A i \in 1..p : (a \o <<t>>)[i] = IF i < p THEN s[i] ELSE t
  BY <1>1, <1>2, <1>4, ConcatProperties
<1>6. /\ (a \o <<t>>) \o b \in Seq(S) /\ Len((a \o <<t>>) \o b) = Len(s) + 1
      /\ \A i \in 1..(Len(s) + 1) :
           ((a \o <<t>>) \o b)[i] = IF i <= p THEN (a \o <<t>>)[i] ELSE b[i - p]
  <2>1. p + (Len(s) - p + 1) = Len(s) + 1
    BY <1>1
  <2> DEFINE l == a \o <<t>>
  <2>2. l \in Seq(S) /\ Len(l) = p
    BY <1>5
  <2> HIDE DEF l
  <2>3. /\ l \o b \in Seq(S) /\ Len(l \o b) = Len(l) + Len(b)
        /\ \A i \in 1..(Len(l) + Len(b)) : (l \o b)[i] = IF i <= Len(l) THEN l[i] ELSE b[i - Len(l)]
    BY <1>3, <2>2, ConcatProperties
  <2> QED
    BY <1>3, <2>1, <2>2, <2>3 DEF l
<1>7. \A i \in 1..(Len(s) + 1) : i > p => i - p \in 1..(Len(s) - p + 1) /\ p + (i - p) - 1 = i - 1
  BY <1>1
<1>8. InsertAt(s, p, t) = (a \o <<t>>) \o b
  BY DEF InsertAt, a, b
<1>9. ASSUME NEW i \in 1..(Len(s) + 1)
      PROVE  ((a \o <<t>>) \o b)[i] = IF i < p THEN s[i] ELSE IF i = p THEN t ELSE s[i - 1]
  <2>1. CASE i <= p
    BY <1>1, <1>5, <1>6, <2>1
  <2>2. CASE i > p
    BY <1>1, <1>3, <1>6, <1>7, <2>2
  <2> QED
    <3>1. i <= p \/ i > p
      BY <1>1
    <3> QED
      BY <2>1, <2>2, <3>1
<1> QED
  BY <1>6, <1>8, <1>9

(* Where a timer goes: behind every earlier one, before every later one.      *)
LEMMA InsertFacts ==
  ASSUME Typed, Sorted, NEW t \in Timer, due[t] # None, Insert(t),
         \A i \in 1..Len(orderedTimers) : orderedTimers[i] # t
  PROVE  \E p \in 1..(Len(orderedTimers) + 1) :
           /\ orderedTimers' = InsertAt(orderedTimers, p, t)
           /\ \A i \in 1..Len(orderedTimers) :
                /\ i < p => due[orderedTimers[i]] <= due[t]
                /\ i >= p => due[t] <= due[orderedTimers[i]]
           /\ \/ time' = [time EXCEPT ![t] = due[t] * Tick]
              \/ time' = [time EXCEPT ![t] = due[t] * Tick + 1]
<1> DEFINE L == Len(orderedTimers)
           n == due[t] * Tick
           S == {i \in DOMAIN orderedTimers : n <= time[orderedTimers[i]]}
           f == FirstNotEarlier(n)
<1>1. /\ L \in Nat /\ DOMAIN orderedTimers = 1..L /\ \A i \in 1..L : orderedTimers[i] \in Timer
      /\ due[t] \in Nat /\ Tick \in Nat /\ Tick >= 2 /\ n \in Nat
  BY Constants, Bumped DEF Typed
<1>2. \A i \in 1..L : /\ due[orderedTimers[i]] \in Nat
                      /\ i \in S <=> due[t] <= due[orderedTimers[i]]
                      /\ time[orderedTimers[i]] = n => due[t] = due[orderedTimers[i]]
  <2> SUFFICES ASSUME NEW i \in 1..L
               PROVE  /\ due[orderedTimers[i]] \in Nat
                      /\ n <= time[orderedTimers[i]] <=> due[t] <= due[orderedTimers[i]]
                      /\ time[orderedTimers[i]] = n => due[t] = due[orderedTimers[i]]
    BY <1>1
  <2> DEFINE d == due[orderedTimers[i]]
  <2>1. d \in Nat /\ \E x \in {0, 1} : time[orderedTimers[i]] = d * Tick + x
    <3>1. d \in Nat
      BY <1>1, Constants DEF Typed, Sorted
    <3>2. d * Tick \in Nat
      BY <1>1, <3>1, Bumped
    <3> QED
      BY <1>1, <3>1, <3>2 DEF Sorted
  <2>2. PICK x \in {0, 1} : time[orderedTimers[i]] = d * Tick + x
    BY <2>1
  <2>3. /\ due[t] * Tick <= d * Tick + x <=> due[t] <= d
        /\ due[t] * Tick = d * Tick + x => due[t] = d
    BY <1>1, <2>1, Bumped
  <2> QED
    BY <2>1, <2>2, <2>3
<1>3. S \subseteq Nat /\ S \subseteq 1..L
  BY <1>1
<1>4. /\ f \in 1..(L + 1)
      /\ \A i \in 1..L : i < f => i \notin S
      /\ f \in 1..L => f \in S
  <2>1. CASE S = {}
    BY <1>1, <2>1 DEF FirstNotEarlier
  <2>2. CASE S # {}
    <3>1. f = CHOOSE i \in S : \A k \in S : i <= k
      BY <2>2 DEF FirstNotEarlier
    <3>2. f \in S /\ \A k \in S : f <= k
      BY <1>3, <2>2, <3>1, Smallest
    <3> QED
      BY <1>1, <1>3, <3>2
  <2> QED
    BY <2>1, <2>2
<1>5. \A i, j \in 1..L : i < j => due[orderedTimers[i]] <= due[orderedTimers[j]]
  BY DEF Sorted
<1>6. \A i \in 1..L : i >= f => due[t] <= due[orderedTimers[i]]
  <2> SUFFICES ASSUME NEW i \in 1..L, i >= f PROVE due[t] <= due[orderedTimers[i]]
    OBVIOUS
  <2>1. f \in 1..L
    BY <1>1, <1>4
  <2>2. due[t] <= due[orderedTimers[f]]
    BY <1>2, <1>4, <2>1
  <2> QED
    BY <1>1, <1>2, <1>5, <2>1, <2>2
<1>7. \A i \in 1..L : i < f => due[orderedTimers[i]] <= due[t]
  BY <1>1, <1>2, <1>4
<1>8. CASE f <= L /\ time[orderedTimers[f]] = n
  <2>1. orderedTimers' = InsertAt(orderedTimers, f + 1, t) /\ time' = [time EXCEPT ![t] = n + 1]
    BY <1>8 DEF Insert
  <2>2. f \in 1..L /\ f + 1 \in 1..(L + 1) /\ due[orderedTimers[f]] = due[t]
    BY <1>1, <1>2, <1>4, <1>8
  <2>3. \A i \in 1..L : i < f + 1 => due[orderedTimers[i]] <= due[t]
    BY <1>1, <1>2, <1>7, <2>2
  <2>4. \A i \in 1..L : i >= f + 1 => due[t] <= due[orderedTimers[i]]
    BY <1>1, <1>6, <2>2
  <2> HIDE DEF f
  <2> QED
    BY <2>1, <2>2, <2>3, <2>4
<1>9. CASE ~(f <= L /\ time[orderedTimers[f]] = n)
  <2>1. orderedTimers' = InsertAt(orderedTimers, f, t) /\ time' = [time EXCEPT ![t] = n]
    BY <1>9 DEF Insert
  <2> HIDE DEF f
  <2> QED
    BY <1>4, <1>6, <1>7, <2>1
<1> QED
  BY <1>8, <1>9

LEMMA TimerInit == Init => TimerInv
<1> SUFFICES ASSUME Init PROVE TimerInv
  OBVIOUS
<1>1. Unarmed = {} /\ Popping = {} /\ Len(orderedTimers) = 0 /\ <<>> \in Seq(Timer)
  BY DEF Init, Unarmed, Popping
<1> QED
  BY <1>1, Constants, FS_EmptySet
     DEF Init, TimerInv, Typed, Made, Busy, Sorted, Covered, Counted, Timely, NeverEarly

(* The caller in the critical section is alone.                               *)
LEMMA UnarmedFacts ==
  ASSUME Made, lock = None \/ lock \in Caller
  PROVE  \A c \in Caller : pc[c] = "arm" => Unarmed = {c}
BY DEF Made, Unarmed

LEMMA CountFacts ==
  ASSUME TimerInv
  PROVE  /\ IsFiniteSet(armed) /\ Cardinality(armed) \in Nat
         /\ Cardinality(Unarmed) \in Nat /\ Cardinality(Popping) \in Nat
         /\ Len(orderedTimers) \in Nat
BY Constants, FS_Subset, FS_CardinalityType DEF TimerInv, Typed, Counted

(* What a step that touches neither the array nor what is made keeps.         *)
LEMMA KernelStep ==
  ASSUME TimerInv, Kernel
  PROVE  TimerInv'
<1>1. CASE PassTime
  <2>1. now' \in Nat /\ now <= now'
    BY <1>1 DEF PassTime, TimerInv, Typed
  <2>2. Typed' /\ Made' /\ Sorted' /\ Counted'
    BY <1>1, <2>1 DEF PassTime, callVars, signalVars, TimerInv, Typed, Made, Busy, Sorted, Counted,
                      Unarmed, Popping
  <2>3. \A t \in Timer : due[t] # None => due[t] \in Nat
    BY DEF TimerInv, Typed
  <2>4. Covered'
    <3>1. \A i \in 1..Len(orderedTimers) : orderedTimers[i] \in Timer /\ due[orderedTimers[i]] # None
      BY DEF TimerInv, Typed, Sorted
    <3>2. \A i \in 1..Len(orderedTimers) :
            due[orderedTimers[i]] <= now => due[orderedTimers[i]] <= now'
      BY <2>1, <2>3, <3>1 DEF TimerInv, Typed
    <3>3. UNCHANGED <<orderedTimers, due, armed, pc, arg>>
      BY <1>1 DEF PassTime, callVars
    <3> QED
      BY <3>2, <3>3 DEF TimerInv, Covered, ToCome, Unarmed
  <2>5. Timely'
    BY <1>1, <2>1, <2>3 DEF PassTime, signalVars, TimerInv, Typed, Timely, NeverEarly
  <2> QED
    BY <2>2, <2>4, <2>5 DEF TimerInv
<1>2. ASSUME NEW t \in Timer, Expire(t) PROVE TimerInv'
  <2>1. /\ t \in armed /\ due[t] <= now /\ armed' = armed \ {t} /\ alarms' = alarms + 1
        /\ UNCHANGED <<now, due, time, orderedTimers, lock, pc, arg, handler, popped, ranAt, aborted>>
    BY <1>2 DEF Expire, callVars, signalVars
  <2>2. Typed' /\ Made' /\ Sorted' /\ Timely'
    BY <2>1 DEF TimerInv, Typed, Made, Busy, Sorted, Timely, NeverEarly
  <2>3. Covered'
    BY <2>1 DEF TimerInv, Covered, ToCome, Unarmed
  <2>4. Unarmed' = Unarmed /\ Popping' = Popping
    BY <2>1 DEF Unarmed, Popping
  <2>5. Cardinality(armed') = Cardinality(armed) - 1
    BY <2>1, CountFacts, FS_RemoveElement
  <2>6. Counted'
    <3>1. alarms \in Nat
      BY DEF TimerInv, Typed
    <3> QED
      BY <2>1, <2>4, <2>5, <3>1, CountFacts DEF TimerInv, Counted
  <2> QED
    BY <2>2, <2>3, <2>6 DEF TimerInv
<1> QED
  BY <1>1, <1>2 DEF Kernel

LEMMA ReadClockStep ==
  ASSUME TimerInv, NEW c \in Caller, NEW t \in Timer, NEW d \in Delays, ReadClock(c, t, d)
  PROVE  TimerInv'
<1>1. /\ pc[c] = "idle" /\ due[t] = None /\ due' = [due EXCEPT ![t] = now + d]
      /\ pc' = [pc EXCEPT ![c] = "lock"] /\ arg' = [arg EXCEPT ![c] = t]
      /\ UNCHANGED <<now, time, orderedTimers, armed, alarms, lock, handler, popped, ranAt, aborted>>
  BY DEF ReadClock, At, signalVars
<1>2. now + d \in Nat /\ now + d # None
  BY Constants DEF TimerInv, Typed
<1>3. due' \in [Timer -> Nat \cup {None}] /\ due'[t] # None /\ \A x \in Timer : x # t => due'[x] = due[x]
  BY <1>1, <1>2 DEF TimerInv, Typed
<1>4. \A x \in Timer : due[x] # None => x # t /\ due'[x] = due[x]
  BY <1>1, <1>3
<1>5. \A i \in 1..Len(orderedTimers) : /\ orderedTimers[i] \in Timer /\ orderedTimers[i] # t
                                       /\ due'[orderedTimers[i]] = due[orderedTimers[i]]
  BY <1>4 DEF TimerInv, Typed, Sorted
<1>6. Typed'
  BY <1>1, <1>3 DEF TimerInv, Typed
<1>7. Made'
  <2>1. t \notin armed /\ \A x \in armed : x \in Timer /\ due'[x] # None
    BY <1>1, <1>4 DEF TimerInv, Typed, Made
  <2>2. \A x \in Caller : Busy(x) => x # c /\ arg[x] \in Timer /\ arg[x] # t /\ due'[arg[x]] # None
    BY <1>1, <1>4 DEF TimerInv, Made, Busy
  <2>3. /\ pc'[c] = "lock" /\ arg'[c] = t
        /\ \A x \in Caller : x # c => pc'[x] = pc[x] /\ arg'[x] = arg[x]
    BY <1>1 DEF TimerInv, Typed
  <2>4. lock # c
    BY <1>1 DEF TimerInv, Made
  <2>5. \A x \in Caller : pc'[x] \in {"arm", "unlock"} <=> lock' = x
    BY <1>1, <2>3, <2>4 DEF TimerInv, Made
  <2>6. \A x \in Caller : (pc'[x] # "idle") => arg'[x] \in Timer /\ due'[arg'[x]] # None
    BY <1>3, <2>2, <2>3 DEF Busy
  <2>7. \A x, y \in Caller : (pc'[x] # "idle") /\ (pc'[y] # "idle") /\ arg'[x] = arg'[y] => x = y
    BY <2>2, <2>3 DEF TimerInv, Made, Busy
  <2>8. \A x \in Caller : pc'[x] = "lock" => \A i \in 1..Len(orderedTimers) : orderedTimers[i] # arg'[x]
    BY <1>5, <2>3 DEF TimerInv, Made
  <2>9. \A x \in Caller : pc'[x] \in {"lock", "arm"} => arg'[x] \notin armed
    BY <2>1, <2>3 DEF TimerInv, Made
  <2> QED
    BY <1>1, <2>1, <2>5, <2>6, <2>7, <2>8, <2>9 DEF Made, Busy
<1>8. Sorted'
  BY <1>1, <1>5 DEF TimerInv, Sorted
<1>9. Covered'
  <2>1. ToCome' = ToCome
    BY <1>1 DEF TimerInv, Typed, ToCome, Unarmed
  <2> QED
    BY <1>1, <1>5, <2>1 DEF TimerInv, Covered
<1>10. Counted'
  <2>1. Unarmed' = Unarmed /\ Popping' = Popping
    BY <1>1 DEF TimerInv, Typed, Unarmed, Popping
  <2> QED
    BY <1>1, <2>1 DEF TimerInv, Counted
<1>11. Timely'
  BY <1>1, <1>4 DEF TimerInv, Timely, NeverEarly
<1> QED
  BY <1>6, <1>7, <1>8, <1>9, <1>10, <1>11 DEF TimerInv

LEMMA InsertStep ==
  ASSUME TimerInv, NEW c \in Caller, LockAndInsert(c)
  PROVE  TimerInv'
<1> DEFINE t == arg[c]
           L == Len(orderedTimers)
<1>1. /\ pc[c] = "lock" /\ lock = None /\ lock' = c /\ Insert(t)
      /\ pc' = [pc EXCEPT ![c] = "arm"]
      /\ UNCHANGED <<now, due, armed, alarms, arg, handler, popped, ranAt, aborted>>
  BY DEF LockAndInsert, At, signalVars
<1>2. /\ t \in Timer /\ due[t] # None /\ due[t] \in Nat /\ t \notin armed
      /\ \A i \in 1..L : orderedTimers[i] # t
  BY <1>1 DEF TimerInv, Typed, Made, Busy
<1>3. PICK p \in 1..(L + 1) :
        /\ orderedTimers' = InsertAt(orderedTimers, p, t)
        /\ \A i \in 1..L : /\ i < p => due[orderedTimers[i]] <= due[t]
                           /\ i >= p => due[t] <= due[orderedTimers[i]]
        /\ \/ time' = [time EXCEPT ![t] = due[t] * Tick]
           \/ time' = [time EXCEPT ![t] = due[t] * Tick + 1]
  BY <1>1, <1>2, InsertFacts DEF TimerInv
<1>4. L \in Nat /\ orderedTimers \in Seq(Timer) /\ \A i \in 1..L : orderedTimers[i] \in Timer
  BY DEF TimerInv, Typed
<1>5. /\ orderedTimers' \in Seq(Timer) /\ Len(orderedTimers') = L + 1
      /\ \A i \in 1..(L + 1) : orderedTimers'[i] = IF i < p THEN orderedTimers[i]
                                                   ELSE IF i = p THEN t ELSE orderedTimers[i - 1]
  <2>1. p \in 1..(Len(orderedTimers) + 1) /\ t \in Timer /\ orderedTimers \in Seq(Timer)
    BY <1>2, <1>3, <1>4
  <2> HIDE DEF t
  <2>2. /\ InsertAt(orderedTimers, p, t) \in Seq(Timer)
        /\ Len(InsertAt(orderedTimers, p, t)) = Len(orderedTimers) + 1
        /\ \A i \in 1..(Len(orderedTimers) + 1) :
             InsertAt(orderedTimers, p, t)[i] = IF i < p THEN orderedTimers[i]
                                                ELSE IF i = p THEN t ELSE orderedTimers[i - 1]
    BY <2>1, InsertAtFacts
  <2>3. orderedTimers' = InsertAt(orderedTimers, p, t)
    BY <1>3
  <2> QED
    BY <2>2, <2>3
<1> HIDE DEF t, L
<1>6. \A i \in 1..(L + 1) : /\ i < p => i \in 1..L
                            /\ i > p => i - 1 \in 1..L /\ i - 1 >= p
  BY <1>3, <1>4
<1>7. \A i \in 1..(L + 1) : i < p \/ i = p \/ i > p
  BY <1>3, <1>4
<1>8. /\ time' \in [Timer -> Nat]
      /\ \A x \in Timer : x # t => time'[x] = time[x]
      /\ (time'[t] = due[t] * Tick \/ time'[t] = due[t] * Tick + 1)
  <2>1. due[t] * Tick \in Nat
    BY <1>2, Constants
  <2>2. PICK v \in Nat : /\ time' = [time EXCEPT ![t] = v]
                         /\ v = due[t] * Tick \/ v = due[t] * Tick + 1
    BY <1>3, <2>1
  <2> QED
    BY <1>2, <2>2 DEF TimerInv, Typed
<1>9. /\ pc'[c] = "arm" /\ \A x \in Caller : x # c => pc'[x] = pc[x]
      /\ \A x \in Caller : pc[x] \notin {"arm", "unlock"}
  BY <1>1, Constants DEF TimerInv, Typed, Made
<1>10. Typed'
  BY <1>1, <1>5, <1>8 DEF TimerInv, Typed
<1>11. Made'
  <2>1. \A x \in Caller : pc'[x] \in {"arm", "unlock"} <=> lock' = x
    BY <1>1, <1>9
  <2>2. \A x \in Caller : pc'[x] # "idle" => Busy(x)
    BY <1>1, <1>9 DEF Busy
  <2>3. \A x \in Caller : pc'[x] = "lock" => \A i \in 1..(L + 1) : orderedTimers'[i] # arg[x]
    <3> SUFFICES ASSUME NEW x \in Caller, pc'[x] = "lock", NEW i \in 1..(L + 1)
                 PROVE  orderedTimers'[i] # arg[x]
      OBVIOUS
    <3>1. x # c /\ pc[x] = "lock"
      BY <1>9
    <3>2. arg[x] # t /\ \A k \in 1..L : orderedTimers[k] # arg[x]
      BY <1>1, <3>1 DEF TimerInv, Made, Busy, t, L
    <3> QED
      BY <1>5, <1>6, <1>7, <3>2
  <2>4. \A x \in Caller : pc'[x] \in {"lock", "arm"} => arg[x] \notin armed
    BY <1>2, <1>9 DEF TimerInv, Made, t
  <2> QED
    BY <1>1, <1>5, <2>1, <2>2, <2>3, <2>4 DEF TimerInv, Made, Busy
<1>12. Sorted'
  <2> SUFFICES ASSUME NEW i \in 1..(L + 1)
               PROVE  /\ due[orderedTimers'[i]] # None
                      /\ \/ time'[orderedTimers'[i]] = due[orderedTimers'[i]] * Tick
                         \/ time'[orderedTimers'[i]] = due[orderedTimers'[i]] * Tick + 1
                      /\ \A j \in 1..(L + 1) :
                           /\ i < j => due[orderedTimers'[i]] <= due[orderedTimers'[j]]
                           /\ orderedTimers'[i] = orderedTimers'[j] => i = j
    BY <1>1, <1>5 DEF Sorted
  <2>1. \A k \in 1..L : /\ due[orderedTimers[k]] # None /\ orderedTimers[k] # t
                        /\ orderedTimers[k] \in Timer
                        /\ \/ time'[orderedTimers[k]] = due[orderedTimers[k]] * Tick
                           \/ time'[orderedTimers[k]] = due[orderedTimers[k]] * Tick + 1
    BY <1>2, <1>4, <1>8 DEF TimerInv, Sorted, L
  <2>2. \A k, l \in 1..L : /\ k < l => due[orderedTimers[k]] <= due[orderedTimers[l]]
                           /\ orderedTimers[k] = orderedTimers[l] => k = l
    BY DEF TimerInv, Sorted, L
  <2>3. due[orderedTimers'[i]] # None
    BY <1>2, <1>5, <1>6, <1>7, <2>1
  <2>4. \/ time'[orderedTimers'[i]] = due[orderedTimers'[i]] * Tick
        \/ time'[orderedTimers'[i]] = due[orderedTimers'[i]] * Tick + 1
    <3>1. orderedTimers'[i] = t \/ \E k \in 1..L : orderedTimers'[i] = orderedTimers[k]
      BY <1>5, <1>6, <1>7
    <3>2. CASE orderedTimers'[i] = t
      BY <1>8, <3>2, Zenon
    <3>3. CASE \E k \in 1..L : orderedTimers'[i] = orderedTimers[k]
      BY <2>1, <3>3, Zenon
    <3> QED
      BY <3>1, <3>2, <3>3
  <2>5. ASSUME NEW j \in 1..(L + 1), i < j
        PROVE  due[orderedTimers'[i]] <= due[orderedTimers'[j]]
    <3>1. CASE j < p
      BY <1>5, <1>6, <2>2, <2>5, <3>1, <1>3, <1>4
    <3>2. CASE j = p
      BY <1>3, <1>4, <1>5, <1>6, <2>5, <3>2
    <3>3. CASE j > p /\ i < p
      <4>1. i < j - 1 \/ i = j - 1
        BY <2>5, <3>3, <1>3, <1>4
      <4>2. i \in 1..L /\ j - 1 \in 1..L /\ i < j - 1
        BY <1>6, <3>3, <4>1, <1>3, <1>4
      <4> QED
        BY <1>3, <1>4, <1>5, <2>2, <3>3, <4>2
    <3>4. CASE j > p /\ i = p
      BY <1>3, <1>4, <1>5, <1>6, <3>4
    <3>5. CASE j > p /\ i > p
      <4>1. i - 1 \in 1..L /\ j - 1 \in 1..L /\ i - 1 < j - 1
        BY <1>6, <2>5, <3>5, <1>3, <1>4
      <4>2. orderedTimers'[i] = orderedTimers[i - 1] /\ orderedTimers'[j] = orderedTimers[j - 1]
        BY <1>3, <1>4, <1>5, <3>5
      <4> QED
        BY <2>2, <4>1, <4>2
    <3> QED
      BY <1>7, <3>1, <3>2, <3>3, <3>4, <3>5
  <2>6. ASSUME NEW j \in 1..(L + 1), orderedTimers'[i] = orderedTimers'[j]
        PROVE  i = j
    <3> DEFINE g(k) == IF k < p THEN k ELSE k - 1
    <3>1. CASE i = p \/ j = p
      BY <1>3, <1>4, <1>5, <1>6, <1>7, <2>1, <2>6, <3>1
    <3>2. CASE i # p /\ j # p
      <4>1. /\ g(i) \in 1..L /\ g(j) \in 1..L
            /\ orderedTimers'[i] = orderedTimers[g(i)] /\ orderedTimers'[j] = orderedTimers[g(j)]
        BY <1>3, <1>4, <1>5, <1>6, <1>7, <3>2
      <4>2. g(i) = g(j)
        BY <2>2, <2>6, <4>1
      <4> QED
        BY <1>3, <1>4, <3>2, <4>2
    <3> QED
      BY <3>1, <3>2
  <2> QED
    BY <2>3, <2>4, <2>5, <2>6
<1>13. Covered'
  <2>1. t \in ToCome' /\ ToCome \subseteq ToCome'
    BY <1>1, <1>9 DEF ToCome, Unarmed, t
  <2>2. \A i \in 1..(L + 1) : due[orderedTimers'[i]] <= now \/ orderedTimers'[i] \in ToCome'
    <3> SUFFICES ASSUME NEW i \in 1..(L + 1)
                 PROVE  due[orderedTimers'[i]] <= now \/ orderedTimers'[i] \in ToCome'
      OBVIOUS
    <3>1. CASE i = p
      <4>1. orderedTimers'[i] = t
        BY <1>3, <1>4, <1>5, <3>1
      <4> QED
        BY <2>1, <4>1
    <3>2. CASE i # p
      <4>1. \E k \in 1..L : orderedTimers'[i] = orderedTimers[k]
        BY <1>3, <1>4, <1>5, <1>6, <1>7, <3>2
      <4> QED
        BY <2>1, <4>1 DEF TimerInv, Covered, L
    <3> QED
      BY <3>1, <3>2
  <2> QED
    BY <1>1, <1>5, <2>2 DEF Covered
<1>14. Counted'
  <2>1. Popping' = Popping /\ Unarmed = {} /\ Unarmed' = {c}
    BY <1>1, <1>9 DEF Unarmed, Popping
  <2>2. Cardinality(Unarmed) = 0 /\ Cardinality(Unarmed') = 1 /\ IsFiniteSet(Unarmed')
    BY <2>1, FS_EmptySet, FS_Singleton
  <2>3. alarms \in Nat
    BY DEF TimerInv, Typed
  <2> QED
    BY <1>1, <1>5, <2>1, <2>2, <2>3, CountFacts DEF TimerInv, Counted, L
<1>15. Timely'
  BY <1>1 DEF TimerInv, Timely, NeverEarly
<1> QED
  BY <1>10, <1>11, <1>12, <1>13, <1>14, <1>15 DEF TimerInv

LEMMA ArmStep ==
  ASSUME TimerInv, NEW c \in Caller, Arm(c)
  PROVE  TimerInv'
<1>1. /\ pc[c] = "arm" /\ armed' = armed \cup {arg[c]} /\ pc' = [pc EXCEPT ![c] = "unlock"]
      /\ UNCHANGED <<now, due, time, orderedTimers, alarms, lock, arg, handler, popped, ranAt, aborted>>
  BY DEF Arm, At, signalVars
<1>2. arg[c] \in Timer /\ due[arg[c]] # None /\ arg[c] \notin armed /\ lock = c
  BY <1>1 DEF TimerInv, Made, Busy
<1>3. /\ pc'[c] = "unlock" /\ \A x \in Caller : x # c => pc'[x] = pc[x]
      /\ \A x \in Caller : x # c => pc[x] \notin {"arm", "unlock"}
  BY <1>1, <1>2 DEF TimerInv, Typed, Made
<1>4. Unarmed = {c} /\ Unarmed' = {} /\ Popping' = Popping
  BY <1>1, <1>3 DEF Unarmed, Popping
<1>5. Typed' /\ Sorted' /\ Timely'
  BY <1>1, <1>2 DEF TimerInv, Typed, Sorted, Timely, NeverEarly
<1>6. Made'
  <2>1. \A x \in Caller : pc'[x] \in {"arm", "unlock"} <=> lock' = x
    BY <1>1, <1>2, <1>3 DEF TimerInv, Made
  <2>2. \A x \in Caller : pc'[x] # "idle" <=> Busy(x)
    BY <1>1, <1>3 DEF Busy
  <2>3. \A x \in Caller : pc'[x] = "lock" => pc[x] = "lock" /\ x # c
    BY <1>3
  <2>4. \A x \in Caller : pc'[x] \in {"lock", "arm"} => arg[x] \notin armed'
    BY <1>1, <1>3, <2>2 DEF TimerInv, Made, Busy
  <2> QED
    BY <1>1, <1>2, <2>1, <2>2, <2>3, <2>4 DEF TimerInv, Made, Busy
<1>7. Covered'
  <2>1. ToCome' = ToCome
    BY <1>1, <1>4 DEF ToCome
  <2> QED
    BY <1>1, <2>1 DEF TimerInv, Covered
<1>8. Counted'
  <2>1. Cardinality(armed') = Cardinality(armed) + 1
    BY <1>1, <1>2, CountFacts, FS_AddElement
  <2>2. Cardinality(Unarmed) = 1 /\ Cardinality(Unarmed') = 0 /\ IsFiniteSet(Unarmed')
    BY <1>4, FS_EmptySet, FS_Singleton
  <2>3. alarms \in Nat
    BY DEF TimerInv, Typed
  <2> QED
    BY <1>1, <1>4, <2>1, <2>2, <2>3, CountFacts DEF TimerInv, Counted
<1> QED
  BY <1>5, <1>6, <1>7, <1>8 DEF TimerInv

LEMMA UnlockStep ==
  ASSUME TimerInv, NEW c \in Caller, Unlock(c)
  PROVE  TimerInv'
<1>1. /\ pc[c] = "unlock" /\ lock' = None /\ pc' = [pc EXCEPT ![c] = "idle"]
      /\ arg' = [arg EXCEPT ![c] = None]
      /\ UNCHANGED <<now, due, time, orderedTimers, armed, alarms, handler, popped, ranAt, aborted>>
  BY DEF Unlock, At, signalVars
<1>2. lock = c
  BY <1>1 DEF TimerInv, Made
<1>3. /\ pc'[c] = "idle" /\ \A x \in Caller : x # c => pc'[x] = pc[x] /\ arg'[x] = arg[x]
      /\ \A x \in Caller : x # c => pc[x] \notin {"arm", "unlock"}
  BY <1>1, <1>2 DEF TimerInv, Typed, Made
<1>4. Unarmed' = Unarmed /\ Unarmed = {} /\ Popping' = Popping
  BY <1>1, <1>3 DEF Unarmed, Popping
<1>5. Typed' /\ Sorted' /\ Timely'
  BY <1>1 DEF TimerInv, Typed, Sorted, Timely, NeverEarly
<1>6. Made'
  BY <1>1, <1>3, Constants DEF TimerInv, Made, Busy
<1>7. Covered'
  <2>1. ToCome' = ToCome
    BY <1>1, <1>4 DEF ToCome
  <2> QED
    BY <1>1, <2>1 DEF TimerInv, Covered
<1>8. Counted'
  BY <1>1, <1>4 DEF TimerInv, Counted
<1> QED
  BY <1>5, <1>6, <1>7, <1>8 DEF TimerInv

LEMMA DeliverStep ==
  ASSUME TimerInv, NEW h \in Thread, Deliver(h)
  PROVE  TimerInv'
<1>1. /\ alarms > 0 /\ handler[h] = "none" /\ alarms' = alarms - 1
      /\ handler' = [handler EXCEPT ![h] = "lock"]
      /\ UNCHANGED <<now, due, time, orderedTimers, armed, lock, pc, arg, popped, ranAt, aborted>>
  BY DEF Deliver, callVars
<1>2. alarms \in Nat
  BY DEF TimerInv, Typed
<1>3. Typed' /\ Made' /\ Sorted' /\ Timely'
  BY <1>1, <1>2 DEF TimerInv, Typed, Made, Busy, Sorted, Timely, NeverEarly
<1>4. Unarmed' = Unarmed /\ Popping' = Popping \cup {h} /\ h \notin Popping
  BY <1>1 DEF TimerInv, Typed, Unarmed, Popping
<1>5. Covered'
  BY <1>1, <1>4 DEF TimerInv, Covered, ToCome
<1>6. Counted'
  <2>1. IsFiniteSet(Popping') /\ Cardinality(Popping') = Cardinality(Popping) + 1
    BY <1>4, FS_AddElement DEF TimerInv, Counted
  <2> QED
    BY <1>1, <1>2, <1>4, <2>1, CountFacts DEF TimerInv, Counted
<1> QED
  BY <1>3, <1>5, <1>6 DEF TimerInv

(* The handler finds a timer, and the first one is due: not all of them are   *)
(* still to come, because an alarm that has come is not, and the first is the *)
(* earliest.                                                                  *)
LEMMA FirstIsDue ==
  ASSUME TimerInv, Popping # {}
  PROVE  /\ orderedTimers # <<>>
         /\ due[orderedTimers[1]] <= now
<1> DEFINE L == Len(orderedTimers)
<1>1. Cardinality(Popping) >= 1
  BY CountFacts, FS_EmptySet DEF TimerInv, Counted
<1>2. /\ L \in Nat /\ L >= 1 /\ L > Cardinality(armed) + Cardinality(Unarmed)
      /\ orderedTimers \in Seq(Timer) /\ \A i \in 1..L : orderedTimers[i] \in Timer
  BY <1>1, CountFacts DEF TimerInv, Counted, Typed
<1>3. IsFiniteSet(ToCome) /\ Cardinality(ToCome) <= Cardinality(armed) + Cardinality(Unarmed)
      /\ Cardinality(ToCome) \in Nat
  <2>1. CASE Unarmed = {}
    <3>1. ToCome = armed
      BY <2>1 DEF ToCome
    <3> QED
      BY <3>1, CountFacts
  <2>2. CASE Unarmed # {}
    <3>1. PICK c \in Caller : pc[c] = "arm"
      BY <2>2 DEF Unarmed
    <3>2. lock = None \/ lock \in Caller
      BY DEF TimerInv, Typed
    <3>3. Unarmed = {c}
      BY <3>1, <3>2, UnarmedFacts DEF TimerInv
    <3>4. ToCome = armed \cup {arg[c]} /\ Cardinality(Unarmed) = 1
      BY <3>3, FS_Singleton DEF ToCome
    <3> QED
      <4>1. /\ IsFiniteSet(armed \cup {arg[c]})
            /\ Cardinality(armed \cup {arg[c]}) =
                 IF arg[c] \in armed THEN Cardinality(armed) ELSE Cardinality(armed) + 1
        BY CountFacts, FS_AddElement
      <4> QED
        BY <3>4, <4>1, CountFacts, FS_CardinalityType
  <2> QED
    BY <2>1, <2>2
<1>4. \E i \in 1..L : orderedTimers[i] \notin ToCome
  <2> SUFFICES ASSUME \A i \in 1..L : orderedTimers[i] \in ToCome PROVE FALSE
    OBVIOUS
  <2> DEFINE g == [i \in 1..L |-> orderedTimers[i]]
  <2>1. g \in [1..L -> ToCome]
    OBVIOUS
  <2>2. IsFiniteSet(1..L) /\ Cardinality(1..L) = L
    BY <1>2, FS_Interval
  <2>3. \E x, y \in 1..L : x # y /\ g[x] = g[y]
    <3> HIDE DEF g, L
    <3> QED
      BY <1>2, <1>3, <2>1, <2>2, CountFacts, FS_PigeonHole
  <2> QED
    BY <2>3 DEF TimerInv, Sorted
<1>5. PICK i \in 1..L : due[orderedTimers[i]] <= now
  BY <1>4 DEF TimerInv, Covered
<1>6. 1 \in 1..L /\ i \in Nat /\ (1 < i \/ i = 1)
  BY <1>2
<1>7. \A k \in 1..L : due[orderedTimers[k]] \in Nat
  BY <1>2 DEF TimerInv, Typed, Sorted
<1>8. 1 < i => due[orderedTimers[1]] <= due[orderedTimers[i]]
  BY <1>6 DEF TimerInv, Sorted
<1>9. now \in Nat
  BY DEF TimerInv, Typed
<1>10. due[orderedTimers[1]] <= now
  BY <1>5, <1>6, <1>7, <1>8, <1>9
<1> QED
  BY <1>2, <1>10

LEMMA PopStep ==
  ASSUME TimerInv, NEW h \in Thread, PopFirst(h)
  PROVE  TimerInv'
<1> DEFINE L == Len(orderedTimers)
<1>1. handler[h] = "lock" /\ h \in Popping
  BY DEF PopFirst, Popping
<1>2. orderedTimers # <<>> /\ due[orderedTimers[1]] <= now
  BY <1>1, FirstIsDue
<1>3. /\ popped' = [popped EXCEPT ![h] = Head(orderedTimers)]
      /\ orderedTimers' = Tail(orderedTimers)
      /\ handler' = [handler EXCEPT ![h] = "dispatch"]
      /\ UNCHANGED <<now, due, time, armed, alarms, lock, pc, arg, ranAt, aborted>>
  BY <1>2 DEF PopFirst, callVars
<1>4. orderedTimers \in Seq(Timer) /\ L \in Nat
  BY DEF TimerInv, Typed
<1>5. /\ Head(orderedTimers) = orderedTimers[1] /\ Head(orderedTimers) \in Timer /\ 1 \in 1..L
      /\ orderedTimers' \in Seq(Timer) /\ Len(orderedTimers') = L - 1
      /\ \A i \in 1..(L - 1) : orderedTimers'[i] = orderedTimers[i + 1]
  BY <1>2, <1>3, <1>4, HeadTailProperties, EmptySeq
<1>6. \A i \in 1..(L - 1) : i + 1 \in 1..L
  BY <1>4
<1> HIDE DEF L
<1>7. Typed'
  BY <1>3, <1>5 DEF TimerInv, Typed
<1>8. Made'
  BY <1>3, <1>5, <1>6 DEF TimerInv, Made, Busy, L
<1>9. Sorted'
  <2>1. \A i, j \in 1..(L - 1) : /\ i < j => i + 1 < j + 1
                                 /\ i + 1 = j + 1 => i = j
    BY <1>4
  <2>2. ASSUME NEW i \in 1..(L - 1)
        PROVE  /\ due[orderedTimers[i + 1]] # None
               /\ \/ time[orderedTimers[i + 1]] = due[orderedTimers[i + 1]] * Tick
                  \/ time[orderedTimers[i + 1]] = due[orderedTimers[i + 1]] * Tick + 1
               /\ \A j \in 1..(L - 1) :
                    /\ i < j => due[orderedTimers[i + 1]] <= due[orderedTimers[j + 1]]
                    /\ orderedTimers[i + 1] = orderedTimers[j + 1] => i = j
    BY <1>6, <2>1 DEF TimerInv, Sorted, L
  <2> QED
    <3>1. ASSUME NEW i \in 1..Len(orderedTimers')
          PROVE  i \in 1..(L - 1) /\ orderedTimers'[i] = orderedTimers[i + 1]
      BY <1>5
    <3>2. ASSUME NEW i \in 1..Len(orderedTimers')
          PROVE  /\ due[orderedTimers'[i]] # None
                 /\ \/ time[orderedTimers'[i]] = due[orderedTimers'[i]] * Tick
                    \/ time[orderedTimers'[i]] = due[orderedTimers'[i]] * Tick + 1
                 /\ \A j \in 1..Len(orderedTimers') :
                      /\ i < j => due[orderedTimers'[i]] <= due[orderedTimers'[j]]
                      /\ orderedTimers'[i] = orderedTimers'[j] => i = j
      <4>1. i \in 1..(L - 1) /\ orderedTimers'[i] = orderedTimers[i + 1]
        BY <3>1
      <4>2. \A j \in 1..Len(orderedTimers') :
              j \in 1..(L - 1) /\ orderedTimers'[j] = orderedTimers[j + 1]
        BY <3>1
      <4>3. /\ due[orderedTimers[i + 1]] # None
            /\ (\/ time[orderedTimers[i + 1]] = due[orderedTimers[i + 1]] * Tick
                \/ time[orderedTimers[i + 1]] = due[orderedTimers[i + 1]] * Tick + 1)
        BY <2>2, <4>1
      <4>4. ASSUME NEW j \in 1..Len(orderedTimers')
            PROVE  /\ i < j => due[orderedTimers'[i]] <= due[orderedTimers'[j]]
                   /\ orderedTimers'[i] = orderedTimers'[j] => i = j
        BY <2>2, <4>1, <4>2
      <4> QED
        BY <4>1, <4>3, <4>4, Zenon
    <3> QED
      BY <1>3, <3>2 DEF Sorted
<1>10. Unarmed' = Unarmed /\ Popping' = Popping \ {h}
  BY <1>3 DEF TimerInv, Typed, Unarmed, Popping
<1>11. Covered'
  <2>1. ToCome' = ToCome
    BY <1>3, <1>10 DEF ToCome
  <2> QED
    BY <1>3, <1>5, <1>6, <2>1 DEF TimerInv, Covered, L
<1>12. Counted'
  <2>1. IsFiniteSet(Popping') /\ Cardinality(Popping') = Cardinality(Popping) - 1
    BY <1>1, <1>10, FS_RemoveElement DEF TimerInv, Counted
  <2>2. alarms \in Nat
    BY DEF TimerInv, Typed
  <2> QED
    BY <1>3, <1>4, <1>5, <1>10, <2>1, <2>2, CountFacts DEF TimerInv, Counted, L
<1>13. Timely'
  <2>1. due[orderedTimers[1]] # None
    BY <1>5 DEF TimerInv, Sorted, L
  <2>2. popped'[h] = orderedTimers[1] /\ orderedTimers[1] \in Timer
    BY <1>3, <1>5 DEF TimerInv, Typed
  <2>3. \A x \in Thread : x # h => popped'[x] = popped[x] /\ handler'[x] = handler[x]
    BY <1>3 DEF TimerInv, Typed
  <2> QED
    BY <1>2, <1>3, <2>1, <2>2, <2>3 DEF TimerInv, Timely, NeverEarly
<1> QED
  BY <1>7, <1>8, <1>9, <1>11, <1>12, <1>13 DEF TimerInv

LEMMA DispatchStep ==
  ASSUME TimerInv, NEW h \in Thread, DispatchTimer(h)
  PROVE  TimerInv'
<1>1. /\ handler[h] = "dispatch" /\ ranAt' = [ranAt EXCEPT ![popped[h]] = now]
      /\ handler' = [handler EXCEPT ![h] = "none"] /\ popped' = [popped EXCEPT ![h] = None]
      /\ UNCHANGED <<now, due, time, orderedTimers, armed, alarms, lock, pc, arg, aborted>>
  BY DEF DispatchTimer, callVars
<1>2. popped[h] \in Timer /\ due[popped[h]] # None /\ due[popped[h]] <= now
  BY <1>1 DEF TimerInv, Timely
<1>3. Typed' /\ Made' /\ Sorted'
  BY <1>1, <1>2 DEF TimerInv, Typed, Made, Busy, Sorted
<1>4. Unarmed' = Unarmed /\ Popping' = Popping
  BY <1>1 DEF TimerInv, Typed, Unarmed, Popping
<1>5. Covered' /\ Counted'
  BY <1>1, <1>4 DEF TimerInv, Covered, ToCome, Counted
<1>6. Timely'
  <2>1. now \in Nat /\ due[popped[h]] \in Nat
    BY <1>2 DEF TimerInv, Typed
  <2>2. \A t \in Timer : ranAt'[t] = ranAt[t] \/ (t = popped[h] /\ ranAt'[t] = now)
    BY <1>1, <1>2 DEF TimerInv, Typed
  <2>3. NeverEarly'
    BY <1>1, <1>2, <2>1, <2>2 DEF TimerInv, Timely, NeverEarly
  <2> QED
    BY <1>1, <2>3 DEF TimerInv, Typed, Timely
<1> QED
  BY <1>3, <1>5, <1>6 DEF TimerInv

LEMMA TimerInvariant == Spec => []TimerInv
<1>1. ASSUME TimerInv, [Next]_vars PROVE TimerInv'
  <2>1. CASE UNCHANGED vars
    <3>1. Typed' /\ Made' /\ Sorted'
      BY <1>1, <2>1 DEF vars, callVars, signalVars, TimerInv, Typed, Made, Busy, Sorted
    <3>2. Unarmed' = Unarmed /\ Popping' = Popping
      BY <2>1 DEF vars, callVars, signalVars, Unarmed, Popping
    <3>3. Covered' /\ Counted' /\ Timely'
      BY <1>1, <2>1, <3>2
         DEF vars, callVars, signalVars, TimerInv, Covered, ToCome, Counted, Timely, NeverEarly
    <3> QED
      BY <3>1, <3>3 DEF TimerInv
  <2> QED
    BY <1>1, <2>1, KernelStep, ReadClockStep, InsertStep, ArmStep, UnlockStep, DeliverStep,
       PopStep, DispatchStep DEF Next, Calling, Handling
<1> QED
  BY <1>1, TimerInit, PTL DEF Spec

(* No dispatch is handed to its queue before its time, whichever alarm the    *)
(* handler answers and whatever was inserted since it was sent.               *)
THEOREM NeverEarlyCorrect == Spec => []NeverEarly
<1>1. TimerInv => NeverEarly
  BY DEF TimerInv, Timely
<1> QED
  BY <1>1, TimerInvariant, PTL

(* Each timer in the array has an alarm to come, and no alarm finds the array *)
(* empty.                                                                     *)
THEOREM TimersCorrect == Spec => []NoTimerStranded
<1>1. ASSUME TimerInv PROVE NoTimerStranded
  <2> DEFINE L == Len(orderedTimers)
             S == ToSet(orderedTimers)
             g == [i \in 1..L |-> orderedTimers[i]]
  <2>1. L \in Nat /\ DOMAIN orderedTimers = 1..L
    BY <1>1 DEF TimerInv, Typed
  <2>2. S = {orderedTimers[i] : i \in 1..L}
    BY <2>1 DEF ToSet
  <2>3. g \in Surjection(1..L, S) /\ g \in Injection(1..L, S)
    <3>1. g \in [1..L -> S]
      BY <2>2
    <3>2. \A s \in S : \E i \in 1..L : g[i] = s
      BY <2>2
    <3>3. \A i, j \in 1..L : g[i] = g[j] => i = j
      BY <1>1 DEF TimerInv, Sorted
    <3> QED
      BY <3>1, <3>2, <3>3 DEF Surjection, Injection, IsInjective
  <2>4. IsFiniteSet(1..L) /\ Cardinality(1..L) = L
    <3>1. 1 \in Int /\ L \in Int /\ (IF 1 > L THEN 0 ELSE L - 1 + 1) = L
      BY <2>1
    <3> HIDE DEF L
    <3> QED
      BY <3>1, FS_Interval
  <2>5. Cardinality(S) = L
    <3> HIDE DEF L, S, g
    <3> QED
      BY <2>3, <2>4, FS_Surjection
  <2> QED
    BY <1>1, <2>5 DEF TimerInv, Counted, NoTimerStranded
<1> QED
  BY <1>1, TimerInvariant, PTL
=============================================================================
