--------------------------- MODULE DispatchTimer ---------------------------
(* YMDispatchAfter on the POSIX builds.  A timer is put in an array ordered   *)
(* by time and a kernel timer is armed for it; when one expires the process   *)
(* gets a SIGALRM, and whichever thread it interrupts dispatches the first    *)
(* timer of the array, without knowing which kernel timer it was.  Both sides *)
(* take gDispatch->lock, a mutex that is not recursive.  A kernel timer sends *)
(* one signal, kept apart from those of other timers as Linux keeps them.     *)
(*                                                                            *)
(* Time passes in ticks.  A timer whose time is taken is moved by a           *)
(* nanosecond; a tick is more nanoseconds than there are timers.              *)
EXTENDS Naturals, Sequences, FiniteSets, SequencesExt

CONSTANTS
  Timer,        \* the calls to YMDispatchAfter
  Caller,       \* the threads that make them
  Bystander,    \* threads that never make one, and may be interrupted all the same
  None,         \* nobody
  Delays,       \* the delays that are asked for
  MaxTime       \* bound: the clock stops there

ASSUME TimerAssumption ==
  /\ IsFiniteSet(Timer) /\ Caller \cap Bystander = {}
  /\ None \notin Caller \cup Timer \cup Nat
  /\ Delays \subseteq Nat /\ MaxTime \in Nat

Thread == Caller \cup Bystander
Tick   == Cardinality(Timer) + 1        \* nanoseconds in a tick

VARIABLES
  now,            \* the clock
  due,            \* when a timer is to run, as asked for and as armed
  time,           \* its place in the array's order, in nanoseconds
  orderedTimers,  \* gDispatch->orderedTimers
  armed,          \* kernel timers that have still to expire
  alarms,         \* SIGALRMs sent and not yet delivered
  lock,           \* who holds gDispatch->lock
  pc,             \* where a caller is in YMDispatchAfter
  arg,            \* the timer it makes
  handler,        \* where a thread is in __ym_dispatch_sigalarm, if it is in it
  popped,         \* the timer its handler took
  ranAt,          \* when a timer's dispatch was handed to its queue
  aborted         \* the handler found no timer

vars == <<now, due, time, orderedTimers, armed, alarms, lock, pc, arg, handler,
          popped, ranAt, aborted>>
callVars   == <<pc, arg>>
signalVars == <<handler, popped>>

TypeOK ==
  /\ now \in 0..MaxTime
  /\ due \in [Timer -> Nat \cup {None}] /\ time \in [Timer -> Nat]
  /\ orderedTimers \in Seq(Timer) /\ armed \subseteq Timer
  /\ alarms \in 0..Cardinality(Timer)
  /\ lock \in Caller \cup {None}
  /\ pc \in [Caller -> {"idle", "lock", "arm", "unlock"}]
  /\ arg \in [Caller -> Timer \cup {None}]
  /\ handler \in [Thread -> {"none", "lock", "dispatch"}]
  /\ popped \in [Thread -> Timer \cup {None}]
  /\ ranAt \in [Timer -> (0..MaxTime) \cup {None}]
  /\ aborted \in BOOLEAN

Init ==
  /\ now = 0 /\ due = [t \in Timer |-> None] /\ time = [t \in Timer |-> 0]
  /\ orderedTimers = <<>> /\ armed = {} /\ alarms = 0 /\ lock = None
  /\ pc = [c \in Caller |-> "idle"] /\ arg = [c \in Caller |-> None]
  /\ handler = [h \in Thread |-> "none"] /\ popped = [h \in Thread |-> None]
  /\ ranAt = [t \in Timer |-> None] /\ aborted = FALSE

-----------------------------------------------------------------------------
(* The clock and the kernel timers.                                           *)

PassTime ==
  /\ now < MaxTime /\ now' = now + 1
  /\ UNCHANGED <<due, time, orderedTimers, armed, alarms, lock, callVars, signalVars,
                 ranAt, aborted>>

Expire(t) ==
  /\ t \in armed /\ due[t] <= now
  /\ armed' = armed \ {t} /\ alarms' = alarms + 1
  /\ UNCHANGED <<now, due, time, orderedTimers, lock, callVars, signalVars, ranAt, aborted>>

-----------------------------------------------------------------------------
(* YMDispatchAfter.  A thread that is in the handler does not go on with what *)
(* it was interrupted in.                                                     *)

At(c, p) == pc[c] = p /\ handler[c] = "none" /\ ~aborted

(* The deadline is computed before the lock is taken.                         *)
ReadClock(c, t, d) ==
  /\ At(c, "idle") /\ due[t] = None
  /\ due' = [due EXCEPT ![t] = now + d]
  /\ pc' = [pc EXCEPT ![c] = "lock"] /\ arg' = [arg EXCEPT ![c] = t]
  /\ UNCHANGED <<now, time, orderedTimers, armed, alarms, lock, signalVars, ranAt, aborted>>

(* The new timer goes before the first later one; if one with the same time   *)
(* comes first, it goes right behind that one, a nanosecond later.            *)
FirstNotEarlier(n) ==
  LET S == {i \in DOMAIN orderedTimers : n <= time[orderedTimers[i]]}
  IN  IF S = {} THEN Len(orderedTimers) + 1
      ELSE CHOOSE i \in S : \A k \in S : i <= k

(* Mutant: the new timer goes to the end.                                     *)
InsertLast(t) ==
  /\ orderedTimers' = Append(orderedTimers, t)
  /\ time' = [time EXCEPT ![t] = due[t] * Tick]

(* Mutant: a timer with a time that is taken replaces the one that has it.    *)
InsertOver(t) ==
  LET n == due[t] * Tick
      i == FirstNotEarlier(n)
  IN  IF i <= Len(orderedTimers) /\ time[orderedTimers[i]] = n
        THEN /\ orderedTimers' = [orderedTimers EXCEPT ![i] = t]
             /\ time' = [time EXCEPT ![t] = n + 1]
        ELSE /\ orderedTimers' = InsertAt(orderedTimers, i, t)
             /\ time' = [time EXCEPT ![t] = n]

Insert(t) ==
  LET n == due[t] * Tick
      i == FirstNotEarlier(n)
  IN  IF i <= Len(orderedTimers) /\ time[orderedTimers[i]] = n
        THEN /\ orderedTimers' = InsertAt(orderedTimers, i + 1, t)
             /\ time' = [time EXCEPT ![t] = n + 1]
        ELSE /\ orderedTimers' = InsertAt(orderedTimers, i, t)
             /\ time' = [time EXCEPT ![t] = n]

LockAndInsert(c) ==
  /\ At(c, "lock") /\ lock = None
  /\ lock' = c /\ Insert(arg[c])
  /\ pc' = [pc EXCEPT ![c] = "arm"]
  /\ UNCHANGED <<now, due, armed, alarms, arg, signalVars, ranAt, aborted>>

Arm(c) ==
  /\ At(c, "arm")
  /\ armed' = armed \cup {arg[c]}
  /\ pc' = [pc EXCEPT ![c] = "unlock"]
  /\ UNCHANGED <<now, due, time, orderedTimers, alarms, lock, arg, signalVars, ranAt, aborted>>

Unlock(c) ==
  /\ At(c, "unlock")
  /\ lock' = None
  /\ pc' = [pc EXCEPT ![c] = "idle"] /\ arg' = [arg EXCEPT ![c] = None]
  /\ UNCHANGED <<now, due, time, orderedTimers, armed, alarms, signalVars, ranAt, aborted>>

-----------------------------------------------------------------------------
(* __ym_dispatch_sigalarm, in any thread that is not in it already.           *)

Deliver(h) ==
  /\ alarms > 0 /\ handler[h] = "none" /\ ~aborted
  /\ alarms' = alarms - 1
  /\ handler' = [handler EXCEPT ![h] = "lock"]
  /\ UNCHANGED <<now, due, time, orderedTimers, armed, lock, callVars, popped, ranAt, aborted>>

(* The interrupted thread may be the one that holds the lock: it then waits   *)
(* for itself.                                                                *)
PopFirst(h) ==
  /\ handler[h] = "lock" /\ lock = None /\ ~aborted
  /\ IF orderedTimers = <<>>
       THEN aborted' = TRUE /\ UNCHANGED <<orderedTimers, signalVars>>
       ELSE /\ popped' = [popped EXCEPT ![h] = Head(orderedTimers)]
            /\ orderedTimers' = Tail(orderedTimers)
            /\ handler' = [handler EXCEPT ![h] = "dispatch"]
            /\ UNCHANGED aborted
  /\ UNCHANGED <<now, due, time, armed, alarms, lock, callVars, ranAt>>

DispatchTimer(h) ==
  /\ handler[h] = "dispatch" /\ ~aborted
  /\ ranAt' = [ranAt EXCEPT ![popped[h]] = now]
  /\ handler' = [handler EXCEPT ![h] = "none"]
  /\ popped' = [popped EXCEPT ![h] = None]
  /\ UNCHANGED <<now, due, time, orderedTimers, armed, alarms, lock, callVars, aborted>>

-----------------------------------------------------------------------------
Kernel == PassTime \/ \E t \in Timer : Expire(t)
Calling(c) == (\E t \in Timer, d \in Delays : ReadClock(c, t, d))
                \/ LockAndInsert(c) \/ Arm(c) \/ Unlock(c)
Handling(h) == Deliver(h) \/ PopFirst(h) \/ DispatchTimer(h)

Next == Kernel \/ (\E c \in Caller : Calling(c)) \/ (\E h \in Thread : Handling(h))

Spec == Init /\ [][Next]_vars

-----------------------------------------------------------------------------
(* No dispatch is handed to its queue before the time asked for, although the *)
(* handler takes the first timer whatever alarm woke it, and a caller may     *)
(* insert one with an earlier deadline between an alarm and its handler       *)
(* (YMDispatch.c l.597).                                                      *)
NeverEarly == \A t \in Timer : ranAt[t] # None => due[t] # None /\ ranAt[t] >= due[t]

(* As many alarms are still to come as timers are in the array, each of them  *)
(* there once: none is stranded with nothing left to run it (l.544, 598), and *)
(* no alarm finds the array empty, where the handler aborts (l.592).          *)
Unarmed == {c \in Caller : pc[c] = "arm"}
Popping == {h \in Thread : handler[h] = "lock"}
NoTimerStranded ==
  /\ ~aborted
  /\ Len(orderedTimers) =
       Cardinality(armed) + alarms + Cardinality(Unarmed) + Cardinality(Popping)
  /\ Cardinality(ToSet(orderedTimers)) = Len(orderedTimers)
=============================================================================
