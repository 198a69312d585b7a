------------------------- MODULE DispatchQueueProofs -------------------------
(***************************************************************************)
(* Theorems about DispatchQueue, for any number of clients, service        *)
(* threads and dispatches.                                                 *)
(***************************************************************************)
EXTENDS DispatchQueue, SequenceTheorems, FiniteSetTheorems, TLAPS

(* A thread inside YMDispatchAsync or YMDispatchSync, and a service thread    *)
(* with a dispatch in its hands.                                              *)
InCall == {"expand", "append", "signal", "await"}
Holding == {"begin", "run", "finalize", "notify"}

(* What the type invariant needs to be inductive: threads have a dispatch     *)
(* where the code uses one.                                                   *)
Equipped ==
  /\ \A t \in Threads : cpc[t] \in InCall => arg[t] \in Jobs
  /\ \A w \in Workers : wpc[w] \in Holding => cur[w] \in Jobs

TypeInv == TypeOK /\ Equipped

LEMMA NoneFresh == None \notin Jobs /\ Workers \subseteq Threads /\ Clients \subseteq Threads
BY DispatchAssumption DEF DispatchAssumption, Threads

LEMMA TypeInit == Init => TypeInv
<1> SUFFICES ASSUME Init PROVE TypeOK /\ Equipped
  BY DEF TypeInv
<1> USE DispatchAssumption, NoneFresh DEF DispatchAssumption, Init
<1>1. TypeOK
  <2>1. wpc \in [Workers -> WorkerPC] /\ cpc \in [Threads -> CallPC]
    BY DEF WorkerPC, CallPC
  <2>2. mode \in [Jobs -> Modes \cup {"new"}] /\ sem \in [Jobs -> Nat]
    OBVIOUS
  <2>3. lock \in Clients \cup {None} /\ queueStack \in Seq(Jobs) /\ queueThreads \in SUBSET Workers
    OBVIOUS
  <2>4. appended \in Seq(Jobs) /\ started \in Seq(Jobs)
    OBVIOUS
  <2> QED
    BY <2>1, <2>2, <2>3, <2>4 DEF TypeOK
<1>2. Equipped
  BY DEF Equipped, InCall, Holding
<1> QED
  BY <1>1, <1>2

LEMMA TypeStep == TypeInv /\ [Next]_vars => TypeInv'
<1> SUFFICES ASSUME TypeInv, [Next]_vars PROVE TypeInv'
  OBVIOUS
<1> USE NoneFresh DEF TypeInv, TypeOK, Equipped, WorkerPC, CallPC, InCall, Holding, Modes,
      CallStep, WorkStep, semVars, workerVars, callVars, history
<1>1. ASSUME NEW t \in Threads, NEW j \in Jobs, NEW m \in Modes, Submit(t, j, m)
      PROVE TypeInv'
  BY <1>1 DEF Submit
<1>2. ASSUME NEW t \in Threads, CheckExpand(t) PROVE TypeInv'
  <2>1. CASE NeedsThread
    <3>1. PICK v \in Workers : /\ wpc' = [wpc EXCEPT ![v] = "wait"]
                              /\ queueThreads' = queueThreads \cup {v}
      BY <1>2, <2>1 DEF CheckExpand
    <3> QED
      BY <1>2, <3>1 DEF CheckExpand
  <2>2. CASE ~NeedsThread
    BY <1>2, <2>2 DEF CheckExpand
  <2> QED
    BY <2>1, <2>2
<1>3. ASSUME NEW t \in Threads, AppendJob(t) PROVE TypeInv'
  BY <1>3 DEF AppendJob
<1>4. ASSUME NEW t \in Threads, SignalQueue(t) PROVE TypeInv'
  BY <1>4 DEF SignalQueue
<1>5. ASSUME NEW t \in Threads, AwaitSync(t) PROVE TypeInv'
  BY <1>5 DEF AwaitSync
<1>6. ASSUME NEW t \in Clients, ReleaseQueue(t) PROVE TypeInv'
  BY <1>6 DEF ReleaseQueue
<1>7. ASSUME NEW t \in Clients, ExitSignal(t) PROVE TypeInv'
  BY <1>7 DEF ExitSignal
<1>8. ASSUME NEW t \in Clients, ExitWait(t) PROVE TypeInv'
  BY <1>8 DEF ExitWait
<1>9. ASSUME NEW t \in Clients, ExitDone(t) PROVE TypeInv'
  BY <1>9 DEF ExitDone
<1>10. ASSUME NEW w \in Workers, Wake(w) PROVE TypeInv'
  BY <1>10 DEF Wake
<1>11. ASSUME NEW w \in Workers, CheckExit(w) PROVE TypeInv'
  BY <1>11 DEF CheckExit
<1>12. ASSUME NEW w \in Workers, TakeJob(w) PROVE TypeInv'
  BY <1>12 DEF TakeJob
<1>13. ASSUME NEW w \in Workers, BeginProc(w) PROVE TypeInv'
  BY <1>13 DEF BeginProc
<1>14. ASSUME NEW w \in Workers, EndProc(w) PROVE TypeInv'
  BY <1>14 DEF EndProc
<1>15. ASSUME NEW w \in Workers, Finalize(w) PROVE TypeInv'
  BY <1>15 DEF Finalize
<1>16. ASSUME NEW w \in Workers, Notify(w) PROVE TypeInv'
  <2>1. wpc[w] = "notify" /\ cur[w] \in Jobs
    BY <1>16 DEF Notify
  <2>2. sem' \in [Jobs -> Nat] /\ freed' \in SUBSET Jobs
    <3>1. CASE mode[cur[w]] = "sync"
      BY <1>16, <2>1, <3>1 DEF Notify
    <3>2. CASE mode[cur[w]] # "sync"
      BY <1>16, <2>1, <3>2 DEF Notify
    <3> QED
      BY <3>1, <3>2
  <2>3. Equipped'
    BY <1>16 DEF Notify
  <2>4. TypeOK'
    BY <1>16, <2>2 DEF Notify
  <2> QED
    BY <2>3, <2>4
<1>17. ASSUME NEW w \in Workers, Leave(w) PROVE TypeInv'
  BY <1>17 DEF Leave
<1>18. CASE UNCHANGED vars
  BY <1>18 DEF vars
<1> HIDE DEF TypeInv
<1> QED
  BY <1>1, <1>2, <1>3, <1>4, <1>5, <1>6, <1>7, <1>8, <1>9, <1>10, <1>11, <1>12,
     <1>13, <1>14, <1>15, <1>16, <1>17, <1>18
  DEF Next, Calling, Releasing, Serving

(* The type invariant holds of every behaviour of the queue.                  *)
THEOREM TypeCorrect == Spec => []TypeOK
<1>1. TypeInv => TypeOK
  BY DEF TypeInv
<1> QED
  BY <1>1, TypeInit, TypeStep, PTL DEF Spec
-----------------------------------------------------------------------------
(* Order.                                                                     *)

(* Appending to the waiting dispatches appends to the whole history.          *)
LEMMA AppendToSuffix ==
  ASSUME NEW s \in Seq(Jobs), NEW q \in Seq(Jobs), NEW e \in Jobs
  PROVE  Append(s \o q, e) = s \o Append(q, e)
OBVIOUS

(* Moving the head of the waiting dispatches to the end of the started ones   *)
(* leaves the whole history alone.                                            *)
LEMMA MoveHead ==
  ASSUME NEW s \in Seq(Jobs), NEW q \in Seq(Jobs), q # <<>>
  PROVE  Append(s, Head(q)) \o Tail(q) = s \o q
OBVIOUS

LEMMA OrderStep == TypeInv /\ TakenInOrder /\ [Next]_vars => TakenInOrder'
<1> SUFFICES ASSUME TypeInv, TakenInOrder, [Next]_vars PROVE TakenInOrder'
  OBVIOUS
<1> USE DEF TakenInOrder
<1>1. queueStack \in Seq(Jobs) /\ started \in Seq(Jobs)
  BY DEF TypeInv, TypeOK
<1>2. ASSUME NEW t \in Threads, AppendJob(t) PROVE TakenInOrder'
  <2>1. arg[t] \in Jobs
    BY <1>2 DEF AppendJob, CallStep, TypeInv, Equipped, InCall
  <2>2. Append(started \o queueStack, arg[t]) = started \o Append(queueStack, arg[t])
    BY <1>1, <2>1, AppendToSuffix
  <2> QED
    BY <1>2, <2>2 DEF AppendJob
<1>3. ASSUME NEW w \in Workers, TakeJob(w) PROVE TakenInOrder'
  <2>1. queueStack # <<>> => Append(started, Head(queueStack)) \o Tail(queueStack)
                               = started \o queueStack
    BY <1>1, MoveHead
  <2> QED
    BY <1>3, <2>1 DEF TakeJob
<1>4. ASSUME UNCHANGED <<appended, started, queueStack>> PROVE TakenInOrder'
  BY <1>4
<1>5. ASSUME NEW t \in Threads, \/ \E j \in Jobs, m \in Modes : Submit(t, j, m)
                                \/ CheckExpand(t) \/ SignalQueue(t) \/ AwaitSync(t)
                                \/ ReleaseQueue(t) \/ Releasing(t)
      PROVE TakenInOrder'
  BY <1>4, <1>5
  DEF Submit, CheckExpand, SignalQueue, AwaitSync, ReleaseQueue, Releasing, ExitSignal,
      ExitWait, ExitDone, history
<1>6. ASSUME NEW w \in Workers, \/ Wake(w) \/ CheckExit(w) \/ BeginProc(w) \/ EndProc(w)
                                \/ Finalize(w) \/ Notify(w) \/ Leave(w)
      PROVE TakenInOrder'
  BY <1>4, <1>6
  DEF Wake, CheckExit, BeginProc, EndProc, Finalize, Notify, Leave, history
<1>7. CASE UNCHANGED vars
  BY <1>4, <1>7 DEF vars, history
<1> QED
  BY <1>2, <1>3, <1>5, <1>6, <1>7, NoneFresh DEF Next, Calling, Serving

(* Dispatches are taken in the order in which they were appended.             *)
THEOREM OrderCorrect == Spec => []TakenInOrder
<1>1. Init => TakenInOrder
  BY ConcatEmptySeq DEF Init, TakenInOrder
<1> QED
  BY <1>1, TypeInit, TypeStep, OrderStep, PTL DEF Spec
-----------------------------------------------------------------------------
(* Ownership of the dispatch records.                                         *)

Bookkept ==
  /\ \A t \in Threads : arg[t] # None => mode[arg[t]] # "new"
  /\ \A j \in Jobs : mode[j] = "new" => j \notin freed /\ sem[j] = 0
  /\ \A t \in Threads : cpc[t] = "await" => mode[arg[t]] = "sync"

OwnInv == RecordsOwned /\ Bookkept

LEMMA OwnInit == Init => OwnInv
<1> SUFFICES ASSUME Init PROVE OwnInv
  OBVIOUS
<1>1. \A t \in Threads : arg[t] = None /\ cpc[t] = "idle"
  BY DEF Init
<1>2. \A w \in Workers : cur[w] = None
  BY DEF Init
<1>3. \A j \in Jobs : mode[j] = "new" /\ j \notin freed /\ sem[j] = 0 /\ j # None
  BY NoneFresh DEF Init
<1>4. Len(queueStack) = 0
  BY DEF Init
<1> QED
  BY <1>1, <1>2, <1>3, <1>4
  DEF OwnInv, RecordsOwned, Bookkept, OneCaller, CallerAlone, ListedOnce, ListAlone, OneServer,
      DoneNotOwned, AwaitedNotFreed, Owned, CallerOwns, ListOwns

LEMMA OwnStep == TypeInv /\ OwnInv /\ [Next]_vars => OwnInv'
<1> SUFFICES ASSUME TypeInv, OwnInv, [Next]_vars PROVE OwnInv'
  OBVIOUS
<1> USE NoneFresh
    DEF OwnInv, RecordsOwned, Bookkept, OneCaller, CallerAlone, ListedOnce, ListAlone, OneServer,
        DoneNotOwned, AwaitedNotFreed, Owned, CallerOwns, ListOwns, TypeInv, TypeOK, Modes,
        CallStep, WorkStep, semVars, workerVars, callVars, history
<1>1. ASSUME NEW t \in Threads, NEW j \in Jobs, NEW m \in Modes, Submit(t, j, m)
      PROVE OwnInv'
  <2> USE <1>1 DEF Submit
  <2>1. OneCaller'
    OBVIOUS
  <2>2. CallerAlone'
    OBVIOUS
  <2>3. ListedOnce' /\ ListAlone' /\ OneServer'
    OBVIOUS
  <2>4. DoneNotOwned'
    OBVIOUS
  <2>5. AwaitedNotFreed'
    OBVIOUS
  <2>6. Bookkept'
    OBVIOUS
  <2> QED
    BY <2>1, <2>2, <2>3, <2>4, <2>5, <2>6
<1>2. ASSUME NEW t \in Threads, AppendJob(t) PROVE OwnInv'
  <2> USE <1>2 DEF AppendJob
  <2>0. /\ arg[t] \in Jobs /\ CallerOwns(t, arg[t])
        /\ Len(queueStack') = Len(queueStack) + 1
        /\ queueStack'[Len(queueStack) + 1] = arg[t]
        /\ \A i \in 1..Len(queueStack) : queueStack'[i] = queueStack[i]
    BY DEF Equipped, InCall
  <2>1. OneCaller'
    OBVIOUS
  <2>2. CallerAlone'
    OBVIOUS
  <2>3. ListedOnce'
    <3>1. ASSUME NEW i \in 1..Len(queueStack') PROVE i \in 1..Len(queueStack) \/ i = Len(queueStack) + 1
      BY <2>0
    <3>2. \A i \in 1..Len(queueStack) : queueStack[i] # arg[t]
      BY <2>0
    <3> QED
      BY <2>0, <3>1, <3>2
  <2>4. ListAlone' /\ OneServer'
    BY <2>0
  <2>5. DoneNotOwned'
    OBVIOUS
  <2>6. AwaitedNotFreed'
    OBVIOUS
  <2>7. Bookkept'
    OBVIOUS
  <2> QED
    BY <2>1, <2>2, <2>3, <2>4, <2>5, <2>6, <2>7
<1>3. ASSUME NEW t \in Threads, SignalQueue(t) PROVE OwnInv'
  <2> USE <1>3 DEF SignalQueue
  <2>0. arg[t] \in Jobs /\ arg' \in [Threads -> Jobs \cup {None}]
    BY DEF Equipped, InCall
  <2>1. OneCaller' /\ CallerAlone'
    BY <2>0
  <2>2. ListedOnce' /\ ListAlone' /\ OneServer'
    OBVIOUS
  <2>3. DoneNotOwned'
    BY <2>0
  <2>4. AwaitedNotFreed' /\ Bookkept'
    BY <2>0
  <2> QED
    BY <2>1, <2>2, <2>3, <2>4
<1>4. ASSUME NEW t \in Threads, AwaitSync(t) PROVE OwnInv'
  <2> USE <1>4 DEF AwaitSync
  <2>0. arg[t] \in Jobs /\ arg[t] # None /\ ~Owned(arg[t])
    BY DEF Equipped, InCall
  <2>1. OneCaller' /\ CallerAlone'
    OBVIOUS
  <2>2. ListedOnce' /\ ListAlone' /\ OneServer'
    OBVIOUS
  <2>3. DoneNotOwned'
    BY <2>0
  <2>4. AwaitedNotFreed'
    BY <2>0
  <2>5. Bookkept'
    BY <2>0
  <2> QED
    BY <2>1, <2>2, <2>3, <2>4, <2>5
<1>5. ASSUME NEW t \in Threads, NEW to \in {"append", "exitSignal", "exitWait", "released"},
             cpc[t] \notin InCall \ {"expand"}, cpc' = [cpc EXCEPT ![t] = to],
             to = "append" <=> cpc[t] = "expand",
             UNCHANGED <<queueStack, cur, arg, mode, sem, freed>>
      PROVE OwnInv'
  BY <1>5 DEF InCall
<1>6. ASSUME NEW w \in Workers, TakeJob(w) PROVE OwnInv'
  <2> USE <1>6 DEF TakeJob
  <2>0. /\ queueStack # <<>> /\ Head(queueStack) = queueStack[1]
        /\ Len(queueStack') = Len(queueStack) - 1
        /\ \A i \in 1..Len(queueStack') : i + 1 \in 1..Len(queueStack) /\ queueStack'[i] = queueStack[i + 1]
        /\ 1 \in 1..Len(queueStack) /\ ListOwns(queueStack[1]) /\ queueStack[1] \in Jobs
    OBVIOUS
  <2>1. OneCaller'
    OBVIOUS
  <2>2. CallerAlone'
    BY <2>0
  <2>3. ListedOnce' /\ ListAlone'
    BY <2>0
  <2>4. OneServer'
    BY <2>0
  <2>5. DoneNotOwned'
    BY <2>0
  <2>6. AwaitedNotFreed' /\ Bookkept'
    OBVIOUS
  <2> QED
    BY <2>1, <2>2, <2>3, <2>4, <2>5, <2>6
<1>7. ASSUME NEW w \in Workers, Notify(w) PROVE OwnInv'
  <2> USE <1>7 DEF Notify
  <2>0. /\ cur[w] \in Jobs /\ cur[w] # None /\ Owned(cur[w])
        /\ ~ListOwns(cur[w]) /\ \A t \in Threads : ~CallerOwns(t, cur[w])
        /\ cur' = [cur EXCEPT ![w] = None]
    BY DEF Equipped, Holding
  <2>1. OneCaller' /\ ListedOnce' /\ ListAlone' /\ OneServer'
    BY <2>0
  <2>2. CallerAlone'
    BY <2>0
  <2>3. DoneNotOwned'
    <3>1. ASSUME NEW j \in Jobs, Owned(j)' PROVE Owned(j) /\ j # cur[w]
      BY <2>0, <3>1
    <3>2. ASSUME NEW j \in Jobs, j # cur[w]
          PROVE /\ j \in freed' => j \in freed
                /\ sem'[j] = sem[j] /\ mode'[j] = mode[j]
      BY <2>0, <3>2
    <3> QED
      BY <2>0, <3>1, <3>2
  <2>4. AwaitedNotFreed'
    BY <2>0
  <2>5. Bookkept'
    BY <2>0
  <2> QED
    BY <2>1, <2>2, <2>3, <2>4, <2>5
<1>8. ASSUME UNCHANGED <<queueStack, cur, cpc, arg, mode, sem, freed>> PROVE OwnInv'
  BY <1>8
<1> HIDE DEF OwnInv
<1>9. ASSUME NEW t \in Threads, \/ CheckExpand(t) \/ ReleaseQueue(t) \/ ExitSignal(t)
                                \/ ExitWait(t) \/ ExitDone(t)
      PROVE OwnInv'
  BY <1>5, <1>9 DEF CheckExpand, ReleaseQueue, ExitSignal, ExitWait, ExitDone, InCall
<1>10. ASSUME NEW w \in Workers, \/ Wake(w) \/ CheckExit(w) \/ BeginProc(w) \/ EndProc(w)
                                 \/ Finalize(w) \/ Leave(w)
       PROVE OwnInv'
  BY <1>8, <1>10 DEF Wake, CheckExit, BeginProc, EndProc, Finalize, Leave
<1>11. CASE UNCHANGED vars
  BY <1>8, <1>11 DEF vars
<1> QED
  BY <1>1, <1>2, <1>3, <1>4, <1>6, <1>7, <1>9, <1>10, <1>11
  DEF Next, Calling, Releasing, Serving

LEMMA OwnImpliesUse == TypeInv /\ OwnInv => RecordsOutliveUse
<1> SUFFICES ASSUME TypeInv, OwnInv PROVE RecordsOutliveUse
  OBVIOUS
<1>1. \A w \in Workers : cur[w] \notin freed
  BY DEF TypeInv, TypeOK, OwnInv, RecordsOwned, DoneNotOwned, Owned
<1>2. \A i \in 1..Len(queueStack) : queueStack[i] \notin freed
  BY DEF TypeInv, TypeOK, OwnInv, RecordsOwned, DoneNotOwned, Owned, ListOwns
<1>3. \A t \in Threads : cpc[t] \in {"expand", "append"} => arg[t] \notin freed
  BY DEF TypeInv, TypeOK, OwnInv, RecordsOwned, DoneNotOwned, Owned, CallerOwns
<1>4. \A t \in Threads : cpc[t] = "await" => arg[t] \notin freed
  BY DEF OwnInv, RecordsOwned, AwaitedNotFreed, Bookkept
<1> QED
  BY <1>1, <1>2, <1>3, <1>4 DEF RecordsOutliveUse

(* Every live dispatch record has exactly one owner.                          *)
THEOREM OwnershipCorrect == Spec => []RecordsOwned
<1>1. OwnInv => RecordsOwned
  BY DEF OwnInv
<1> QED
  BY <1>1, TypeInit, TypeStep, OwnInit, OwnStep, PTL DEF Spec

(* No dispatch record is used after it was freed.                             *)
THEOREM RecordsCorrect == Spec => []RecordsOutliveUse
BY TypeInit, TypeStep, OwnInit, OwnStep, OwnImpliesUse, PTL DEF Spec

-----------------------------------------------------------------------------
(* What a dispatch queue promises: it implements Executor, matches every      *)
(* dispatch with a signal, and starts nothing once it is being released.      *)

Members(s) == {s[i] : i \in 1..Len(s)}

(* A dispatch is appended once, by the caller that submitted it.              *)
AppendedOnce ==
  /\ \A j \in Jobs : mode[j] = "new" => j \notin Members(appended)
  /\ \A t \in Threads : cpc[t] \in {"expand", "append"} => arg[t] \notin Members(appended)

(* What is held, finished, signalled and returned follows on what started.    *)
Progress ==
  /\ \A w \in Workers : cur[w] # None => cur[w] \in Members(started)
  /\ \A w \in Workers : wpc[w] = "notify" => cur[w] \in finished
  /\ finished \subseteq Members(started) /\ returned \subseteq freed
  /\ \A j \in Jobs : sem[j] > 0 => sem[j] = 1 /\ j \in finished /\ j \notin returned

(* The thread that releases the queue holds the lock until every service      *)
(* thread has left; queueExitSem counts those that left and are still listed. *)
Exiting ==
  /\ \A t \in Threads :
       /\ cpc[t] \in {"exitSignal", "exitWait"} => lock = t
       /\ cpc[t] \in {"exitSignal", "exitWait", "released"} => exit
  /\ exit => Type = "user" /\ (lock # None \/ queueThreads = {})
  /\ Type = "user" => \A w \in Workers :
       /\ w \notin queueThreads => wpc[w] = "exited"
       /\ queueExitSem = IF wpc[w] = "exited" /\ w \in queueThreads THEN 1 ELSE 0

PromiseInv ==
  TypeInv /\ TakenInOrder /\ OwnInv /\ AppendedOnce /\ Progress /\ Exiting /\ SignalsMatchStack

-----------------------------------------------------------------------------
(* Appending adds one member.                                                 *)
LEMMA MembersOfAppend ==
  ASSUME NEW s \in Seq(Jobs), NEW e \in Jobs
  PROVE  Members(Append(s, e)) = Members(s) \cup {e}
<1>1. Len(Append(s, e)) = Len(s) + 1
  OBVIOUS
<1>2. \A i \in 1..Len(s) : Append(s, e)[i] = s[i]
  OBVIOUS
<1>3. Append(s, e)[Len(s) + 1] = e
  OBVIOUS
<1>4. Len(s) \in Nat
  OBVIOUS
<1>5. 1..(Len(s) + 1) = (1..Len(s)) \cup {Len(s) + 1}
  BY <1>4
<1> QED
  BY <1>1, <1>2, <1>3, <1>5 DEF Members

(* A user queue has one service thread, the one it starts with.               *)
LEMMA OneWorker == Type = "user" => \A v, w \in Workers : v = w
BY FS_Singleton, DispatchAssumption DEF DispatchAssumption

(* AppendedOnce: only Submit and AppendJob touch what was appended.           *)
LEMMA AppendedStep == PromiseInv /\ [Next]_vars => AppendedOnce'
<1> SUFFICES ASSUME PromiseInv, [Next]_vars PROVE AppendedOnce'
  OBVIOUS
<1> USE NoneFresh
    DEF AppendedOnce, PromiseInv, TypeInv, TypeOK, Equipped, InCall, OwnInv, RecordsOwned,
        OneCaller, Bookkept, Modes, CallStep, WorkStep, semVars, workerVars, callVars, history
<1>1. ASSUME NEW t \in Threads, NEW j \in Jobs, NEW m \in Modes, Submit(t, j, m)
      PROVE AppendedOnce'
  BY <1>1 DEF Submit
<1>2. ASSUME NEW t \in Threads, AppendJob(t) PROVE AppendedOnce'
  <2>1. arg[t] \in Jobs /\ Members(appended') = Members(appended) \cup {arg[t]}
    BY <1>2, MembersOfAppend DEF AppendJob
  <2> QED
    BY <1>2, <2>1 DEF AppendJob
<1>3. ASSUME NEW t \in Threads, CheckExpand(t) \/ SignalQueue(t) \/ AwaitSync(t) PROVE AppendedOnce'
  <2>1. CheckExpand(t) => AppendedOnce'
    BY DEF CheckExpand
  <2>2. SignalQueue(t) => AppendedOnce'
    BY DEF SignalQueue
  <2>3. AwaitSync(t) => AppendedOnce'
    BY DEF AwaitSync
  <2> QED
    BY <1>3, <2>1, <2>2, <2>3
<1>4. ASSUME NEW t \in Clients, ReleaseQueue(t) \/ Releasing(t) PROVE AppendedOnce'
  BY <1>4 DEF ReleaseQueue, Releasing, ExitSignal, ExitWait, ExitDone
<1>5. ASSUME NEW w \in Workers, Serving(w) PROVE AppendedOnce'
  BY <1>5 DEF Serving, Wake, CheckExit, TakeJob, BeginProc, EndProc, Finalize, Notify, Leave
<1>6. CASE UNCHANGED vars
  BY <1>6 DEF vars
<1> QED
  BY <1>1, <1>2, <1>3, <1>4, <1>5, <1>6 DEF Next, Calling

(* Progress: a service thread starts, finishes and signals what it took.      *)
LEMMA ProgressStep == PromiseInv /\ [Next]_vars => Progress'
<1> SUFFICES ASSUME PromiseInv, [Next]_vars PROVE Progress'
  OBVIOUS
<1> USE NoneFresh
    DEF Progress, PromiseInv, TypeInv, TypeOK, Equipped, InCall, Holding,
        Modes, CallStep, WorkStep, semVars, workerVars, callVars, history
<1>1. ASSUME NEW t \in Threads, NEW j \in Jobs, NEW m \in Modes, Submit(t, j, m)
      PROVE Progress'
  BY <1>1 DEF Submit
<1>2. ASSUME NEW t \in Threads, CheckExpand(t) \/ AppendJob(t) \/ SignalQueue(t) PROVE Progress'
  BY <1>2 DEF CheckExpand, AppendJob, SignalQueue
<1>3. ASSUME NEW t \in Threads, AwaitSync(t) PROVE Progress'
  <2>1. arg[t] \in Jobs /\ sem[arg[t]] = 1
    BY <1>3 DEF AwaitSync
  <2> QED
    BY <1>3, <2>1 DEF AwaitSync
<1>4. ASSUME NEW t \in Clients, ReleaseQueue(t) \/ Releasing(t) PROVE Progress'
  BY <1>4 DEF ReleaseQueue, Releasing, ExitSignal, ExitWait, ExitDone
<1>5. ASSUME NEW w \in Workers, TakeJob(w) PROVE Progress'
  <2>1. /\ Head(queueStack) \in Jobs
        /\ Members(started') = Members(started) \cup {Head(queueStack)}
    BY <1>5, MembersOfAppend DEF TakeJob
  <2> QED
    BY <1>5, <2>1 DEF TakeJob
<1>6. ASSUME NEW w \in Workers, Finalize(w) PROVE Progress'
  BY <1>6 DEF Finalize
<1>7. ASSUME NEW w \in Workers, Notify(w) PROVE Progress'
  <2>1. /\ cur[w] \in Jobs /\ cur[w] \in finished
        /\ cur[w] \notin freed /\ ~(sem[cur[w]] > 0)
    BY <1>7 DEF Notify, OwnInv, RecordsOwned, DoneNotOwned, Owned
  <2>2. CASE mode[cur[w]] = "sync"
    <3>1. sem[cur[w]] = 0 /\ cur[w] \notin returned
      BY <2>1
    <3>2. /\ sem' = [sem EXCEPT ![cur[w]] = 1] /\ UNCHANGED <<freed, finished, returned, started>>
          /\ cur' = [cur EXCEPT ![w] = None] /\ wpc' = [wpc EXCEPT ![w] = "wait"]
      BY <1>7, <2>2, <3>1 DEF Notify
    <3>3. \A j \in Jobs : sem'[j] > 0 => sem'[j] = 1 /\ j \in finished /\ j \notin returned
      BY <2>1, <3>1, <3>2
    <3> QED
      BY <3>2, <3>3
  <2>3. CASE mode[cur[w]] # "sync"
    BY <1>7, <2>1, <2>3 DEF Notify
  <2> QED
    BY <2>2, <2>3
<1>8. ASSUME NEW w \in Workers,
             Wake(w) \/ CheckExit(w) \/ BeginProc(w) \/ EndProc(w) \/ Leave(w)
      PROVE Progress'
  BY <1>8 DEF Wake, CheckExit, BeginProc, EndProc, Leave
<1>9. CASE UNCHANGED vars
  BY <1>9 DEF vars
<1> QED
  BY <1>1, <1>2, <1>3, <1>4, <1>5, <1>6, <1>7, <1>8, <1>9 DEF Next, Calling, Serving

(* Exiting: the lock is dropped when the only service thread has left.        *)
LEMMA ExitingStep == PromiseInv /\ [Next]_vars => Exiting'
<1> SUFFICES ASSUME PromiseInv, [Next]_vars PROVE Exiting'
  OBVIOUS
<1> USE NoneFresh, OneWorker, DispatchAssumption
    DEF DispatchAssumption, Threads, Exiting, PromiseInv, TypeInv, TypeOK, CallStep, WorkStep,
        semVars, workerVars, callVars, history
<1>1. ASSUME NEW t \in Threads, NEW j \in Jobs, NEW m \in Modes, Submit(t, j, m)
      PROVE Exiting'
  BY <1>1 DEF Submit
<1>2. ASSUME NEW t \in Threads, CheckExpand(t) PROVE Exiting'
  BY <1>2 DEF CheckExpand, NeedsThread
<1>3. ASSUME NEW t \in Threads, AppendJob(t) \/ SignalQueue(t) \/ AwaitSync(t) PROVE Exiting'
  BY <1>3 DEF AppendJob, SignalQueue, AwaitSync
<1>4. ASSUME NEW t \in Clients, ReleaseQueue(t) PROVE Exiting'
  BY <1>4 DEF ReleaseQueue
<1>5. ASSUME NEW t \in Clients, ExitSignal(t) PROVE Exiting'
  BY <1>5 DEF ExitSignal
<1>6. ASSUME NEW t \in Clients, ExitWait(t) PROVE Exiting'
  BY <1>6 DEF ExitWait
<1>7. ASSUME NEW t \in Clients, ExitDone(t) PROVE Exiting'
  BY <1>7 DEF ExitDone
<1>8. ASSUME NEW w \in Workers, Leave(w) PROVE Exiting'
  BY <1>8 DEF Leave
<1>9. ASSUME NEW w \in Workers, Serving(w), ~Leave(w) PROVE Exiting'
  BY <1>9 DEF Serving, Wake, CheckExit, TakeJob, BeginProc, EndProc, Finalize, Notify
<1>10. CASE UNCHANGED vars
  BY <1>10 DEF vars
<1> QED
  BY <1>1, <1>2, <1>3, <1>4, <1>5, <1>6, <1>7, <1>8, <1>9, <1>10 DEF Next, Calling, Releasing

(* SignalsMatchStack: the claimants change by one thread at a time.           *)
LEMMA SignalsStep == PromiseInv /\ [Next]_vars => SignalsMatchStack'
<1> SUFFICES ASSUME PromiseInv, [Next]_vars PROVE SignalsMatchStack'
  OBVIOUS
<1> USE NoneFresh
    DEF PromiseInv, TypeInv, TypeOK, Equipped, InCall, CallStep, WorkStep,
        semVars, workerVars, callVars, history
<1>1. /\ IsFiniteSet(Claimants) /\ IsFiniteSet(Takers) /\ IsFiniteSet(Signalling)
      /\ Takers \subseteq Claimants
      /\ Cardinality(Takers) <= Cardinality(Claimants)
  <2>1. Takers \subseteq Claimants /\ Claimants \subseteq Workers /\ Signalling \subseteq Threads
    BY DEF Takers, Claimants, Signalling
  <2>2. IsFiniteSet(Workers) /\ IsFiniteSet(Threads)
    BY DispatchAssumption, FS_Union DEF DispatchAssumption, Threads
  <2> QED
    BY <2>1, <2>2, FS_Subset
<1>2. /\ Cardinality(Claimants) \in Nat /\ Cardinality(Takers) \in Nat
      /\ Cardinality(Signalling) \in Nat /\ Len(queueStack) \in Nat
      /\ queueSem \in Nat
  BY <1>1, FS_CardinalityType
<1>3. /\ ~exit => queueSem + Cardinality(Claimants) + Cardinality(Signalling) = Len(queueStack)
      /\ Cardinality(Takers) <= Len(queueStack)
  BY DEF SignalsMatchStack
<1>4. ASSUME NEW t \in Threads, AppendJob(t) PROVE SignalsMatchStack'
  <2>1. Signalling' = Signalling \cup {t} /\ t \notin Signalling
    BY <1>4 DEF AppendJob, Signalling
  <2>2. Claimants' = Claimants /\ Takers' = Takers /\ queueSem' = queueSem /\ exit' = exit
    BY <1>4 DEF AppendJob, Claimants, Takers
  <2>3. Len(queueStack') = Len(queueStack) + 1
    BY <1>4 DEF AppendJob
  <2>4. Cardinality(Signalling') = Cardinality(Signalling) + 1
    BY <1>1, <2>1, FS_AddElement
  <2> QED
    BY <1>2, <1>3, <2>2, <2>3, <2>4 DEF SignalsMatchStack
<1>5. ASSUME NEW t \in Threads, SignalQueue(t) PROVE SignalsMatchStack'
  <2>1. Signalling' = Signalling \ {t} /\ t \in Signalling
    BY <1>5 DEF SignalQueue, Signalling
  <2>2. /\ Claimants' = Claimants /\ Takers' = Takers /\ queueSem' = queueSem + 1
        /\ exit' = exit /\ queueStack' = queueStack
    BY <1>5 DEF SignalQueue, Claimants, Takers
  <2>3. Cardinality(Signalling') = Cardinality(Signalling) - 1
    BY <1>1, <2>1, FS_RemoveElement
  <2> QED
    BY <1>2, <1>3, <2>2, <2>3 DEF SignalsMatchStack
<1>6. ASSUME NEW w \in Workers, Wake(w) PROVE SignalsMatchStack'
  <2>1. Claimants' = Claimants \cup {w} /\ w \notin Claimants
    BY <1>6 DEF Wake, Claimants
  <2>2. /\ Signalling' = Signalling /\ Takers' = Takers /\ queueSem' = queueSem - 1
        /\ queueSem > 0 /\ exit' = exit /\ queueStack' = queueStack
    BY <1>6 DEF Wake, Signalling, Takers
  <2>3. Cardinality(Claimants') = Cardinality(Claimants) + 1
    BY <1>1, <2>1, FS_AddElement
  <2> QED
    BY <1>2, <1>3, <2>2, <2>3 DEF SignalsMatchStack
<1>7. ASSUME NEW w \in Workers, CheckExit(w) PROVE SignalsMatchStack'
  <2>1. /\ Signalling' = Signalling /\ queueSem' = queueSem
        /\ exit' = exit /\ queueStack' = queueStack
    BY <1>7 DEF CheckExit, Signalling
  <2>2. CASE exit
    <3>1. Takers' = Takers
      BY <1>7, <2>2 DEF CheckExit, Takers
    <3> QED
      BY <1>3, <2>1, <2>2, <3>1 DEF SignalsMatchStack
  <2>3. CASE ~exit
    <3>1. Claimants' = Claimants /\ Takers' \subseteq Claimants
      BY <1>7, <2>3 DEF CheckExit, Takers, Claimants
    <3>2. Cardinality(Takers') <= Cardinality(Claimants) /\ Cardinality(Takers') \in Nat
      BY <1>1, <3>1, FS_Subset, FS_CardinalityType
    <3> QED
      BY <1>2, <1>3, <2>1, <2>3, <3>1, <3>2 DEF SignalsMatchStack
  <2> QED
    BY <2>2, <2>3
<1>8. ASSUME NEW w \in Workers, TakeJob(w) PROVE SignalsMatchStack'
  <2>1. /\ Claimants' = Claimants \ {w} /\ w \in Claimants
        /\ Takers' = Takers \ {w} /\ w \in Takers
    BY <1>8 DEF TakeJob, Claimants, Takers
  <2>2. Signalling' = Signalling /\ queueSem' = queueSem /\ exit' = exit
    BY <1>8 DEF TakeJob, Signalling
  <2>3. Len(queueStack') = Len(queueStack) - 1
    BY <1>8 DEF TakeJob
  <2>4. /\ Cardinality(Claimants') = Cardinality(Claimants) - 1
        /\ Cardinality(Takers') = Cardinality(Takers) - 1
    BY <1>1, <2>1, FS_RemoveElement
  <2>5. ~exit => queueSem + (Cardinality(Claimants) - 1) + Cardinality(Signalling) = Len(queueStack) - 1
    BY <1>2, <1>3
  <2>6. Cardinality(Takers) - 1 <= Len(queueStack) - 1
    BY <1>2, <1>3
  <2> QED
    BY <2>2, <2>3, <2>4, <2>5, <2>6 DEF SignalsMatchStack
<1>9. ASSUME Claimants' = Claimants, Takers' = Takers, Signalling' = Signalling,
             queueStack' = queueStack, queueSem' = queueSem \/ exit',
             exit => exit'
      PROVE SignalsMatchStack'
  BY <1>3, <1>9 DEF SignalsMatchStack
<1>10. ASSUME NEW t \in Threads, \/ \E j \in Jobs, m \in Modes : Submit(t, j, m)
                                 \/ CheckExpand(t) \/ AwaitSync(t)
       PROVE SignalsMatchStack'
  BY <1>9, <1>10 DEF Submit, CheckExpand, AwaitSync, Claimants, Takers, Signalling
<1>11. ASSUME NEW t \in Clients, ReleaseQueue(t) \/ Releasing(t) PROVE SignalsMatchStack'
  BY <1>9, <1>11
     DEF ReleaseQueue, Releasing, ExitSignal, ExitWait, ExitDone, Claimants, Takers, Signalling,
         Exiting
<1>12. ASSUME NEW w \in Workers,
              BeginProc(w) \/ EndProc(w) \/ Finalize(w) \/ Notify(w) \/ Leave(w)
       PROVE SignalsMatchStack'
  BY <1>9, <1>12 DEF BeginProc, EndProc, Finalize, Notify, Leave, Claimants, Takers, Signalling
<1>13. CASE UNCHANGED vars
  BY <1>9, <1>13 DEF vars, Claimants, Takers, Signalling
<1> QED
  BY <1>4, <1>5, <1>6, <1>7, <1>8, <1>10, <1>11, <1>12, <1>13 DEF Next, Calling, Serving

(* A queue starts with nothing dispatched.                                    *)
LEMMA PromiseInit == Init => PromiseInv
<1> SUFFICES ASSUME Init PROVE PromiseInv
  OBVIOUS
<1>1. TypeInv /\ OwnInv /\ TakenInOrder
  BY TypeInit, OwnInit, ConcatEmptySeq DEF Init, TakenInOrder
<1>2. \A t \in Threads : cpc[t] = "idle"
  BY DEF Init
<1>3. \A w \in Workers : cur[w] = None /\ wpc[w] \in {"wait", "unborn"}
  BY DEF Init
<1>4. AppendedOnce
  BY <1>2 DEF Init, AppendedOnce, Members
<1>5. Progress
  <2>1. \A j \in Jobs : sem[j] = 0
    BY DEF Init
  <2>2. finished = {} /\ returned = {}
    BY DEF Init
  <2> QED
    BY <1>3, <2>1, <2>2 DEF Progress
<1>6. Exiting
  <2>1. ~exit /\ queueExitSem = 0 /\ queueThreads = InitialWorkers
    BY DEF Init
  <2> QED
    BY <1>2, <1>3, <2>1, DispatchAssumption DEF DispatchAssumption, Exiting
<1>7. SignalsMatchStack
  <2>1. Claimants = {} /\ Takers = {} /\ Signalling = {}
    BY <1>2, <1>3 DEF Claimants, Takers, Signalling
  <2>2. queueSem = 0 /\ Len(queueStack) = 0
    BY DEF Init
  <2> QED
    BY <2>1, <2>2, FS_EmptySet DEF SignalsMatchStack
<1> QED
  BY <1>1, <1>4, <1>5, <1>6, <1>7 DEF PromiseInv

(* Every step preserves every part of the invariant.                          *)
LEMMA PromiseStep == PromiseInv /\ [Next]_vars => PromiseInv'
<1>1. PromiseInv /\ [Next]_vars => TypeInv' /\ OwnInv' /\ TakenInOrder'
  BY TypeStep, OwnStep, OrderStep DEF PromiseInv
<1> QED
  BY <1>1, AppendedStep, ProgressStep, ExitingStep, SignalsStep DEF PromiseInv

LEMMA PromiseInvariant == Spec => []PromiseInv
BY PromiseInit, PromiseStep, PTL DEF Spec

(* Every dispatch in the list is matched by one signal, and a service thread  *)
(* past the exit check finds a dispatch in it (__ym_dispatch_service_loop).   *)
THEOREM SignalsCorrect == Spec => []SignalsMatchStack
<1>1. PromiseInv => SignalsMatchStack
  BY DEF PromiseInv
<1> QED
  BY <1>1, PromiseInvariant, PTL
-----------------------------------------------------------------------------
(* Release.                                                                   *)

(* A step of a queue that is being released.                                  *)
LEMMA NothingStarts ==
  ASSUME PromiseInv, [Next]_vars, exit
  PROVE  /\ started' = started
         /\ returned' \ returned \subseteq {started[i] : i \in 1..Len(started)}
<1>1. ASSUME NEW w \in Workers PROVE ~TakeJob(w)
  BY DEF TakeJob, WorkStep, PromiseInv, Exiting
<1>2. ASSUME NEW t \in Threads, AwaitSync(t)
      PROVE  returned' \ returned \subseteq {started[i] : i \in 1..Len(started)}
  <2>1. arg[t] \in Jobs
    BY <1>2 DEF AwaitSync, CallStep, PromiseInv, TypeInv, Equipped, InCall
  <2>2. arg[t] \in Members(started)
    BY <1>2, <2>1 DEF AwaitSync, PromiseInv, Progress
  <2> QED
    BY <1>2, <2>2 DEF AwaitSync, Members
<1>3. started' = started
  BY <1>1, NoneFresh
  DEF Next, Calling, Releasing, Serving, Submit, CheckExpand, AppendJob, SignalQueue, AwaitSync,
      ReleaseQueue, ExitSignal, ExitWait, ExitDone, Wake, CheckExit, BeginProc, EndProc,
      Finalize, Notify, Leave, history, vars
<1>4. (\E t \in Threads : AwaitSync(t)) \/ returned' = returned
  BY <1>1, NoneFresh
  DEF Next, Calling, Releasing, Serving, Submit, CheckExpand, AppendJob, SignalQueue,
      ReleaseQueue, ExitSignal, ExitWait, ExitDone, Wake, CheckExit, BeginProc, EndProc,
      Finalize, Notify, Leave, history, vars
<1> QED
  BY <1>2, <1>3, <1>4

(* Once a queue is being released no dispatch is started, and none returns to *)
(* its caller that had not been started before (__YMDispatchQueueExitSync).   *)
THEOREM ReleaseCorrect == Spec => NothingStartsAfterExit
<1>1. PromiseInv /\ [Next]_vars =>
        [exit => /\ started' = started
                 /\ returned' \ returned \subseteq {started[i] : i \in 1..Len(started)}]_vars
  BY NothingStarts
<1> QED
  BY <1>1, PromiseInvariant, PTL DEF Spec, NothingStartsAfterExit
-----------------------------------------------------------------------------
(* Refinement.                                                                *)

Runners == {v \in Workers : wpc[v] \in {"begin", "run", "finalize"}}

(* A step of the queue is a step of Executor or leaves it unchanged.          *)
LEMMA StepIsPromised == PromiseInv /\ [Next]_vars => [Promise!Next]_(Promise!vars)
<1> SUFFICES ASSUME PromiseInv, [Next]_vars PROVE [Promise!Next]_(Promise!vars)
  OBVIOUS
<1> USE NoneFresh
    DEF PromiseInv, TypeInv, TypeOK, Equipped, InCall, Holding, CallStep, WorkStep,
        semVars, workerVars, callVars, history
<1>0. Executing = {cur[v] : v \in Runners}
  BY DEF Executing, Runners
<1>1. ASSUME NEW t \in Threads, AppendJob(t) PROVE Promise!Accept(arg[t]) /\ arg[t] \in Jobs
  <2>1. arg[t] \in Jobs /\ arg[t] \notin Members(appended)
    BY <1>1 DEF AppendJob, AppendedOnce
  <2>2. Members(appended') = Members(appended) \cup {arg[t]}
    BY <1>1, <2>1, MembersOfAppend DEF AppendJob
  <2>3. Executing' = Executing
    BY <1>1 DEF AppendJob, Executing
  <2> QED
    BY <1>1, <2>1, <2>2, <2>3 DEF AppendJob, Members, Promise!Accept
<1>2. ASSUME NEW w \in Workers, TakeJob(w) PROVE Promise!Start
  <2>1. /\ w \notin Runners /\ Runners' = Runners \cup {w}
        /\ \A v \in Runners : cur'[v] = cur[v]
        /\ cur'[w] = Head(queueStack)
    BY <1>2 DEF TakeJob, Runners
  <2>2. Executing' = Executing \cup {Head(queueStack)}
    <3>1. Executing' = {cur'[v] : v \in Runners'}
      BY DEF Executing, Runners
    <3>2. \A x : x \in Executing' <=> x \in Executing \/ x = Head(queueStack)
      BY <1>0, <2>1, <3>1
    <3> QED
      BY <3>2
  <2>3. IsFiniteSet(Workers) /\ IsFiniteSet(Runners)
        /\ Cardinality(Runners) < Cardinality(Workers)
    <3>1. IsFiniteSet(Workers) /\ Runners \in SUBSET Workers /\ Runners # Workers
      BY <2>1, DispatchAssumption DEF DispatchAssumption, Runners
    <3>2. /\ IsFiniteSet(Runners) /\ Cardinality(Runners) <= Cardinality(Workers)
          /\ Cardinality(Workers) # Cardinality(Runners)
      BY <3>1, FS_Subset
    <3> QED
      BY <3>1, <3>2, FS_CardinalityType
  <2>4. Cardinality(Executing) <= Cardinality(Runners)
    <3> DEFINE f == [v \in Runners |-> cur[v]]
    <3>1. f \in Surjection(Runners, Executing)
      BY <1>0 DEF Surjection
    <3> QED
      BY <2>3, <3>1, FS_Surjection
  <2>5. IsFiniteSet(Executing) /\ Cardinality(Executing) < Cardinality(Workers)
    <3> DEFINE f == [v \in Runners |-> cur[v]]
    <3>1. f \in Surjection(Runners, Executing)
      BY <1>0 DEF Surjection
    <3>2. IsFiniteSet(Executing)
      BY <2>3, <3>1, FS_Surjection
    <3> QED
      BY <2>3, <2>4, <3>2, FS_CardinalityType
  <2>6. /\ queueStack # <<>> /\ queueStack' = Tail(queueStack)
        /\ UNCHANGED <<appended, finished, returned>>
    BY <1>2 DEF TakeJob
  <2>7. Promise!Cardinality(Executing) = Cardinality(Executing)
    BY DEF Promise!Cardinality, Cardinality
  <2> HIDE DEF PromiseInv, TypeInv, TypeOK
  <2> QED
    BY <2>2, <2>5, <2>6, <2>7 DEF Promise!Start
<1>3. ASSUME NEW w \in Workers, Finalize(w) PROVE Promise!Finish(cur[w]) /\ cur[w] \in Jobs
  <2>1. cur[w] \in Jobs /\ w \in Runners /\ Runners' = Runners \ {w} /\ cur' = cur
    BY <1>3 DEF Finalize, Runners
  <2>2. \A v \in Runners : v # w => cur[v] # cur[w]
    BY <2>1 DEF Runners, OwnInv, RecordsOwned, OneServer
  <2>3. Executing' = Executing \ {cur[w]} /\ cur[w] \in Executing
    BY <2>1, <2>2 DEF Executing, Runners
  <2> QED
    BY <1>3, <2>1, <2>3 DEF Finalize, Promise!Finish
<1>4. ASSUME NEW t \in Threads, AwaitSync(t) PROVE Promise!Return(arg[t]) /\ arg[t] \in Jobs
  <2>1. arg[t] \in Jobs
    BY <1>4 DEF AwaitSync
  <2>2. arg[t] \in finished /\ arg[t] \notin returned
    BY <1>4, <2>1 DEF AwaitSync, Progress
  <2>3. Executing' = Executing
    BY <1>4 DEF AwaitSync, Executing
  <2> QED
    BY <1>4, <2>1, <2>2, <2>3 DEF AwaitSync, Promise!Return
<1>5. ASSUME Executing' = Executing,
             UNCHANGED <<appended, queueStack, finished, returned>>
      PROVE  UNCHANGED Promise!vars
  BY <1>5 DEF Promise!vars
<1>6. ASSUME NEW t \in Threads, \/ \E j \in Jobs, m \in Modes : Submit(t, j, m)
                                \/ CheckExpand(t) \/ SignalQueue(t)
      PROVE  UNCHANGED Promise!vars
  <2>1. cur' = cur /\ Runners' = Runners /\ UNCHANGED <<appended, queueStack, finished, returned>>
    BY <1>6 DEF Submit, CheckExpand, SignalQueue, Runners
  <2> QED
    BY <1>5, <2>1 DEF Executing, Runners
<1>7. ASSUME NEW t \in Clients, ReleaseQueue(t) \/ Releasing(t)
      PROVE  UNCHANGED Promise!vars
  BY <1>5, <1>7 DEF ReleaseQueue, Releasing, ExitSignal, ExitWait, ExitDone, Executing
<1>8. ASSUME NEW w \in Workers,
             Wake(w) \/ CheckExit(w) \/ BeginProc(w) \/ EndProc(w) \/ Notify(w) \/ Leave(w)
      PROVE  UNCHANGED Promise!vars
  <2>1. /\ Runners' = Runners /\ \A v \in Runners : cur'[v] = cur[v]
        /\ UNCHANGED <<appended, queueStack, finished, returned>>
    BY <1>8 DEF Wake, CheckExit, BeginProc, EndProc, Notify, Leave, Runners
  <2> QED
    BY <1>5, <2>1 DEF Executing, Runners
<1>9. CASE UNCHANGED vars
  BY <1>5, <1>9 DEF vars, Executing
<1> HIDE DEF PromiseInv
<1>10. CASE \E t \in Threads : (\E j \in Jobs, m \in Modes : Submit(t, j, m)) \/ Calling(t)
  <2>1. PICK t \in Threads : (\E j \in Jobs, m \in Modes : Submit(t, j, m)) \/ Calling(t)
    BY <1>10
  <2>2. CASE AppendJob(t)
    <3>1. arg[t] \in Jobs /\ Promise!Accept(arg[t])
      BY <1>1, <2>2
    <3>2. Promise!Next
      BY <3>1 DEF Promise!Next, Promise!Accept
    <3> QED
      BY <3>2
  <2>3. CASE AwaitSync(t)
    BY <1>4, <2>3 DEF Promise!Next
  <2> QED
    BY <1>6, <2>1, <2>2, <2>3 DEF Calling
<1>11. CASE \E w \in Workers : Serving(w)
  BY <1>2, <1>3, <1>8, <1>11 DEF Serving, Promise!Next
<1> QED
  BY <1>7, <1>9, <1>10, <1>11 DEF Next

(* A queue with any number of service threads keeps the promise of Executor:  *)
(* jobs start in order, each once, as many at a time as there are threads,    *)
(* and a synchronous caller goes on only after its job has finished.          *)
THEOREM QueueImplementsExecutor == Spec => ImplementsExecutor
<1>1. Init => Promise!Init
  BY DEF Init, Promise!Init, Executing
<1> QED
  BY <1>1, StepIsPromised, PromiseInvariant, PTL DEF Spec, ImplementsExecutor, Promise!Spec
=============================================================================
