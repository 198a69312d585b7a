--------------------------- MODULE DispatchQueue ---------------------------
(***************************************************************************)
(* One dispatch queue of src/src/YMDispatch.c: the list of dispatches, the *)
(* two semaphores, the service threads and the callers of YMDispatchAsync, *)
(* YMDispatchSync and YMDispatchQueueRelease.                              *)
(*                                                                         *)
(* A user queue has one service thread for life.  The global queue starts  *)
(* with DefaultThreads of them and may add one on every dispatch.  A proc  *)
(* that a service thread runs may itself dispatch to the queue, so every   *)
(* service thread is a caller too.                                         *)
(*                                                                         *)
(* The self lock of the queue is a variable only because the releasing     *)
(* thread keeps it while it waits: every other critical section has no     *)
(* wait inside and is one atomic step that requires the lock to be free.   *)
(***************************************************************************)
EXTENDS Naturals, Sequences, FiniteSets

CONSTANTS
  Clients,        (* threads that dispatch and do not serve the queue           *)
  Workers,        (* every service thread the queue may ever have               *)
  InitialWorkers, (* those __YMDispatchQueueInitCommon starts                   *)
  Jobs,           (* dispatches; each is submitted at most once (the bound)     *)
  Blocking,       (* jobs whose dispatchProc never returns                      *)
  Type,           (* "user" or "global"                                         *)
  NestedModes,    (* how a running proc may dispatch to its own queue           *)
  ReleaseRule,    (* "never", or "any": at any moment                           *)
  None            (* no thread, no job                                          *)

Threads == Clients \cup Workers
Modes == {"async", "sync"}

ASSUME DispatchAssumption ==
  /\ InitialWorkers \subseteq Workers /\ InitialWorkers # {}
  /\ Clients \cap Workers = {}
  /\ IsFiniteSet(Workers) /\ IsFiniteSet(Clients) /\ IsFiniteSet(Jobs)
  /\ Blocking \subseteq Jobs
  /\ Type \in {"user", "global"}
  /\ NestedModes \subseteq Modes
  /\ ReleaseRule \in {"never", "any"}
  /\ None \notin Threads \cup Jobs
  /\ Type = "user" => Workers = InitialWorkers /\ Cardinality(Workers) = 1
  (* only user queues may be released: _YMDispatchQueueFree aborts otherwise *)
  /\ Type = "global" => ReleaseRule = "never"

DefaultThreads == Cardinality(InitialWorkers)

VARIABLES
  lock,          (* holder of the queue's self lock across steps, or None       *)
  queueStack,    (* dispatches appended and not yet taken                       *)
  queueSem,      (* count of the semaphore the service threads wait on          *)
  queueExitSem,  (* count of the semaphore the releasing thread waits on        *)
  queueThreads,  (* the service threads in the queue's list                     *)
  exit,          (* the exit flag                                               *)
  busy,          (* busy flag of each service thread                            *)
  wpc,           (* where each service thread is                                *)
  cur,           (* the dispatch each service thread holds                      *)
  cpc,           (* where each thread is in a call on the queue                 *)
  arg,           (* the dispatch of that call                                   *)
  mode,          (* "new" until submitted, then "async" or "sync"               *)
  sem,           (* count of each synchronous dispatch's own semaphore          *)
  freed,         (* dispatch records passed to YMFREE                           *)
  appended,      (* history: dispatches in the order they were appended         *)
  started,       (* history: dispatches in the order they were taken            *)
  finished,      (* history: dispatches whose proc and onComplete have run      *)
  returned       (* history: dispatches whose YMDispatchSync has returned       *)

semVars == <<queueSem, queueExitSem>>
workerVars == <<queueThreads, busy, wpc, cur>>
callVars == <<cpc, arg, mode>>
history == <<appended, started, finished, returned>>
vars == <<lock, queueStack, semVars, workerVars, exit, callVars, sem, freed, history>>

WorkerPC == {"unborn", "wait", "check", "take", "begin", "run", "finalize",
             "notify", "leave", "exited"}
CallPC == {"idle", "expand", "append", "signal", "await", "exitSignal",
           "exitWait", "released"}

TypeOK ==
  /\ lock \in Clients \cup {None}
  /\ queueStack \in Seq(Jobs)
  /\ queueSem \in Nat /\ queueExitSem \in Nat
  /\ queueThreads \in SUBSET Workers
  /\ exit \in BOOLEAN
  /\ busy \in [Workers -> BOOLEAN]
  /\ wpc \in [Workers -> WorkerPC]
  /\ cur \in [Workers -> Jobs \cup {None}]
  /\ cpc \in [Threads -> CallPC]
  /\ arg \in [Threads -> Jobs \cup {None}]
  /\ mode \in [Jobs -> Modes \cup {"new"}]
  /\ sem \in [Jobs -> Nat]
  /\ freed \in SUBSET Jobs
  /\ appended \in Seq(Jobs) /\ started \in Seq(Jobs)
  /\ finished \in SUBSET Jobs /\ returned \in SUBSET Jobs

(* __YMDispatchQueueInitCommon: the initial threads are started and listed.   *)
Init ==
  /\ lock = None
  /\ queueStack = <<>>
  /\ queueSem = 0 /\ queueExitSem = 0
  /\ queueThreads = InitialWorkers
  /\ exit = FALSE
  /\ busy = [w \in Workers |-> FALSE]
  /\ wpc = [w \in Workers |-> IF w \in InitialWorkers THEN "wait" ELSE "unborn"]
  /\ cur = [w \in Workers |-> None]
  /\ cpc = [t \in Threads |-> "idle"]
  /\ arg = [t \in Threads |-> None]
  /\ mode = [j \in Jobs |-> "new"]
  /\ sem = [j \in Jobs |-> 0]
  /\ freed = {}
  /\ appended = <<>> /\ started = <<>>
  /\ finished = {} /\ returned = {}

CallStep(t, from, to) == cpc[t] = from /\ cpc' = [cpc EXCEPT ![t] = to]
WorkStep(w, from, to) == wpc[w] = from /\ wpc' = [wpc EXCEPT ![w] = to]

-----------------------------------------------------------------------------
(* Calls on the queue.                                                        *)

(* The modes thread t may dispatch with now: a client any, a service thread   *)
(* only from inside a proc it runs.                                           *)
CallableModes(t) ==
  IF t \in Clients THEN Modes
  ELSE IF wpc[t] = "run" /\ cur[t] \notin Blocking THEN NestedModes ELSE {}

(* YMDispatchAsync and YMDispatchSync: the caller's record is copied.         *)
Submit(t, j, m) ==
  /\ CallStep(t, "idle", "expand")
  /\ mode[j] = "new" /\ m \in CallableModes(t)
  /\ mode' = [mode EXCEPT ![j] = m]
  /\ arg' = [arg EXCEPT ![t] = j]
  /\ UNCHANGED <<lock, queueStack, semVars, workerVars, exit, sem, freed, history>>

AllBusy == \A w \in queueThreads : busy[w]
(* Mutant: the global queue does not grow.                                    *)
NeverNeedsThread == FALSE

NeedsThread ==
  /\ Type = "global"
  /\ Cardinality(queueThreads) >= DefaultThreads => AllBusy

(* __YMDispatchCheckExpandGlobalQueue: a new thread when every one is busy.   *)
CheckExpand(t) ==
  /\ CallStep(t, "expand", "append")
  /\ lock = None
  /\ IF NeedsThread
     THEN \E w \in Workers :
            /\ wpc[w] = "unborn"
            /\ wpc' = [wpc EXCEPT ![w] = "wait"]
            /\ queueThreads' = queueThreads \cup {w}
     ELSE UNCHANGED <<wpc, queueThreads>>
  /\ UNCHANGED <<lock, queueStack, semVars, busy, cur, exit, arg, mode, sem, freed, history>>

(* Mutant: insert at the front.                                               *)
PrependJob(t) ==
  /\ CallStep(t, "append", "signal")
  /\ lock = None
  /\ queueStack' = <<arg[t]>> \o queueStack
  /\ appended' = Append(appended, arg[t])
  /\ UNCHANGED <<lock, semVars, workerVars, exit, arg, mode, sem, freed,
                 started, finished, returned>>

(* __YMDispatchDispatch: append under the self lock ...                       *)
AppendJob(t) ==
  /\ CallStep(t, "append", "signal")
  /\ lock = None
  /\ queueStack' = Append(queueStack, arg[t])
  /\ appended' = Append(appended, arg[t])
  /\ UNCHANGED <<lock, semVars, workerVars, exit, arg, mode, sem, freed,
                 started, finished, returned>>

(* Mutant: signal only when no service thread is busy.                        *)
SignalIfIdle(t) ==
  /\ CallStep(t, "signal", IF mode[arg[t]] = "sync" THEN "await" ELSE "idle")
  /\ queueSem' = IF \E w \in queueThreads : busy[w] THEN queueSem ELSE queueSem + 1
  /\ arg' = IF mode[arg[t]] = "sync" THEN arg ELSE [arg EXCEPT ![t] = None]
  /\ UNCHANGED <<lock, queueStack, queueExitSem, workerVars, exit, mode,
                 sem, freed, history>>

(* ... then signal the queue outside it; only a synchronous caller goes on.   *)
SignalQueue(t) ==
  /\ CallStep(t, "signal", IF mode[arg[t]] = "sync" THEN "await" ELSE "idle")
  /\ queueSem' = queueSem + 1
  /\ arg' = IF mode[arg[t]] = "sync" THEN arg ELSE [arg EXCEPT ![t] = None]
  /\ UNCHANGED <<lock, queueStack, queueExitSem, workerVars, exit, mode,
                 sem, freed, history>>

(* Mutant: the synchronous caller does not wait.                              *)
DoNotAwaitSync(t) ==
  /\ CallStep(t, "await", "idle")
  /\ freed' = freed \cup {arg[t]}
  /\ returned' = returned \cup {arg[t]}
  /\ arg' = [arg EXCEPT ![t] = None]
  /\ UNCHANGED <<lock, queueStack, semVars, workerVars, exit, mode, sem,
                 appended, started, finished>>

(* The synchronous caller wakes and frees the record it shared.               *)
AwaitSync(t) ==
  /\ CallStep(t, "await", "idle")
  /\ sem[arg[t]] > 0
  /\ sem' = [sem EXCEPT ![arg[t]] = @ - 1]
  /\ freed' = freed \cup {arg[t]}
  /\ returned' = returned \cup {arg[t]}
  /\ arg' = [arg EXCEPT ![t] = None]
  /\ UNCHANGED <<lock, queueStack, semVars, workerVars, exit, mode,
                 appended, started, finished>>

(* Mutant: the lock is not kept.                                              *)
ReleaseUnlocked(t) ==
  /\ ReleaseRule # "never"
  /\ CallStep(t, "idle", "exitSignal")
  /\ lock = None /\ ~exit
  /\ exit' = TRUE
  /\ UNCHANGED <<lock, queueStack, semVars, workerVars, arg, mode, sem, freed, history>>

(* YMDispatchQueueRelease / __YMDispatchQueueExitSync: take the self lock and *)
(* raise the flag; the lock is held to the end.                               *)
ReleaseQueue(t) ==
  /\ ReleaseRule # "never"
  /\ CallStep(t, "idle", "exitSignal")
  /\ lock = None /\ ~exit
  /\ lock' = t
  /\ exit' = TRUE
  /\ UNCHANGED <<queueStack, semVars, workerVars, arg, mode, sem, freed, history>>

(* One signal for each listed thread, waiting for it to leave ...             *)
ExitSignal(t) ==
  /\ CallStep(t, "exitSignal", "exitWait")
  /\ queueThreads # {}
  /\ queueSem' = queueSem + 1
  /\ UNCHANGED <<lock, queueStack, queueExitSem, workerVars, exit, arg, mode,
                 sem, freed, history>>

ExitWait(t) ==
  /\ CallStep(t, "exitWait", "exitSignal")
  /\ queueExitSem > 0
  /\ queueExitSem' = queueExitSem - 1
  /\ \E w \in queueThreads : queueThreads' = queueThreads \ {w}
  /\ UNCHANGED <<lock, queueStack, queueSem, busy, wpc, cur, exit, arg, mode,
                 sem, freed, history>>

(* ... and the lock is dropped when the list is empty.                        *)
ExitDone(t) ==
  /\ CallStep(t, "exitSignal", "released")
  /\ queueThreads = {}
  /\ lock' = None
  /\ UNCHANGED <<queueStack, semVars, workerVars, exit, arg, mode, sem, freed, history>>

-----------------------------------------------------------------------------
(* __ym_dispatch_service_loop, one action per step of the loop.               *)

Wake(w) ==
  /\ WorkStep(w, "wait", "check")
  /\ queueSem > 0
  /\ queueSem' = queueSem - 1
  /\ UNCHANGED <<lock, queueStack, queueExitSem, queueThreads, busy, cur, exit,
                 callVars, sem, freed, history>>

(* The flag is read without the lock.                                         *)
CheckExit(w) ==
  /\ WorkStep(w, "check", IF exit THEN "leave" ELSE "take")
  /\ UNCHANGED <<lock, queueStack, semVars, queueThreads, busy, cur, exit,
                 callVars, sem, freed, history>>

(* Taking from an empty list would abort in YMArrayGet: SignalsMatchStack.    *)
TakeJob(w) ==
  /\ WorkStep(w, "take", "begin")
  /\ lock = None
  /\ queueStack # <<>>
  /\ cur' = [cur EXCEPT ![w] = Head(queueStack)]
  /\ queueStack' = Tail(queueStack)
  /\ started' = Append(started, Head(queueStack))
  /\ UNCHANGED <<lock, semVars, queueThreads, busy, exit, callVars, sem, freed,
                 appended, finished, returned>>

(* The thread counts as busy only from here on.                               *)
BeginProc(w) ==
  /\ WorkStep(w, "begin", "run")
  /\ busy' = [busy EXCEPT ![w] = TRUE]
  /\ UNCHANGED <<lock, queueStack, semVars, queueThreads, cur, exit, callVars,
                 sem, freed, history>>

EndProc(w) ==
  /\ WorkStep(w, "run", "finalize")
  /\ cpc[w] = "idle" /\ cur[w] \notin Blocking
  /\ busy' = [busy EXCEPT ![w] = FALSE]
  /\ UNCHANGED <<lock, queueStack, semVars, queueThreads, cur, exit, callVars,
                 sem, freed, history>>

(* __YMDispatchUserFinalize: onCompleteProc and the context's disposal.       *)
Finalize(w) ==
  /\ WorkStep(w, "finalize", "notify")
  /\ finished' = finished \cup {cur[w]}
  /\ UNCHANGED <<lock, queueStack, semVars, queueThreads, busy, cur, exit,
                 callVars, sem, freed, appended, started, returned>>

(* Mutants: the record is freed in either mode; nobody is signalled.          *)
NotifyAndFree(w) ==
  /\ WorkStep(w, "notify", "wait")
  /\ sem' = IF mode[cur[w]] = "sync" THEN [sem EXCEPT ![cur[w]] = @ + 1] ELSE sem
  /\ freed' = freed \cup {cur[w]}
  /\ cur' = [cur EXCEPT ![w] = None]
  /\ UNCHANGED <<lock, queueStack, semVars, queueThreads, busy, exit, callVars, history>>

NotifyNobody(w) ==
  /\ WorkStep(w, "notify", "wait")
  /\ freed' = IF mode[cur[w]] = "sync" THEN freed ELSE freed \cup {cur[w]}
  /\ cur' = [cur EXCEPT ![w] = None]
  /\ UNCHANGED <<lock, queueStack, semVars, queueThreads, busy, exit, callVars, sem, history>>

(* A synchronous caller is signalled, any other record is freed here.         *)
Notify(w) ==
  /\ WorkStep(w, "notify", "wait")
  /\ IF mode[cur[w]] = "sync"
     THEN sem' = [sem EXCEPT ![cur[w]] = @ + 1] /\ UNCHANGED freed
     ELSE freed' = freed \cup {cur[w]} /\ UNCHANGED sem
  /\ cur' = [cur EXCEPT ![w] = None]
  /\ UNCHANGED <<lock, queueStack, semVars, queueThreads, busy, exit, callVars, history>>

(* Mutant: the releasing thread is not told.                                  *)
LeaveSilently(w) ==
  /\ WorkStep(w, "leave", "exited")
  /\ UNCHANGED <<lock, queueStack, semVars, queueThreads, busy, cur, exit,
                 callVars, sem, freed, history>>

Leave(w) ==
  /\ WorkStep(w, "leave", "exited")
  /\ queueExitSem' = queueExitSem + 1
  /\ UNCHANGED <<lock, queueStack, queueSem, queueThreads, busy, cur, exit,
                 callVars, sem, freed, history>>

Calling(t) ==
  \/ CheckExpand(t) \/ AppendJob(t) \/ SignalQueue(t) \/ AwaitSync(t)
Releasing(t) ==
  \/ ExitSignal(t) \/ ExitWait(t) \/ ExitDone(t)
Serving(w) ==
  \/ Wake(w) \/ CheckExit(w) \/ TakeJob(w) \/ BeginProc(w) \/ EndProc(w)
  \/ Finalize(w) \/ Notify(w) \/ Leave(w)

Next ==
  \/ \E t \in Threads, j \in Jobs, m \in Modes : Submit(t, j, m)
  \/ \E t \in Threads : Calling(t)
  \/ \E t \in Clients : ReleaseQueue(t) \/ Releasing(t)
  \/ \E w \in Workers : Serving(w)

Spec == Init /\ [][Next]_vars

(* Threads are scheduled: a call that can go on does, a service thread that   *)
(* can go on does.  Nobody has to dispatch or to release anything.            *)
Fairness ==
  /\ \A t \in Threads : WF_vars(Calling(t))
  /\ \A t \in Clients : WF_vars(Releasing(t))
  /\ \A w \in Workers : WF_vars(Serving(w))

FairSpec == Spec /\ Fairness
-----------------------------------------------------------------------------
(* Properties.                                                                *)

(* The threads between their wake-up and the taking of a dispatch, and the    *)
(* callers between the append and the signal.                                 *)
Claimants == {w \in Workers : wpc[w] \in {"check", "take"}}
Takers == {w \in Workers : wpc[w] = "take"}
Signalling == {t \in Threads : cpc[t] = "signal"}

(* Until the queue is released every dispatch in the list is matched by       *)
(* exactly one signal: pending, consumed by a thread on its way to the list,  *)
(* or about to be given.  One signal too few and a dispatch waits forever     *)
(* behind a sleeping thread.  Released or not, a service thread past the exit *)
(* check finds a dispatch: it takes index 0 without looking at the count.     *)
SignalsMatchStack ==
  /\ ~exit => queueSem + Cardinality(Claimants) + Cardinality(Signalling)
                = Len(queueStack)
  /\ Cardinality(Takers) <= Len(queueStack)

(* Dispatches are taken in the order they were appended, none skipped and     *)
(* none twice, whatever the interleaving of callers and service threads.      *)
TakenInOrder == appended = started \o queueStack

(* A dispatch record is never used after it was freed: not by the service     *)
(* thread that holds it, not by the list, not by the caller that waits on its *)
(* semaphore.  The synchronous caller frees the record while the service      *)
(* thread is on its way back to the loop.                                     *)
RecordsOutliveUse ==
  /\ \A w \in Workers : cur[w] \notin freed
  /\ \A i \in 1..Len(queueStack) : queueStack[i] \notin freed
  /\ \A t \in Threads : cpc[t] \in {"expand", "append", "await"} => arg[t] \notin freed

(* A live record has one owner: the caller that has not appended it yet, the  *)
(* list, or one service thread.  Nobody owns a freed record, and a            *)
(* synchronous caller is signalled only when nobody owns it any more.         *)
CallerOwns(t, j) == cpc[t] \in {"expand", "append"} /\ arg[t] = j
ListOwns(j) == \E i \in 1..Len(queueStack) : queueStack[i] = j
Owned(j) ==
  (\E t \in Threads : CallerOwns(t, j)) \/ ListOwns(j) \/ (\E w \in Workers : cur[w] = j)

OneCaller == \A t, u \in Threads : t # u /\ arg[t] = arg[u] => arg[t] = None
CallerAlone ==
  \A t \in Threads : \A j \in Jobs :
    CallerOwns(t, j) => ~ListOwns(j) /\ \A w \in Workers : cur[w] # j
ListedOnce ==
  \A i, k \in 1..Len(queueStack) : queueStack[i] = queueStack[k] => i = k
ListAlone ==
  \A i \in 1..Len(queueStack) : \A w \in Workers : queueStack[i] # cur[w]
OneServer == \A v, w \in Workers : v # w /\ cur[v] = cur[w] => cur[v] = None
DoneNotOwned ==
  \A j \in Jobs : mode[j] = "new" \/ j \in freed \/ sem[j] > 0 => ~Owned(j)
AwaitedNotFreed ==
  \A t \in Threads :
    cpc[t] \in {"signal", "await"} /\ mode[arg[t]] = "sync" => arg[t] \notin freed
RecordsOwned ==
  /\ OneCaller /\ CallerAlone /\ ListedOnce /\ ListAlone /\ OneServer
  /\ DoneNotOwned /\ AwaitedNotFreed

(* Once the exit flag is up no further dispatch is taken, and none returns to *)
(* a synchronous caller that was not already finished: pending dispatches are *)
(* dropped by __YMDispatchQueueExitSync, not run late on a dying queue.       *)
NothingStartsAfterExit ==
  [][exit => /\ started' = started
             /\ returned' \ returned \subseteq {started[i] : i \in 1..Len(started)}]_vars

(* YMDispatchQueueRelease comes back when all that was dispatched has run, as *)
(* it has after a join by the last user: the thread that took the self lock   *)
(* and waits for the service threads does not wait forever, wherever in their *)
(* loop it finds them.  With work left it may: a thread past the exit check   *)
(* needs that lock to take its dispatch (YMDispatch.c l.441-448).             *)
Drained == \A j \in Jobs : mode[j] # "new" => j \in finished
ReleaseReturns ==
  \A t \in Clients :
    cpc[t] \in {"exitSignal", "exitWait"} /\ Drained ~> cpc[t] = "released"

(* Every dispatch is run to completion although callers, service threads and  *)
(* nested dispatches interleave, unless the queue is released first.          *)
EveryJobRuns ==
  \A j \in Jobs : mode[j] # "new" ~> (j \in finished \/ exit)

(* YMDispatchSync returns to its caller unless the queue is released first:   *)
(* also to procs that wait for dispatches to the global queue they run on,    *)
(* which must grow for them.                                                  *)
EverySyncReturns ==
  \A j \in Jobs : mode[j] = "sync" ~> (j \in returned \/ exit)

(* A dispatch is started however many of the others never return: what the    *)
(* growth of the global queue is for (test/ym-dispatch-test.c, "dos").  The   *)
(* code does not give it: a thread that has taken a proc, or is about to, is  *)
(* not busy yet when the next dispatch looks whether a thread is free.        *)
EveryJobStarts ==
  \A j \in Jobs : mode[j] # "new" ~> \E i \in 1..Len(started) : started[i] = j

(* The dispatches whose proc a service thread is about to run or running.     *)
Executing == {cur[w] : w \in {v \in Workers : wpc[v] \in {"begin", "run", "finalize"}}}

(* What the queue promises, and how its state maps to it.                     *)
Promise == INSTANCE Executor WITH
  Width <- Cardinality(Workers),
  accepted <- {appended[i] : i \in 1..Len(appended)},
  waiting <- queueStack,
  running <- Executing,
  finished <- finished,
  returned <- returned

(* The queue implements the executor: every step of the code is a step of it  *)
(* or leaves it unchanged.                                                    *)
ImplementsExecutor == Promise!Spec
=============================================================================
