--------------------------- MODULE DispatchSource ---------------------------
(* Dispatch sources: a descriptor, a queue and a proc that the queue runs     *)
(* whenever the descriptor is ready.  One thread of the process runs select   *)
(* over every source that is not being serviced; servicingSem, a semaphore of *)
(* count one, says which those are, and is what YMDispatchSourceDestroy waits *)
(* on before it frees the source.  The array gDispatch->sources is a set: no  *)
(* step depends on its order.  sourcesLock is implicit: what holds it is one  *)
(* step, but for the second scan, a step per source, during which selectAt is *)
(* "serve".  A queue is the service loop of DispatchQueue with one thread and *)
(* nothing but source wrappers on it, which is how the clients use one.       *)
EXTENDS Naturals, Sequences, FiniteSets

CONSTANTS
  Source,       \* the sources ever created
  NoSource,     \* what runs on an idle thread
  Queue,        \* the queues they are serviced on
  QueueOf,      \* the queue of a source
  FdOf,         \* its descriptor; readable and writeable ends are numbered apart
  UserQueues,   \* the queues that are of type YMDispatchQueueUser
  OwnsQueue,    \* sources of the mDNS browser: their descriptor is closed before
                \* they are destroyed, and their finalizer releases the queue
  MaxFailures,  \* failures of select in a row that are put up with
  MaxData       \* bound: the units of data that arrive for each source

ASSUME SourceAssumption ==
  /\ NoSource \notin Source
  /\ QueueOf \in [Source -> Queue] /\ FdOf \in [Source -> Nat]
  /\ UserQueues \subseteq Queue /\ OwnsQueue \subseteq Source
  /\ MaxFailures \in Nat /\ MaxData \in [Source -> Nat]

VARIABLES
  state,        \* how far a source is between its creation and its memory's end
  sources,      \* gDispatch->sources
  servicingSem, \* the count of a source's semaphore
  queueStack,   \* wrappers appended to a queue and not yet taken
  running,      \* the wrapper the thread of a queue runs
  at,           \* where in it that thread is
  selectAt,     \* the select thread: before its first scan, in select, back, in its second
  fds,          \* its fd_sets: what to watch, then what is ready
  toServe,      \* sources its second scan has still to visit
  failures,     \* consecutiveFailures
  isOpen,       \* whether a source's descriptor is open
  data,         \* what can be read from it now
  arrived       \* what arrived on it since it was opened

vars == <<state, sources, servicingSem, queueStack, running, at, selectAt, fds,
          toServe, failures, isOpen, data, arrived>>
selectVars == <<selectAt, fds, toServe, failures>>
queueVars  == <<queueStack, running, at>>
fdVars     == <<isOpen, data, arrived>>

States   == {"unborn", "live", "removed", "waited", "freed"}

TypeOK ==
  /\ state \in [Source -> States] /\ sources \subseteq Source
  /\ servicingSem \in [Source -> 0..1]
  /\ queueStack \in [Queue -> Seq(Source)]
  /\ running \in [Queue -> Source \cup {NoSource}]
  /\ at \in [Queue -> {"idle", "proc", "done"}]
  /\ selectAt \in {"scan", "select", "ready", "serve"}
  /\ fds \subseteq Nat /\ toServe \subseteq Source
  /\ failures \in 0..MaxFailures + 1
  /\ isOpen \in [Source -> BOOLEAN]
  /\ data \in [Source -> Nat] /\ arrived \in [Source -> Nat]

Init ==
  /\ state = [s \in Source |-> "unborn"] /\ sources = {}
  /\ servicingSem = [s \in Source |-> 1]
  /\ queueStack = [q \in Queue |-> <<>>]
  /\ running = [q \in Queue |-> NoSource] /\ at = [q \in Queue |-> "idle"]
  /\ selectAt = "scan" /\ fds = {} /\ toServe = {} /\ failures = 0
  /\ isOpen = [s \in Source |-> FALSE]
  /\ data = [s \in Source |-> 0] /\ arrived = [s \in Source |-> 0]

-----------------------------------------------------------------------------
(* The descriptors.  A client opens one just before it creates the source, so *)
(* the lowest free number may be one that another source had.                 *)

DescriptorOpen(fd) == \E s \in Source : isOpen[s] /\ FdOf[s] = fd
HasData(fd) == \E s \in Source : isOpen[s] /\ FdOf[s] = fd /\ data[s] > 0

Arrive(s) ==
  /\ isOpen[s] /\ arrived[s] < MaxData[s]
  /\ arrived' = [arrived EXCEPT ![s] = @ + 1]
  /\ data' = [data EXCEPT ![s] = @ + 1]
  /\ UNCHANGED <<state, sources, servicingSem, queueVars, selectVars, isOpen>>

CloseDescriptor(s) ==
  /\ isOpen' = [isOpen EXCEPT ![s] = FALSE]
  /\ data' = [data EXCEPT ![s] = 0] /\ arrived' = [arrived EXCEPT ![s] = 0]

-----------------------------------------------------------------------------
(* YMDispatchSourceCreate. The byte it then writes to wake the select loop is *)
(* left out, as the one a wrapper writes is: select returns within 10 ms      *)
(* whether or not there is one, so the pipe changes when it does, not what.   *)

Create(s) ==
  /\ state[s] = "unborn" /\ selectAt # "serve" /\ ~DescriptorOpen(FdOf[s])
  /\ state' = [state EXCEPT ![s] = "live"]
  /\ sources' = sources \cup {s}
  /\ isOpen' = [isOpen EXCEPT ![s] = TRUE]
  /\ UNCHANGED <<servicingSem, queueVars, selectVars, data, arrived>>

(* __YMmDNSBrowserRemoveServiceRef deallocates the service reference, which   *)
(* closes the descriptor, and leaves the source to a dispatch.                *)
CloseFirst(s) ==
  /\ s \in OwnsQueue /\ state[s] = "live" /\ isOpen[s]
  /\ CloseDescriptor(s)
  /\ UNCHANGED <<state, sources, servicingSem, queueVars, selectVars>>

(* YMDispatchSourceDestroy, by a dispatch on the global queue: the source is  *)
(* delisted (or was already, by a reset of the select loop), ...              *)
Remove(s) ==
  /\ state[s] = "live" /\ (s \in OwnsQueue => ~isOpen[s]) /\ selectAt # "serve"
  /\ state' = [state EXCEPT ![s] = "removed"]
  /\ sources' = sources \ {s}
  /\ UNCHANGED <<servicingSem, queueVars, selectVars, fdVars>>

(* Mutant: a source is freed while it is serviced.                            *)
DoNotAwaitServicing(s) ==
  /\ state[s] = "removed"
  /\ state' = [state EXCEPT ![s] = "waited"]
  /\ UNCHANGED <<sources, servicingSem, queueVars, selectVars, fdVars>>

(* ... a proc servicing it on a user queue is waited for, ...                 *)
AwaitServicing(s) ==
  /\ state[s] = "removed"
  /\ IF QueueOf[s] \in UserQueues
       THEN servicingSem[s] > 0 /\ servicingSem' = [servicingSem EXCEPT ![s] = @ - 1]
       ELSE UNCHANGED servicingSem
  /\ state' = [state EXCEPT ![s] = "waited"]
  /\ UNCHANGED <<sources, queueVars, selectVars, fdVars>>

(* ... and it is finalized and freed.  The plexer's finalizer lets go of the  *)
(* stream, and with it of the descriptor; the browser's releases the queue    *)
(* and so waits for its thread.                                               *)
FreeSource(s) ==
  /\ state[s] = "waited" /\ (s \in OwnsQueue => at[QueueOf[s]] = "idle")
  /\ state' = [state EXCEPT ![s] = "freed"]
  /\ CloseDescriptor(s)
  /\ UNCHANGED <<sources, servicingSem, queueVars, selectVars>>

-----------------------------------------------------------------------------
(* __ym_dispatch_source_select_loop.                                          *)

(* Mutant: the first scan watches a source that is being serviced.            *)
WatchAlways(s) == servicingSem[s] >= 0

(* YMSemaphoreTest, which puts back what it took when asked to.               *)
Watchable(s) == servicingSem[s] > 0

FirstScan ==
  /\ selectAt = "scan"
  /\ fds' = {FdOf[s] : s \in {t \in sources : Watchable(t)}}
  /\ selectAt' = "select"
  /\ UNCHANGED <<state, sources, servicingSem, queueVars, toServe, failures, fdVars>>

SelectFails ==
  /\ selectAt = "select" /\ \E fd \in fds : ~DescriptorOpen(fd)
  /\ failures' = IF failures > MaxFailures THEN failures ELSE failures + 1
  /\ sources' = IF failures' > MaxFailures THEN {} ELSE sources
  /\ selectAt' = "scan" /\ fds' = {}
  /\ UNCHANGED <<state, servicingSem, queueVars, toServe, fdVars>>

SelectReady ==
  /\ selectAt = "select" /\ \A fd \in fds : DescriptorOpen(fd)
  /\ fds' = {fd \in fds : HasData(fd)} /\ fds' # {}
  /\ selectAt' = "ready"
  /\ UNCHANGED <<state, sources, servicingSem, queueVars, toServe, failures, fdVars>>

SelectTimesOut ==
  /\ selectAt = "select"
  /\ \A fd \in fds : DescriptorOpen(fd) /\ ~HasData(fd)
  /\ failures' = 0 /\ selectAt' = "scan" /\ fds' = {}
  /\ UNCHANGED <<state, sources, servicingSem, queueVars, toServe, fdVars>>

(* The second scan, of the sources listed when sourcesLock is taken again: a  *)
(* source whose descriptor is set, and that is taken from its semaphore, is   *)
(* dispatched in a wrapper.                                                   *)
LockSources ==
  /\ selectAt = "ready"
  /\ selectAt' = "serve" /\ toServe' = sources
  /\ UNCHANGED <<state, sources, servicingSem, queueVars, fds, failures, fdVars>>

(* Mutant: the second scan tests the semaphore and puts it back.              *)
ServeKeepingSem(s) ==
  /\ selectAt = "serve" /\ s \in toServe
  /\ toServe' = toServe \ {s}
  /\ IF FdOf[s] \in fds /\ servicingSem[s] > 0
       THEN queueStack' = [queueStack EXCEPT ![QueueOf[s]] = Append(@, s)]
       ELSE UNCHANGED queueStack
  /\ UNCHANGED <<state, sources, servicingSem, running, at, selectAt, fds, failures, fdVars>>

(* Mutant: the semaphore is taken before the descriptor is looked at.         *)
ServeTakingSem(s) ==
  /\ selectAt = "serve" /\ s \in toServe
  /\ toServe' = toServe \ {s}
  /\ IF servicingSem[s] > 0
       THEN servicingSem' = [servicingSem EXCEPT ![s] = @ - 1]
       ELSE UNCHANGED servicingSem
  /\ IF FdOf[s] \in fds /\ servicingSem[s] > 0
       THEN queueStack' = [queueStack EXCEPT ![QueueOf[s]] = Append(@, s)]
       ELSE UNCHANGED queueStack
  /\ UNCHANGED <<state, sources, running, at, selectAt, fds, failures, fdVars>>

ServeSource(s) ==
  /\ selectAt = "serve" /\ s \in toServe
  /\ toServe' = toServe \ {s}
  /\ IF FdOf[s] \in fds /\ servicingSem[s] > 0
       THEN /\ servicingSem' = [servicingSem EXCEPT ![s] = @ - 1]
            /\ queueStack' = [queueStack EXCEPT ![QueueOf[s]] = Append(@, s)]
       ELSE UNCHANGED <<servicingSem, queueStack>>
  /\ UNCHANGED <<state, sources, running, at, selectAt, fds, failures, fdVars>>

EndScan ==
  /\ selectAt = "serve" /\ toServe = {}
  /\ failures' = 0 /\ selectAt' = "scan" /\ fds' = {}
  /\ UNCHANGED <<state, sources, servicingSem, queueVars, toServe, fdVars>>

-----------------------------------------------------------------------------
(* __ym_source_select_wrapper, on the thread of a queue.                      *)

(* Mutant: the semaphore is signalled before the proc has run.                *)
TakeAndSignal(q) ==
  /\ at[q] = "idle" /\ queueStack[q] # <<>>
  /\ running' = [running EXCEPT ![q] = Head(queueStack[q])]
  /\ queueStack' = [queueStack EXCEPT ![q] = Tail(@)]
  /\ servicingSem' = [servicingSem EXCEPT ![Head(queueStack[q])] = 1]
  /\ at' = [at EXCEPT ![q] = "proc"]
  /\ UNCHANGED <<state, sources, selectVars, fdVars>>

TakeWrapper(q) ==
  /\ at[q] = "idle" /\ queueStack[q] # <<>>
  /\ running' = [running EXCEPT ![q] = Head(queueStack[q])]
  /\ queueStack' = [queueStack EXCEPT ![q] = Tail(@)]
  /\ at' = [at EXCEPT ![q] = "proc"]
  /\ UNCHANGED <<state, sources, servicingSem, selectVars, fdVars>>

(* The proc reads some of what has arrived, and blocks while nothing has; the *)
(* browser's does nothing for a reference it has dropped.                     *)
Consumes(s) ==
  \/ s \in OwnsQueue /\ ~isOpen[s] /\ UNCHANGED data
  \/ isOpen[s] /\ \E n \in 1..data[s] : data' = [data EXCEPT ![s] = @ - n]

(* Mutant: the wrapper returns without signalling the semaphore.              *)
RunProcSilently(q) ==
  /\ at[q] = "proc" /\ Consumes(running[q])
  /\ at' = [at EXCEPT ![q] = "done"]
  /\ UNCHANGED <<state, sources, servicingSem, queueStack, running, selectVars, isOpen, arrived>>

RunProc(q) ==
  /\ at[q] = "proc" /\ Consumes(running[q])
  /\ servicingSem' = [servicingSem EXCEPT ![running[q]] = @ + 1]
  /\ at' = [at EXCEPT ![q] = "done"]
  /\ UNCHANGED <<state, sources, queueStack, running, selectVars, isOpen, arrived>>

(* The wrapper returns: the source may have been freed meanwhile.             *)
EndWrapper(q) ==
  /\ at[q] = "done"
  /\ running' = [running EXCEPT ![q] = NoSource]
  /\ at' = [at EXCEPT ![q] = "idle"]
  /\ UNCHANGED <<state, sources, servicingSem, queueStack, selectVars, fdVars>>

-----------------------------------------------------------------------------
Client(s) == Create(s) \/ CloseFirst(s) \/ Remove(s)
               \/ AwaitServicing(s) \/ FreeSource(s)
SelectThread == FirstScan \/ SelectFails \/ SelectReady \/ SelectTimesOut
                  \/ LockSources \/ (\E s \in Source : ServeSource(s)) \/ EndScan
QueueThread(q) == TakeWrapper(q) \/ RunProc(q) \/ EndWrapper(q)

Next == \/ \E s \in Source : Arrive(s) \/ Client(s)
        \/ SelectThread
        \/ \E q \in Queue : QueueThread(q)

Spec == Init /\ [][Next]_vars

(* The threads are scheduled, a call under way goes on, and nobody has to     *)
(* create, close or destroy a source or to send it anything.                  *)
Fairness ==
  /\ WF_vars(SelectThread)
  /\ \A q \in Queue : WF_vars(QueueThread(q))
  /\ \A s \in Source : WF_vars(AwaitServicing(s)) /\ WF_vars(FreeSource(s))

FairSpec == Spec /\ Fairness

-----------------------------------------------------------------------------
Pending(s) == {i \in DOMAIN queueStack[QueueOf[s]] : queueStack[QueueOf[s]][i] = s}
InProc(s)  == at[QueueOf[s]] = "proc" /\ running[QueueOf[s]] = s

(* A source is serviced by one wrapper at a time, and the semaphore says so   *)
(* from before the wrapper is appended until after the proc returned: two     *)
(* would read one stream at once (YMDispatch.c l.876, 892; l.745, 750).       *)
ServicedByOne ==
  \A s \in Source :
    /\ \A i, j \in Pending(s) : i = j
    /\ InProc(s) => Pending(s) = {}
    /\ InProc(s) \/ Pending(s) # {} => servicingSem[s] = 0

(* The memory of a source of a user queue outlives its place in the list, in  *)
(* the queue and in a running wrapper, although it is freed while the select  *)
(* loop and the queue go on (l.478).                                          *)
SourceOutlivesUse ==
  \A s \in Source :
    state[s] \in {"waited", "freed"} /\ QueueOf[s] \in UserQueues =>
      s \notin sources \cup toServe /\ Pending(s) = {} /\ ~InProc(s)

(* A proc is dispatched only when there is something for it to read, or it    *)
(* would block the one thread of its queue: what made the descriptor ready is *)
(* still there, nobody else having read it (l.820-829, 875).                  *)
DispatchedWhenReady ==
  \A s \in Source :
    Pending(s) # {} \/ InProc(s) => data[s] > 0 \/ (s \in OwnsQueue /\ ~isOpen[s])

(* A source that is destroyed, listed or lost to a reset of the select loop,  *)
(* is freed in the end (l.480).                                               *)
EveryDestroyReturns == \A s \in Source : state[s] = "removed" ~> state[s] = "freed"

(* What arrives for a source that is listed is read, or the source goes: no   *)
(* source is overlooked for ever, whichever finished being serviced between   *)
(* the scans (l.820, 876).                                                    *)
EveryArrivalServiced ==
  \A s \in Source : data[s] > 0 /\ s \in sources ~> data[s] = 0 \/ s \notin sources
=============================================================================
