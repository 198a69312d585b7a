# Verification of yammer

yammer is a C library for peer-to-peer sessions: peers find one another by mDNS, connect over
TLS, and exchange any number of byte streams multiplexed over each connection. Everything runs on
a dispatch library of its own, written after libdispatch. This directory holds TLA+ models of the
parts that carry the library's logic, the TLC runs that check them on small instances, and TLAPS
proofs of the most important facts for every instance.

Paths below are relative to the repository root; line numbers are of the modelled commit.

## 1. Inventory

| Component | State | Operations | Hard behaviour |
|---|---|---|---|
| Dispatch queues `src/YMDispatch.c` 60-395, 438-449, 631-734; `src/YMDispatchUtils.c` 1-45 | per queue: list of dispatches, two semaphores, list of service threads with a busy flag, exit flag, self lock | Async, Sync, Join, QueueRelease; service loop; growth of the global queue | many callers and threads; signal outside the lock; a record freed by one thread and used by another; exit flag read without the lock; a release that waits under the lock |
| Dispatch sources `src/YMDispatch.c` 395-489, 736-974 | process-wide list of sources, a servicing semaphore each, a signal pipe | SourceCreate, SourceDestroy, select loop, wrapper | destroy against a proc under way; stale readiness; reset after failures |
| Dispatch timers `src/YMDispatch.c` 491-629 | ordered list of timers, a kernel timer each | After, alarm handler | handler takes whatever timer is first; lock taken in a handler; equal times |
| Plexer `src/YMPlexer.c` | per end: active flag, streams by id, last id, three queues, sources, callbacks; per stream: user info, origin, closed flag | Create, Start, Stop, CreateStream, CloseStream; down service, up service, three notifications, interrupt | four threads per end and two ends; close in band with data; interruption found by several threads; callbacks cleared while running; freed user info |
| Streams and pipes `src/YMStream.c`, `src/YMPipe.c` | two pipes and two compressors per stream | WriteDown, ReadUp, PlexReadDown, PlexWriteUp, file forwarding | partial reads and writes, end of file, byte stuffing by compression framing |
| File forwarding `src/YMDispatchUtils.c` 46-107 | one record per forward | ForwardFile, its proc | sync and async ownership of the record, missing callback information |
| Security providers `src/YMSecurityProvider.c`, `src/YMTLSProvider.c`, keys and certificates | TLS context | init, read, write, close | OpenSSL's |
| Connection `src/YMConnection.c` | plexer, provider, socket, sample results | Connect, initialise, CreateStream, CloseStream, forwards, Close, release | initialisation order, incoming initialisation inside a callback, release from callbacks |
| Session `src/YMSession.c`, `src/YMPeer.c` | connections by address, default connection, interrupted flag, accept queue, known peers | advertise, accept, browse, connect, stop, release | accept loop against stop; two connections interrupted together; flag never reset |
| mDNS `src/YMmDNS*.c` | services, service references, a queue and a source each | browse, resolve, callbacks, stop | queue released from a source's finalizer |
| Compression `src/YMCompression.c` | one compressor per direction | write, read, close | 16-bit framing |
| Local socket pair, sockets `src/YMLocalSocketPair.c`, `src/YMSocket.c` | accept queue, flags, semaphore; two forwarding procs | create, stop; set, free | flags read without a lock; semaphore and queue released under a running thread |
| Tasks `src/YMTask.c` | child, output queue | launch, wait, release | reader against release |
| Base and collections `src/YMBase.c`, `src/YMArray.c`, `src/YMDictionary.c` | counts, lists | retain, release; add, remove, enumerate | concurrent release; removal while enumerating |

How they interact. A user calls a session or a connection; those create plexers and streams. A
plexer owns three user queues (down, up, event). The select loop of the dispatch library watches
the read end of each stream's down pipe and the connection's socket, and dispatches the plexer's
service procs to the down and up queues. The down service reads a stream's pipe and writes a
message to the provider; the up service reads a message and writes a stream's other pipe.
Callbacks go to the event queue as synchronous dispatches. Teardown of sources goes to the global
queue, so that no proc waits for itself.

What makes each part correct:
- Queue: every accepted dispatch is taken once, in order; a synchronous caller returns after its
  dispatch and not before; no record is used after it was freed; a release returns.
- Sources: a proc runs only when its descriptor is ready, one at a time, never on a freed source;
  a destroy returns.
- Timers: each fires once, not early, in order.
- Plexer: each reader gets a prefix of what was written, end of file means complete; the user is
  called in order, once, and not after a stop; an interruption reaches everyone and happens once;
  nothing is used after it was freed.
- Connection, session: each connection is announced and taken down once; the default connection
  is a live one; a stop leaves no thread behind.

`PROJECT.json` lists the hazards behind these at their lines.

## 2. Modules

| Module | Models |
|---|---|
| `Executor` | the abstract promise of a queue |
| `DispatchQueue` | one queue of `YMDispatch.c`, in full interleaving |
| `DispatchQueueProofs` | theorems about it: types, order, ownership of records, signals, release, and that it implements `Executor` |
| `DispatchSource` | sources, the select loop, the wrapper and destroy |
| `DispatchSourceProofs` | theorems about it |
| `DispatchTimer` | timers and the alarm handler |
| `DispatchTimerProofs` | theorems about it |
| `Plexer` | two plexers over one link |
| `PlexerProofs` | theorems about it: types, interruption, stop |
| `PlexerStreamProofs` | the invariant of its streams, and what a step does to one end's records, pipes, readers and threads |
| `PlexerFlowProofs` | theorems about its streams: order, end of file, callbacks, user infos, no interruption without a cause |
| `Session` | a session and its connections: connecting, accepting, interruption, release |
| `SessionProofs` | theorems about it: interruption, the default connection, reference counts, callbacks |
| `Transfer` | one stream of a connection from its handshake to its close, and the files forwarded through it |
| `TransferProofs` | theorems about it: types, framing, files, assertions |
| `MCDispatchQueue`, `MCDispatchSource`, `MCDispatchTimer`, `MCPlexer`, `MCSession`, `MCTransfer` | their instances for TLC |

The modules are layers. `DispatchSource` stands on the service loop of `DispatchQueue`, with one
thread per queue; `Plexer` on both, since its down and up queues run what the select loop
dispatches; `Session` on `Plexer`, of which it keeps the link that may fail, the event queue and
the stop that joins it; `Transfer` on `Plexer` too, of which it keeps that a stream's bytes arrive
in order until it is closed or cut. What a layer takes from the one below is what the properties
of that one say.

Definitions whose comment starts with "Mutant" are not part of the model: each is a plausible bug
that could replace the definition after it, kept to show that the properties notice.

### 2.1 DispatchQueue

One queue, its callers and service threads. `queueStack`, `queueSem`, `queueExitSem`,
`queueThreads`, `exit` and `busy` are the fields of `__ym_dispatch_queue_t` and
`__ym_dispatch_queue_thread_t`; `wpc` and `cur` are a service thread's place in the loop and its
`aDispatch`; `cpc` and `arg` a caller's place in a call; `sem[j]` the semaphore of a synchronous
dispatch. `lock` is the queue's self lock where it is held across a wait, which only
`__YMDispatchQueueExitSync` does. All other critical sections contain no wait, so each is one
action that requires the lock to be free.

| Code | Actions |
|---|---|
| `YMDispatchAsync`, `YMDispatchSync` | `Submit`, `CheckExpand`, `AppendJob`, `SignalQueue`, `AwaitSync` |
| `YMDispatchQueueRelease` | `ReleaseQueue`, then `ExitSignal` and `ExitWait` per thread, `ExitDone` |
| `__ym_dispatch_service_loop` | `Wake`, `CheckExit`, `TakeJob`, `BeginProc`, `EndProc`, `Finalize`, `Notify`, `Leave` |
| `YMDispatchJoin` | a synchronous dispatch; `Drained` is what a join by the last user gives |

A job stands for one dispatch and is submitted at most once, so the number of jobs bounds the
runs. A proc may dispatch to its own queue (`NestedModes`); a proc may never return (`Blocking`).
`ReleaseRule` says whether the owner may release the queue, at any moment. A join needs no action of
its own, being a synchronous dispatch.

`TakeJob` is enabled only when the list is not empty. The code takes index 0 without looking, and
would abort: `SignalsMatchStack` says that a thread past the exit check never finds it empty.

`Executor` is what a caller may rely on, with no lists, semaphores or records in it: dispatches are
accepted, started in the order they were accepted, at most one per thread at a time, finished, and
a synchronous call returns after its dispatch has finished. `ImplementsExecutor` is that
`DispatchQueue` does no more than that, under a mapping that reads the abstract state off the
list, the threads and the callers.

### 2.2 Plexer

Two ends, `master` and `slave`, after `YMPlexerStart`. Per end three threads: `dn` (down queue),
`ut` (up queue), `ev` (event queue, whose head is what it runs); `intr` is the thread that is
inside `__YMPlexerInterrupt`, which may be any of the first two or the user; `usr` is the user's
control thread. `str[e][i]` is the latest stream end `e` made for id `i`: user info, the two
pipes as sequences of writes, the state of its dispatch source, whether the user holds it. `wire`
and `open` are the security provider, of which the model has both kinds (`Provider`). The close of
TLS shuts the connection down both ways: this end's writes fail from then on, the other end reads
to its end of file (`YMTLSProvider.c` 581-593). The passthrough provider's close does nothing and
its writes keep succeeding (`YMSecurityProvider.c` 82-93) until the owner of the socket closes it
(`YMConnection.c` 696-699), which to a plexer is a transport that fails. `link` is that transport,
external to the model.

| Code | Actions |
|---|---|
| `YMPlexerCreateStream`, `YMStreamWriteDown`, `YMPlexerCloseStream` | `CreateStream`, `WriteDown`, `CloseStream` |
| `YMPlexerStop` | `Stop`, `StopJoin` |
| `__ym_plexer_close_stream` | `CloseItem` |
| `__ym_plexer_service_downstream` | `ServeDown`, `SendChunk`, `SendClose`, `RetireDown` |
| `__ym_plexer_destroy_source_async` | `DestroySource` |
| `__ym_plexer_service_upstream` | `ReadHeader`, `ReadFails`, `ChooseStream`, `UseData`, `UseClose`, `UseFails`, `UseInactive`, `PostUp` |
| `__ym_plexer_notify_...` | `FindCallback`, `NoCallback`, `NotifyNewStream`, `NotifyClosing`, `RetireRemote`, `NotifyInterrupted`, `Join` |
| `__YMPlexerInterrupt` | the operator `Interrupt` (its first critical section, part of the action that calls it), `CloseProvider`, `HangUp`, `PostInterrupted`, `PostJoin` |

What the data is reduced to: a write is its number on its stream, the close marker is 0, a read
returns at most `ReadMax` writes. The user's data is never equal to the marker; a user's own last
byte `%` is a hazard that is listed and not modelled yet. Locks that are released in the step
that takes them are not variables; `streamsLock` is, as `StreamsLockFree`, because
`YMPlexerCreateStream` can block under it. The upstream source is a condition of the up thread's
actions, not a record.

`CloseRule` is what an application waits for before its originating end closes a stream. The
documents do not say what it has to wait for; the model shows that what it waits for matters. The
user of the other end closes whenever it likes, before or after.
- `settled`: everything written was read, and the other end has nothing more to write. This is how
  most of the repository's tests use a stream. All properties hold but one: a remote user that
  closes after the originator, as those tests do, reads freed user info (`plexer_info`).
- `free`: nothing is waited for. The marker is read together with data and sent as data
  (`plexer_marker`).
- `flushed`: everything written has left the down pipe. A late message of the other end finds no
  stream. At a master that interrupts a healthy connection (`HealthyStaysUp`). A slave's own ids are
  odd, which the check at l.729 does not notice, and the slave is told of a new stream under the id
  of its own (`CallbacksOrdered` with `Creators = {"slave"}`).

What is read from freed memory is taken to be what was there: the model counts the use
(`dangling`) and goes on.

### 2.3 DispatchSource

`sources` is `gDispatch->sources`, as a set: no step depends on the order of the array.
`servicingSem[s]` is the count of a source's semaphore. `selectAt`, `fds`, `toServe` and
`failures` are the select thread's place in its loop, its descriptor sets (what to watch before
select, what is ready after it), the sources its second scan has still to visit, and
`consecutiveFailures`. `queueStack`, `running` and `at` are the queues. `isOpen`, `data` and
`arrived` are the descriptors, external to the code; `arrived`, which counts what came since one was
opened, only bounds the model.

| Code | Actions |
|---|---|
| `YMDispatchSourceCreate` | `Create` |
| `YMDispatchSourceDestroy` | `Remove`, `AwaitServicing`, `FreeSource` |
| `__YMmDNSBrowserRemoveServiceRef` | `CloseFirst`, then the destroy above on the global queue |
| `__ym_dispatch_source_select_loop` | `FirstScan`; `SelectFails`, `SelectTimesOut` or `SelectReady`; `LockSources`, `ServeSource` per source, `EndScan` |
| `__ym_dispatch_service_loop`, `__ym_source_select_wrapper` | `TakeWrapper`, `RunProc`, `EndWrapper` |

The first scan is one action. It runs under `sourcesLock`, so the list does not change; what
can change are semaphores and descriptors, and a source that is skipped or watched a moment
earlier or later is one that another order of the same steps gives. The second scan is a step per
source, because it changes semaphores and queues; `sourcesLock` is held while `selectAt` is
`"serve"`, and `Create` and `Remove` wait for that.

The signal pipe is left out. A creation and the end of a wrapper write a byte to it so that select
returns at once; select returns after 10 ms in any case, so the byte hastens a scan and decides
nothing. What the pipe itself can do to the process is a listed hazard. Select failing because a
signal interrupted it counts as a failure in the code and is left out as well: the failures the
model has come from closed descriptors. Readable and writeable ends are numbered apart in `FdOf`,
as the code keeps two sets.

Data may arrive at any moment a descriptor is open: before a source is found ready, while its proc
is dispatched or runs, and after a proc that read only some of it. A client's proc reads some of
what has arrived and blocks while nothing has, which is why
`DispatchedWhenReady` matters: a queue has one thread. A source is destroyed by a dispatch on the
global queue, as every client of the repository does it, never by its own proc.

### 2.4 DispatchTimer

`orderedTimers`, `lock` and `time` are the fields of `gDispatch` and of a timer; `due` is the
deadline it is armed for, which its place in the array may exceed by a nanosecond. `armed` and
`alarms` are the kernel's: timers that have still to expire and signals not yet delivered. Linux
keeps one pending signal for each timer, so `alarms` is a count; POSIX would allow it to merge
them. `pc` is a thread's place in `YMDispatchAfter`, and `handler` its place in the alarm handler
that interrupted it: while it is there the thread does not go on with the call.

| Code | Actions |
|---|---|
| `YMDispatchAfter` | `ReadClock`, `LockAndInsert`, `Arm`, `Unlock` |
| `__ym_dispatch_sigalarm` | `Deliver`, `PopFirst`, `DispatchTimer` |

A thread that is interrupted between `LockAndInsert` and `Unlock` waits in its handler for the
lock it holds, for ever: the lock is a plain mutex. The model does what the code does, and the
properties say what holds up to there. The dispatch the handler makes is one step here; what its
locks and allocations may interrupt in the thread it runs on is not modelled.

A tick is more nanoseconds than there are timers, so a bumped time never reaches the next tick.

### 2.5 Session

One session, with connections the user opens and connections the peer opens (`Incoming`). `lock`,
`listed`, `default`, `interrupter` and `acceptExit` are the session's self lock,
`connectionsByAddress`, `defaultConnection`, the `interrupted` flag (as who set it) and
`acceptExitFlag`; `srefs` and `refs` the reference counts of the session and of its connections.
Of a connection's plexer there is what `Plexer` promises: whether it is up, cut by a failure or
stopped; whether its event queue has the interruption still to deliver; and a stop that clears the
callbacks and joins that queue. The threads are the user's, the accept queue's, the one that sets a
connection up, and the one of each event queue. Every thread may come to give back the last
reference of a connection or of the session, so the actions of a release have the thread as a
parameter.

| Code | Actions |
|---|---|
| `YMSessionConnectToPeer`, `__ym_session_connect_async_proc` | `ConnectToPeer`, `Connect`, `Initialise`, `AddConnection`, `SetCallbacks`, `SetDefault`, `Announce` |
| `__ym_session_accept_proc`, `__ym_session_init_incoming_connection_proc` | `Accept`, `AcceptFails`, then from `Initialise` as above |
| `YMSessionStopAdvertising`, `YMSessionCloseAllConnections`, `YMSessionStop`, `YMRelease` of the session | `StopAdvertising`, `Close`, `ReleaseByUser` |
| the plexer's events, `__ym_session_connection_interrupted_proc` | `FailLink`, `HearStream`, `StreamHeard`, `HearInterrupted`, `Tell` |
| `__YMSessionInterrupt` | `Enter`, `Sweep`, `Swept` |
| `YMRelease` of a connection, `_YMConnectionFree`, `__YMConnectionDestroy`, `YMConnectionClose` | `Drop`, `CloseSwept`, `JoinEvents` |
| `_YMSessionFree` | `ReleaseSession`, `Enter` as above, `FreeSession` |

`ConnectToPeer` does something only while no connection is listed: the check whether the peer is
connected already (l.381) compares an address with itself, so that any connection counts. The
reference the user gets from it is one with the connecting thread's.

`AddConnection`, `SetCallbacks` and `SetDefault` are separate, since only the first runs under the
lock. What the model follows although it is hardly meant: a connection opened by the user gives
the session's reference back before its own (l.465), so its callbacks may outlive the session;
the interrupted flag is never reset; `YMSessionStop` leaves the default connection dangling; the
accept loop may give back the session's last reference on the queue that its release joins (l.646).

### 2.6 Transfer

One stream. The originator asks for a compression, sends the initialisation raw, and switches its
framing; the remote end reads it inside the plexer's callback, switches, and answers in the new
framing. Then the originator forwards files into the stream and the remote end forwards them out.
`down` and `up` are the two pipes in the direction of the data, bounded, as sequences of what is
read as a whole or not at all: a byte or a command when written raw, a packet with LZ4. `cut` is an
interruption, after which nothing moves and every reader comes to an end of file. `opc` and `rpc`
are the two users' threads, `aborted` the processes an assertion has ended.

| Code | Actions |
|---|---|
| `YMConnectionCreateStream`, `__YMConnectionInitializeOutgoingStream` | `CreateStream`, `StreamCreated` |
| `__YMConnectionInitializeIncomingStream` | `AcceptStream` |
| `YMStreamReadFromFile` (the sender's side of `YMStreamForward`) | `ForwardFile`, `ForwardChunk`, `ForwardEnd` |
| `YMStreamWriteToFile` (the receiver's) | `ReceiveFile`, `ReadCommand`, `ReadLength`, `ReadHeader`, `ReadByte`, `ReadPacket`, `ReadCutShort`, `ReadEOF`, `FinishFile` |
| `YMConnectionCloseStream` | `CloseStream` |
| the plexer's part | `Move`, `MoveAnswer`, `Cut`, `Gone` |

The down thread reads up to 16384 bytes at once (`YMStream.c` 183-198), so `Move` takes any
beginning of the down pipe as one message. `CloseStream` puts the marker behind the last write at
once. It is a close only when a message is the marker and nothing else (`YMPlexer.c` 573-588);
behind data it goes to the other end as data, raw whatever the framing is, and the stream is not
closed. The remote user is taken to know how many files to expect, and so never reads it: one that
reads until the end of file instead would take it for a command.

A file is the positions of its bytes, so that a byte lost, doubled or out of place shows. A process
that an assertion ended takes the connection with it (`Gone`). `YMConnectionCreateStream` returns a
stream that the other end refused (l.809): the model has it, and what the originator then forwards
fills the pipes.

## 3. Runs

The runs of queues, plexers, timers, sessions and transfers set `CHECK_DEADLOCK FALSE`. When every
job was submitted, every stream closed or every connection tried, nothing remains to be done and
the system rests; in `timers` the clock stops at its bound, and a thread may wait for itself, which
in `session` the code may do too. `sources` checks for deadlock: the select loop always goes on.

| Run | Instance | Checks |
|---|---|---|
| `dq_user` | user queue, 2 callers, 3 jobs, procs dispatch to their queue, release at any time, fair | `SignalsMatchStack`, `TakenInOrder`, `ImplementsExecutor`, `NothingStartsAfterExit`, `EveryJobRuns`, `EverySyncReturns`, `ReleaseReturns` |
| `dq_global` | global queue, 1 thread growing to 4, 3 jobs, procs wait for procs, fair | `RecordsOwned`, `EverySyncReturns` |
| `plexer_settled` | both ends create a stream, write, answer, close when settled, fair | `TypeOK`, `DeliveredInOrder`, `CallbacksOrdered`, `PlexerUsesLiveInfo`, `HealthyStaysUp`, `EveryWriteArrives`, `EveryCloseCompletes` |
| `plexer_fail` | one stream through TLS, a write, a close, a link failure and a stop of the other end at any time, fair | `NotifiedOnce`, `EofMeansComplete`, `StoppedIsQuiet`, `InterruptionSpreads`, `InterruptionNotified`, `StopReturns` |
| `sources` | two streams on one queue, a service reference on its own, created and destroyed at any time, data arriving while serviced, fair | `TypeOK`, `ServicedByOne`, `SourceOutlivesUse`, `DispatchedWhenReady`, `EveryDestroyReturns`, `EveryArrivalServiced` |
| `timers` | four timers, two threads that make them, one that only gets signals | `NeverEarly`, `NoTimerStranded` |
| `session` | one connection opened, one accepted, both may fail, the user stops, closes or releases at any time | `TypeOK`, `RefsMatchHolders`, `InterruptedOnce`, `DefaultIsListed`, `CallbacksOutlived` |
| `transfer` | three compressions, two files of up to five bytes with or without a bound, the link cut at any time, fair | `TypeOK`, `FramingAgrees`, `FilesArrive`, `AbortsExplained`, `EveryForwardEnds` |

Runs that expect a violation show where the code does not do what its comments or users say:

| Run | Shows |
|---|---|
| `dq_dos` | `EveryJobStarts`: a proc that never returns and one dispatch after it, made before the thread of the first is marked busy: the global queue adds no thread and the dispatch never starts, which `test/ym-dispatch-test.c` ("dos") says it does |
| `plexer_marker` | `DeliveredInOrder`: the close marker is sent as data when it is read together with data |
| `plexer_info` | `InfoOutlivesUse`: a remote user that closes after the originator, as the tests do, makes `YMPlexerCloseStream` read freed user info |
| `session_hang` | `InterruptionTold`: when two connections fail together, the first callback holds the session's lock while it joins the event queue of the second, whose callback waits for that lock; the user is never told |

Behaviours the models contain and no run states. Each is reached by a change of one constant, or
breaks a property that would say no more than its line:
- releasing a user queue with work in it can hang: l.441-448 of `YMDispatch.c` wait, under the lock,
  for a service thread that needs it (`ReleaseReturns` in `dq_user` without `Drained`); a proc that
  dispatches synchronously to its own user queue waits for itself (`EverySyncReturns` with `"sync"`
  in `NestedModes`);
- the passthrough provider's close reaches nobody, so that a stopped plexer leaves the other end
  waiting (`InterruptionSpreads` in `plexer_fail` with `Provider = "none"`), although
  `private/YMPlexer.h` 34 says that a stop closes the file;
- a late message for a closed stream interrupts a healthy connection (`HealthyStaysUp` with
  `CloseRule = "flushed"`), or is announced to a slave as a stream of the other end
  (`CallbacksOrdered` with a slave that creates);
- an interruption leaves every dispatch source registered (`YMPlexer.c` 399); running out of ids
  interrupts under a lock that interruption takes (330);
- what section 2.5 lists of sessions.

### Bounds

The properties of a queue are about pairs: two callers in the same call, a caller against the
service thread, a releasing thread against both; two callers and three jobs give each pair
something queued before and after it. `Workers` bounds the growth of the global queue. A dispatch
adds at most one thread, so in `dq_global` one thread and three jobs never need a fifth:
`CheckExpand` is never held back by the bound; nor is it with three threads for the two jobs of
`dq_dos`. A stream's hazards are between one close, one write before it and one write from the
other end. In `plexer_fail` the one write may be anywhere between the two users when the close, the
failure or the stop comes, and only the slave's user stops: it is the one that is called for
streams. Order among several writes is in the theorems. Two streams in `plexer_settled`, one in
each direction, share the wire and every thread. `MaxID = 1` gives one id to each end, so that ids
wrap at once. The originator of a stream writes at most `MaxWrites` times, its other end at most
`MaxReplies` times.

In `sources` two sources on one queue wait for each other's procs, and the third has the other way
to be destroyed, descriptor first; `MaxFailures = 1` stands for the ten failures the code puts up
with, so that a reset happens after the second. One unit of data is what a race for a source's
semaphore takes: a source serviced twice finds nothing the second time. One stream gets a second
unit, which may come while the first is serviced, or with it, so that a proc reads only a part and
nothing further arrives to make the source ready. In the run every source has a descriptor number
of its own; see section 4 for what depends on it. In `timers` two delays and a clock of two ticks
give equal deadlines, deadlines in either order and timers already due when they are armed; four
timers let a bumped one have neighbours on both sides.

In `session` two connections are what any of its hazards takes: one whose callback interrupts and
one that is swept, one being added while the other fails; both links may fail (`MaxFailures`). One
is incoming because the two kinds give their references back in a different order. The user makes
one of the calls that close the session before or instead of releasing it. In `transfer` buffers
of two bytes and files of 0, 1, 2, 3 and 5 give no buffer, a part of one, exactly one, one and a
part, and more than two; bounds of 0, 2, 3 and 5 are below, at and above the size and at a multiple
of the buffer and not. A pipe of four units makes the sender wait for the reader in the middle of a
file. The second file shows what the first leaves behind.

### Fairness

Weak fairness of each thread, because each is an operating system thread that is scheduled when it
can go on: the callers inside a call, the service threads, the releasing thread; in `Plexer` the
threads of the three queues, the interrupting thread, the global queue and `StopJoin`. Users need
not create, write, close or stop. The select loop looks at all ready streams, so no stream is
passed over for ever while it is ready; with a bounded number of writes per stream fairness of the
down thread as a whole is enough. In `DispatchSource` the select thread, each queue's thread and a
destroy that has begun are fair; that a source is created, closed, destroyed or sent anything is up
to the clients. Its queues are in first-in order and the second scan visits every source, so
fairness per thread is enough there too. In `Session` the threads that set a connection up, the
event queues and whoever releases are fair; the user, the peer and the network are not. In
`Transfer` the plexers and the two users' threads are: a forward under way is code of the library,
and the users are taken to open a stream, forward all files and close it. Links need not fail, but
the link of a process that ended does (`Gone`). No liveness is stated of timers: the handler may
wait for its own thread.

## 4. Proofs

`DispatchQueueProofs` proves of `Spec`, for any finite sets of callers, service threads and jobs
that satisfy `DispatchAssumption` (at least one initial thread; callers and service threads are
different; a user queue has one thread; only user queues are released):

| Theorem | States |
|---|---|
| `TypeCorrect` | `[]TypeOK` |
| `OrderCorrect` | `[]TakenInOrder`: `appended = started \o queueStack` |
| `OwnershipCorrect` | `[]RecordsOwned`: a record has one owner, and none once freed or signalled |
| `RecordsCorrect` | `[]RecordsOutliveUse` |
| `SignalsCorrect` | `[]SignalsMatchStack` |
| `ReleaseCorrect` | `NothingStartsAfterExit` |
| `QueueImplementsExecutor` | `ImplementsExecutor`: every step of the queue is a step of `Executor` or changes nothing it sees |

The argument. `TypeOK` is inductive by itself. `TakenInOrder` is inductive over it: an append adds
to the ends of both sides (`AppendToSuffix`), taking moves the head of the list to the end of what
was started (`MoveHead`). `RecordsOutliveUse` is not inductive: that a service thread's record is
not freed depends on no other thread holding it, and that a waiting caller's record is not freed
depends on how it came to be signalled. `RecordsOwned` is the strengthening. Its parts are: two
threads are never in a call for the same job; a record a caller still owns is neither in the list
nor with a service thread; the list has no job twice and none that a service thread has; two
service threads never have the same one; a job that is new, freed or whose semaphore was signalled
has no owner; a synchronous caller's record is not freed before it returns. `OwnInit` and `OwnStep`
show it inductive over `TypeOK`, one step per action, and `OwnImpliesUse` derives
`RecordsOutliveUse`.

For the last three, `PromiseInv` adds to these invariants that a job is appended once
(`AppendedOnce`), that what is held, finished, signalled and returned follows on what was started
(`Progress`), and that the thread that releases the queue holds the lock until every service
thread has left (`Exiting`). `SignalsMatchStack` is an equation between the length of the list and
the sizes of sets of threads; each action moves at most one thread into or out of one of the sets,
and for each there is a lemma that says which. A user queue has one service thread, so it is not
in the loop once the releasing thread is past its wait. The refinement is one step per action; the
abstract running set changes by the job at the head of the list, which `TakenInOrder` places.

`DispatchSourceProofs` proves of the `Spec` of `DispatchSource`, for any set of sources and queues
and any assignment of queues and descriptors that satisfies `SourceAssumption`:

| Theorem | States |
|---|---|
| `SourceTypeCorrect` | `[]TypeOK`, of which the semaphore's count being at most one is the part with content |
| `ServicingCorrect` | `[]ServicedByOne` |
| `MemoryCorrect` | `[]SourceOutlivesUse` |
| `ReadinessCorrect` | `[]DispatchedWhenReady`, if no two sources have the same descriptor number (`OwnDescriptors`) |

The argument. The first three hold together or not at all: the semaphore stays at one or below
because only a wrapper signals it, a wrapper exists only while the semaphore is taken, and a source
is freed only by whoever took the semaphore last. `SourceInv` is their conjunction with three more
facts: a wrapper in a queue or on its thread is one of a source of that queue (`OwnWrappers`); what
can be read of a descriptor never exceeds what arrived (`DataArrived`);
a listed source is live, and the second scan visits listed sources only (`ListedLive`). There is
a lemma for each of the steps of clients, of the select thread and of the queues' threads. Fairness
is not needed. `ReadinessCorrect` follows a source from the first scan to its proc: while select
watches it, or has found it ready and the second scan has not passed it, no wrapper of it exists,
so nobody reads what made it ready (`ReadyInv`). With numbers that are closed and used again the
property is false, as it is of the code: the hypothesis is needed.

`DispatchTimerProofs` proves of the `Spec` of `DispatchTimer`, for any number of timers, callers
and other threads, any delays and any ticks:

| Theorem | States |
|---|---|
| `NeverEarlyCorrect` | `[]NeverEarly` |
| `TimersCorrect` | `[]NoTimerStranded` |

The argument. A signal does not say which timer it is for, so the handler takes the first. `TimerInv`
says why that one is due: the array is in the order of the deadlines and has no timer twice
(`Sorted`); a timer in it that is not yet due still has its kernel timer to come (`Covered`); and
the array is as long as there are timers to expire, signals to deliver and handlers to pop
(`Counted`). If a handler found a first timer that is not due, no timer would be, all of them would
still have their kernel timers, and the array would be no longer than the set of those: but the
handler itself is one more (`FirstIsDue`, which maps the places of the array into the set and
compares sizes).

`PlexerProofs` proves of the `Spec` of `Plexer`, for any number of ids, streams and writes, every
`CloseRule` and every failure:

| Theorem | States |
|---|---|
| `PlexerTypeCorrect` | `[]TypeOK` |
| `InterruptionToldOnce` | `[]NotifiedOnce` |
| `StopCorrect` | `StoppedIsQuiet` |

The argument. `Typed` gives every variable its full type and is inductive, one lemma for each
thread. The other two are about the event queue as a sequence. `OnceAt`: whoever finds the plexer
active clears the flag and is the only thread to go through the interruption; it posts one
notification, and a notification in the queue or under way means that none was told before.
`QuietAt`: only the dispatch at the head has looked for its callback; `YMPlexerStop` clears the
callbacks before it joins, and the join's own dispatch (`by = "user"`) passes only when what was
before it is done. `OthersKeep`, `PostStep`, `ProceedStep` and `AnswerStep` say what the operators
the actions share do to both, and each action is then one of these.

`PlexerStreamProofs` and `PlexerFlowProofs` prove what depends on what the users do, from named
hypotheses about the constants:

| Theorem | Hypotheses | States |
|---|---|---|
| `DeliveryCorrect` | `Disciplined` | `[]DeliveredInOrder` |
| `EofCorrect` | `Disciplined` | `[]EofMeansComplete` |
| `CallbacksCorrect` | `Disciplined` | `[]CallbacksOrdered` |
| `InfoCorrect` | `IdsSuffice`, `ClosesSettled` | `[]PlexerUsesLiveInfo` |
| `HealthyCorrect` | `IdsSuffice`, `MarkerAlone`, `NoLateReply` | `[]HealthyStaysUp` |

- `IdsSuffice`: no id is used twice. Ids are 64 bits wide in the code.
- `MarkerAlone`: the marker of a close is never read together with data, because whoever closes
  has waited for its down pipe to drain, or because a read returns one write.
- `ClosesSettled`: no originator closes a stream before everything was read and the other end has
  nothing more to write. When the other end's user closes is left open.
- `NoLateReply`: the same, or the far end of a stream never writes to it.
- `Disciplined`: `IdsSuffice`, `MarkerAlone`, and either `NoLateReply` or only the master creates
  streams (a slave's originating end that gets a late reply takes it for a new stream, l.735).

They are what the code leaves to its users. Without `MarkerAlone`, `plexer_marker` violates
`DeliveredInOrder`; the other theorems have it from the shared invariant, and on instances of one
stream TLC finds nothing wrong with them where a marker is lost. Each of the other hypotheses is
needed by every theorem that has it: on instances of one or two streams TLC finds each of the five
properties violated where ids are used again, the first three where a slave's stream gets a late
reply, `HealthyStaysUp` where any stream does, and `PlexerUsesLiveInfo` where a close waits only
for what was written to be read. The instances of `plexer_settled` and `plexer_fail` satisfy the
hypotheses of the properties they check.

The argument. `StreamInv` follows every stream, for each of its two ends, from the pipe it is
written to down to the reader. A position on a stream is a number of writes; the close is one more.
`PipeAt`: the down pipe holds the writes after the position the down thread has reached, in order,
the marker last. `ReaderAt`: the up pipe holds the writes up to some position, in order. `PathAt`
joins the two: there are positions such that the message in the up thread's hand, the messages of
this stream on the wire (`Flow`) and the message the down thread is about to send lead from what
the reader has got to what left the pipe, with the close only after the last write. It is the same
idea as `FlowOK` below, with many streams on one wire: a message of another stream leaves the
position where it is. An interruption ends the path at the reader's end or cuts it at the writer's.
The path needs to know that the record the up thread will find is the one the message was sent for:
`RecordAt` (who made a stream, whether it is listed, when its info is freed), `UpAt`, `EventsAt`
and `HeardAt` (what the up thread, the event queue and the user hold of it; `HeardAt` is also
`CallbacksOrdered`), and `SettledAt` (a stream whose close was handed over has nothing under way in
the other direction). `StepCases` reduces a step to what it does to one end; then there is one
lemma for each kind of thread and part of the invariant. `DeliveredInOrder` and `EofMeansComplete`
are read off `ReaderAt` and `PathAt`. For user infos, `FreedInv` says that a remote end's info is
freed only when its originator has closed, so that under `ClosesSettled` no thread of the plexer
has a use for it left (`FreedIsDone`). The remote user may have one, the close that `plexer_info`
shows. For `HealthyStaysUp` each way into `Interrupt` is excluded: the link holds, the provider is
open, the far end is up, and the stream a message names is there to take it (`SoundStaysUp`).

`SessionProofs` proves of the `Spec` of `Session`, for any finite set of
connections, any of them incoming, any of the user's operations and any number of failures:

| Theorem | States |
|---|---|
| `InterruptionCorrect` | `[]InterruptedOnce` |
| `DefaultCorrect` | `[]DefaultIsListed` |
| `SessionTypeCorrect` | `[]TypeOK`: in particular no count drops below zero |
| `ReferencesCorrect` | `[]RefsMatchHolders` |
| `CallbacksCorrect` | `[]CallbacksOutlived` |

The argument. `SessionInv` has where each kind of thread can be (`Shape`), that the critical section
that spans several steps has one thread in it (`Excluded`), that the callback that interrupts the
session has told nobody yet (`Telling`) and that a connection about to become the default is listed
(`Defaults`). For the counts, `ReleaseInv` adds who holds what: `Counted`, that a connection's count
is the sum of its possible holders; `Callback`, that a callback which kept the dictionary's reference
is the one that interrupted, so that the sweep and the callback do not both give it back, and that
whoever stopped a plexer is joining its events; `SessionCounted`, that the session's count is the
number of threads that will release it. From these, nobody who sets up a connection is left when
the session is freed (`NobodySetsUp`), and after a release that interrupts first each connection is
gone or on its way out (`Releasing`, `OnItsWay`), which is what `CallbacksOutlived` needs. The
exception in `SessionOutlived` is `Leaving`: it is the order of l.465.

`TransferProofs` proves of the `Spec` of `Transfer`, for any number of files of any sizes, bounded
or not, any compression, any size of buffer and any pipe larger than that:

| Theorem | States |
|---|---|
| `TransferTypeCorrect` | `[]TypeOK` |
| `FramingCorrect` | `[]FramingAgrees` |
| `FilesCorrect` | `[]FilesArrive` |
| `AbortsCorrect` | `[]AbortsExplained` |

The argument. A place in the stream says what may come next there (`Accepts`) and where the reader
is after it (`After`). `FlowOK`, the heart of `TransferInv`, says that the units on their way, in
the up pipe and then in the down pipe, are a path from the place of the reader (`ReaderAt`) to that
of the writer (`WriterPlace`), or to anywhere once the link is cut or the file had less than was to
be sent. Writing extends the path at its end (`FlowWritten`), for which `ChunkFlow` shows that one
buffer leads from one place of the writer to the next; reading takes its first step (`FlowRead`);
moving any part of the pipe changes nothing of it, and a cut leaves a part from its beginning. The
marker is the last unit of the path (`MarkerLast`): moved alone it is dropped from the end, moved
with data it stays behind the last file, which is the exception in `FramingAgrees` for a reader that
has got all files (`AllTaken`). Each unit that is
read is thus the one its place accepts (`FirstAccepted`), which is `FramingAgrees`; and an end of
file without a cut means that the path is empty and the writer has closed, so that the reader is
between files (`EndOfStream`). `WriterOK` and `ReaderOK` relate the counters of the two loops to
the file, which gives the lengths in `FilesArrive` and, where an assertion fails, the bound that
was not met.

### What is only model-checked

All liveness: the prover reasons about neither fairness nor ENABLED, so the properties of the form
`~>` rest on the bounds of section 3. Every invariant and every action property that a passing run
checks is also a theorem. What the theorems of the plexer leave to TLC is what
happens to users outside their hypotheses; section 3 lists what it finds there.

## 5. Not modelled

Most of the repository's text is not the library's own logic: the headers of OpenSSL and LZ4 under
`win/include`, the ports and project files for Windows, macOS and iOS under `win` and `osx`. Of the
library itself:

- Threads, locks and semaphores are taken at their meaning, not from their code; a semaphore wait
  that fails is not modelled (`YMSemaphoreWait` retries or gives up after printing). Memory
  allocation failure aborts and is left out. Reference counts, arrays and dictionaries are numbers,
  sequences and sets; their code is sequential under a lock.
- The inside of TLS, the DNS-SD daemon and the kernel are external. The plexer's greeting comes
  before what `Plexer` begins with.
- Browsing, resolving and the list of known peers change what a session can connect to, from one
  queue; a session that advertises again after it stopped is not in `Session`. The exchange of
  interfaces and the sampling of a connection's link only choose what is logged.
- `YMLocalSocketPair` and `YMTask` serve the tests; the log's queue is an instance of
  `DispatchQueue`. Formatting, logging and platform queries are left out.

`PROJECT.json` says of each component what is in a model and what is not.

## 6. What could come next

1. An abstract ordered channel that each stream of `Plexer` implements, from `StreamInv`.
2. The plexer's greeting, with the up source registered before it.
3. The signal pipe of the select loop, with a capacity and descriptors below and above it.
4. `LocalSocketPair` and `Task`: the threads and what they share with stop and release.
5. A session that advertises, stops and advertises again, with the flags that are never reset.
