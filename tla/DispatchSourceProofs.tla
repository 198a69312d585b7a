------------------------ MODULE DispatchSourceProofs ------------------------
(***************************************************************************)
(* Theorems about DispatchSource, for any number of sources, queues and    *)
(* descriptors, however these are shared.                                  *)
(***************************************************************************)
EXTENDS DispatchSource, TLAPS

(* What the type invariant needs to be inductive.  A queue holds only its own *)
(* sources; what can be read is part of what arrived; and the semaphore of a  *)
(* source being serviced is taken, so signalling it does not exceed one.      *)
OwnWrappers ==
  \A q \in Queue :
    /\ \A i \in DOMAIN queueStack[q] : QueueOf[queueStack[q][i]] = q
    /\ at[q] = "proc" => running[q] \in Source /\ QueueOf[running[q]] = q

DataArrived == \A s \in Source : data[s] <= arrived[s]

(* Only a live source is listed or about to be served.                        *)
ListedLive ==
  /\ \A s \in sources : state[s] = "live"
  /\ toServe \subseteq sources
  /\ selectAt # "serve" => toServe = {}

SourceInv ==
  TypeOK /\ OwnWrappers /\ DataArrived /\ ListedLive /\ ServicedByOne /\ SourceOutlivesUse

LEMMA SourceInit == Init => SourceInv
<1> SUFFICES ASSUME Init PROVE SourceInv
  OBVIOUS
<1> USE SourceAssumption DEF SourceAssumption, Init
<1>1. TypeOK
  <2>1. state \in [Source -> States]
    BY DEF States
  <2> QED
    BY <2>1 DEF TypeOK
<1>2. OwnWrappers /\ DataArrived /\ ListedLive
  BY DEF OwnWrappers, DataArrived, ListedLive
<1>3. ServicedByOne /\ SourceOutlivesUse
  BY DEF ServicedByOne, SourceOutlivesUse, Pending, InProc
<1> QED
  BY <1>1, <1>2, <1>3 DEF SourceInv

(* The steps that leave the queues, their threads and the semaphores alone    *)
(* disturb neither the wrappers nor who services a source.                    *)
LEMMA QueuesAlone ==
  ASSUME SourceInv, UNCHANGED <<queueVars, servicingSem>>
  PROVE  OwnWrappers' /\ ServicedByOne'
<1>1. OwnWrappers'
  BY DEF SourceInv, OwnWrappers, queueVars
<1>2. ServicedByOne'
  BY DEF SourceInv, ServicedByOne, Pending, InProc, queueVars
<1> QED
  BY <1>1, <1>2

LEMMA DescriptorsAlone ==
  ASSUME SourceInv, UNCHANGED fdVars
  PROVE  DataArrived'
BY DEF SourceInv, DataArrived, fdVars

(* The steps of clients.                                                      *)
LEMMA ClientStep ==
  ASSUME SourceInv, NEW s \in Source, Arrive(s) \/ Client(s)
  PROVE  SourceInv'
<1> USE SourceAssumption DEF SourceAssumption
<1> USE DEF SourceInv
<1>1. CASE Arrive(s)
  <2>1. TypeOK'
    BY <1>1 DEF Arrive, TypeOK, DataArrived, queueVars, selectVars
  <2>2. DataArrived'
    BY <1>1 DEF Arrive, TypeOK, DataArrived
  <2>3. ListedLive' /\ SourceOutlivesUse'
    BY <1>1 DEF Arrive, ListedLive, SourceOutlivesUse, Pending, InProc, queueVars, selectVars
  <2> QED
    BY <1>1, <2>1, <2>2, <2>3, QueuesAlone DEF Arrive
<1>2. CASE Create(s)
  <2>1. TypeOK'
    BY <1>2 DEF Create, TypeOK, States, queueVars, selectVars
  <2>2. DataArrived'
    BY <1>2 DEF Create, DataArrived
  <2>3. ListedLive' /\ SourceOutlivesUse'
    BY <1>2 DEF Create, TypeOK, ListedLive, SourceOutlivesUse, Pending, InProc, queueVars, selectVars
  <2> QED
    BY <1>2, <2>1, <2>2, <2>3, QueuesAlone DEF Create
<1>3. CASE CloseFirst(s)
  <2>1. TypeOK'
    BY <1>3 DEF CloseFirst, CloseDescriptor, TypeOK, queueVars, selectVars
  <2>2. DataArrived'
    BY <1>3 DEF CloseFirst, CloseDescriptor, TypeOK, DataArrived
  <2>3. ListedLive' /\ SourceOutlivesUse'
    BY <1>3 DEF CloseFirst, CloseDescriptor, ListedLive, SourceOutlivesUse, Pending, InProc, queueVars, selectVars
  <2> QED
    BY <1>3, <2>1, <2>2, <2>3, QueuesAlone DEF CloseFirst, CloseDescriptor
<1>4. CASE Remove(s)
  <2>1. TypeOK'
    BY <1>4 DEF Remove, TypeOK, States, queueVars, selectVars, fdVars
  <2>2. ListedLive' /\ SourceOutlivesUse'
    BY <1>4 DEF Remove, TypeOK, ListedLive, SourceOutlivesUse, Pending, InProc, queueVars, selectVars
  <2> QED
    BY <1>4, <2>1, <2>2, QueuesAlone, DescriptorsAlone DEF Remove
<1>5. CASE AwaitServicing(s)
  <2>1. TypeOK'
    <3>1. servicingSem' \in [Source -> 0..1]
      <4>1. CASE QueueOf[s] \in UserQueues
        <5>1. servicingSem[s] > 0 /\ servicingSem' = [servicingSem EXCEPT ![s] = @ - 1]
          BY <1>5, <4>1 DEF AwaitServicing
        <5>2. servicingSem[s] \in 0..1 /\ servicingSem \in [Source -> 0..1]
          BY DEF TypeOK
        <5>3. servicingSem[s] - 1 \in 0..1
          BY <5>1, <5>2
        <5> QED
          BY <5>1, <5>2, <5>3
      <4>2. CASE QueueOf[s] \notin UserQueues
        BY <1>5, <4>2 DEF AwaitServicing, TypeOK
      <4> QED
        BY <4>1, <4>2
    <3>2. state' \in [Source -> States]
      BY <1>5 DEF AwaitServicing, TypeOK, States
    <3> QED
      BY <1>5, <3>1, <3>2 DEF AwaitServicing, TypeOK, queueVars, selectVars, fdVars
  <2>2. ListedLive' /\ SourceOutlivesUse'
    BY <1>5 DEF AwaitServicing, TypeOK, ListedLive, ServicedByOne, SourceOutlivesUse,
                Pending, InProc, queueVars, selectVars
  <2>3. OwnWrappers'
    BY <1>5 DEF AwaitServicing, OwnWrappers, queueVars
  <2>4. ServicedByOne'
    <3>1. UNCHANGED queueVars /\ \A t \in Source : servicingSem[t] = 0 => servicingSem'[t] = 0
      BY <1>5 DEF AwaitServicing, TypeOK
    <3>2. \A t \in Source : Pending(t)' = Pending(t) /\ (InProc(t)' <=> InProc(t))
      BY <3>1 DEF Pending, InProc, queueVars
    <3> QED
      BY <3>1, <3>2 DEF ServicedByOne
  <2> QED
    BY <1>5, <2>1, <2>2, <2>3, <2>4, DescriptorsAlone DEF AwaitServicing
<1>6. CASE FreeSource(s)
  <2>1. TypeOK'
    BY <1>6 DEF FreeSource, CloseDescriptor, TypeOK, States, queueVars, selectVars
  <2>2. DataArrived'
    BY <1>6 DEF FreeSource, CloseDescriptor, TypeOK, DataArrived
  <2>3. ListedLive' /\ SourceOutlivesUse'
    BY <1>6 DEF FreeSource, CloseDescriptor, TypeOK, ListedLive, SourceOutlivesUse, Pending, InProc, queueVars, selectVars
  <2> QED
    BY <1>6, <2>1, <2>2, <2>3, QueuesAlone DEF FreeSource, CloseDescriptor
<1> QED
  BY <1>1, <1>2, <1>3, <1>4, <1>5, <1>6 DEF Client

(* The steps of the select thread that dispatch nothing.                      *)
LEMMA SelectStep ==
  ASSUME SourceInv,
         FirstScan \/ SelectFails \/ SelectReady \/ SelectTimesOut \/ LockSources \/ EndScan
  PROVE  SourceInv'
<1> USE SourceAssumption DEF SourceAssumption, SourceInv
<1>1. UNCHANGED <<queueVars, servicingSem, fdVars, state>> /\ sources' \subseteq sources
  BY DEF FirstScan, SelectFails, SelectReady, SelectTimesOut, LockSources, EndScan
<1>2. TypeOK'
  <2>1. fds' \subseteq Nat
    <3>1. CASE FirstScan
      BY <3>1 DEF FirstScan, TypeOK
    <3>2. CASE SelectReady
      BY <3>2 DEF SelectReady, TypeOK
    <3>3. CASE LockSources
      BY <3>3 DEF LockSources, TypeOK
    <3>4. CASE SelectFails \/ SelectTimesOut \/ EndScan
      BY <3>4 DEF SelectFails, SelectTimesOut, EndScan
    <3> QED
      BY <3>1, <3>2, <3>3, <3>4
  <2>2. selectAt' \in {"scan", "select", "ready", "serve"}
    BY DEF FirstScan, SelectFails, SelectReady, SelectTimesOut, LockSources, EndScan
  <2>3. failures' \in 0..MaxFailures + 1
    <3>1. CASE SelectFails
      <4>1. CASE failures > MaxFailures
        BY <3>1, <4>1 DEF SelectFails, TypeOK
      <4>2. CASE ~(failures > MaxFailures)
        BY <3>1, <4>2 DEF SelectFails, TypeOK
      <4> QED
        BY <4>1, <4>2
    <3>2. CASE SelectTimesOut \/ EndScan
      BY <3>2 DEF SelectTimesOut, EndScan
    <3>3. CASE FirstScan \/ SelectReady \/ LockSources
      BY <3>3 DEF FirstScan, SelectReady, LockSources, TypeOK
    <3> QED
      BY <3>1, <3>2, <3>3
  <2>4. toServe' \subseteq Source
    BY DEF TypeOK, FirstScan, SelectFails, SelectReady, SelectTimesOut, LockSources, EndScan
  <2> QED
    BY <1>1, <2>1, <2>2, <2>4, <2>3 DEF TypeOK, queueVars, fdVars
<1>3. ListedLive'
  <2>1. /\ toServe' \subseteq sources'
        /\ selectAt' # "serve" => toServe' = {}
    BY DEF ListedLive, FirstScan, SelectFails, SelectReady, SelectTimesOut, LockSources, EndScan
  <2> QED
    BY <1>1, <2>1 DEF ListedLive
<1>4. SourceOutlivesUse'
  BY <1>1, <1>3 DEF SourceOutlivesUse, ListedLive, Pending, InProc, queueVars
<1> QED
  BY <1>1, <1>2, <1>3, <1>4, QueuesAlone, DescriptorsAlone

(* A wrapper is appended for a live source that is not being serviced.        *)
LEMMA ServeStep ==
  ASSUME SourceInv, NEW s \in Source, ServeSource(s)
  PROVE  SourceInv'
<1> USE SourceAssumption DEF SourceAssumption, SourceInv
<1>1. /\ toServe' = toServe \ {s} /\ state[s] = "live" /\ s \in sources
      /\ UNCHANGED <<state, sources, running, at, selectAt, fds, failures, fdVars>>
  BY DEF ServeSource, ListedLive
<1>2. ListedLive' /\ DataArrived'
  BY <1>1, DescriptorsAlone DEF ListedLive
<1>3. CASE ~(FdOf[s] \in fds /\ servicingSem[s] > 0)
  <2>1. UNCHANGED <<queueVars, servicingSem>>
    BY <1>1, <1>3 DEF ServeSource, queueVars
  <2>2. TypeOK' /\ SourceOutlivesUse'
    BY <1>1, <2>1 DEF TypeOK, SourceOutlivesUse, Pending, InProc, queueVars, fdVars
  <2> QED
    BY <1>2, <2>1, <2>2, QueuesAlone
<1>4. CASE FdOf[s] \in fds /\ servicingSem[s] > 0
  <2> DEFINE q == QueueOf[s]
  <2>1. /\ servicingSem' = [servicingSem EXCEPT ![s] = @ - 1]
        /\ queueStack' = [queueStack EXCEPT ![q] = Append(@, s)]
    BY <1>4 DEF ServeSource
  <2>2. q \in Queue /\ queueStack[q] \in Seq(Source) /\ servicingSem[s] \in 0..1
    BY DEF TypeOK
  <2>3. TypeOK'
    <3>1. servicingSem' \in [Source -> 0..1]
      BY <1>4, <2>1, <2>2 DEF TypeOK
    <3>2. queueStack' \in [Queue -> Seq(Source)]
      BY <2>1, <2>2 DEF TypeOK
    <3>3. toServe' \subseteq Source
      BY <1>1 DEF TypeOK
    <3> QED
      BY <1>1, <3>1, <3>2, <3>3 DEF TypeOK, fdVars
  <2>4. OwnWrappers'
    <3>1. ASSUME NEW p \in Queue, NEW i \in DOMAIN queueStack'[p]
          PROVE  QueueOf[queueStack'[p][i]] = p
      <4>1. CASE p # q
        BY <2>1, <2>2, <3>1, <4>1 DEF TypeOK, OwnWrappers
      <4>2. CASE p = q
        <5>1. queueStack'[q] = Append(queueStack[q], s)
          BY <2>1, <2>2 DEF TypeOK
        <5>2. i \in DOMAIN queueStack[q] \/ queueStack'[q][i] = s
          BY <2>2, <3>1, <4>2, <5>1
        <5>3. \A k \in DOMAIN queueStack[q] : queueStack'[q][k] = queueStack[q][k]
          BY <2>2, <5>1
        <5> QED
          BY <2>2, <4>2, <5>2, <5>3 DEF OwnWrappers
      <4> QED
        BY <4>1, <4>2
    <3> QED
      BY <1>1, <3>1 DEF OwnWrappers
  <2>5. Pending(s) = {} /\ ~InProc(s)
    BY <1>4, <2>2 DEF ServicedByOne, TypeOK
  <2>6. \A t \in Source : Pending(t)' = IF t = s THEN {Len(queueStack[q]) + 1} ELSE Pending(t)
    <3> SUFFICES ASSUME NEW t \in Source
                 PROVE  Pending(t)' = IF t = s THEN {Len(queueStack[q]) + 1} ELSE Pending(t)
      OBVIOUS
    <3>1. CASE QueueOf[t] # q
      BY <2>1, <2>2, <3>1 DEF Pending, TypeOK
    <3>2. CASE QueueOf[t] = q
      <4>1. queueStack'[q] = Append(queueStack[q], s)
        BY <2>1, <2>2 DEF TypeOK
      <4>2. /\ DOMAIN queueStack'[q] = 1..Len(queueStack[q]) + 1
            /\ queueStack'[q][Len(queueStack[q]) + 1] = s
            /\ \A i \in 1..Len(queueStack[q]) : queueStack'[q][i] = queueStack[q][i]
        BY <2>2, <4>1
      <4>3. DOMAIN queueStack[q] = 1..Len(queueStack[q]) /\ Len(queueStack[q]) \in Nat
        BY <2>2
      <4> QED
        BY <2>5, <3>2, <4>2, <4>3 DEF Pending
    <3> QED
      BY <3>1, <3>2
  <2>7. \A t \in Source : InProc(t)' = InProc(t)
    BY <1>1 DEF InProc
  <2>8. ServicedByOne'
    <3> SUFFICES ASSUME NEW t \in Source
                 PROVE  /\ \A i, j \in Pending(t)' : i = j
                        /\ InProc(t)' => Pending(t)' = {}
                        /\ InProc(t)' \/ Pending(t)' # {} => servicingSem'[t] = 0
      BY DEF ServicedByOne
    <3>1. CASE t = s
      <4>1. servicingSem'[s] = 0
        BY <1>4, <2>1, <2>2 DEF TypeOK
      <4> QED
        BY <2>5, <2>6, <2>7, <3>1, <4>1
    <3>2. CASE t # s
      <4>1. servicingSem'[t] = servicingSem[t]
        BY <2>1, <3>2 DEF TypeOK
      <4> QED
        BY <2>6, <2>7, <3>2, <4>1 DEF ServicedByOne
    <3> QED
      BY <3>1, <3>2
  <2>9. SourceOutlivesUse'
    BY <1>1, <2>6, <2>7 DEF SourceOutlivesUse
  <2> QED
    BY <1>2, <2>3, <2>4, <2>8, <2>9
<1> QED
  BY <1>3, <1>4

(* Taking a wrapper moves its source from the queue to the thread.            *)
LEMMA TakeStep ==
  ASSUME SourceInv, NEW q \in Queue, TakeWrapper(q)
  PROVE  SourceInv'
<1> USE SourceAssumption DEF SourceAssumption, SourceInv
<1> DEFINE h == Head(queueStack[q])
<1>1. /\ at[q] = "idle" /\ queueStack[q] # <<>> /\ queueStack[q] \in Seq(Source)
      /\ running' = [running EXCEPT ![q] = h]
      /\ queueStack' = [queueStack EXCEPT ![q] = Tail(@)]
      /\ at' = [at EXCEPT ![q] = "proc"]
      /\ UNCHANGED <<state, sources, servicingSem, selectVars, fdVars>>
  BY DEF TakeWrapper, TypeOK
<1>2. /\ h \in Source /\ h = queueStack[q][1] /\ 1 \in DOMAIN queueStack[q]
      /\ Tail(queueStack[q]) \in Seq(Source)
      /\ DOMAIN queueStack[q] = 1..Len(queueStack[q]) /\ Len(queueStack[q]) \in Nat \ {0}
      /\ DOMAIN Tail(queueStack[q]) = 1..(Len(queueStack[q]) - 1)
      /\ \A i \in 1..(Len(queueStack[q]) - 1) : Tail(queueStack[q])[i] = queueStack[q][i + 1]
  BY <1>1
<1>3. queueStack'[q] = Tail(queueStack[q]) /\ running'[q] = h /\ at'[q] = "proc"
  BY <1>1 DEF TypeOK
<1>4. \A p \in Queue \ {q} : /\ queueStack'[p] = queueStack[p]
                             /\ running'[p] = running[p] /\ at'[p] = at[p]
  BY <1>1 DEF TypeOK
<1>5. \A i \in DOMAIN queueStack'[q] :
         /\ i \in Nat \ {0} /\ i + 1 \in DOMAIN queueStack[q]
         /\ queueStack'[q][i] = queueStack[q][i + 1]
  <2> SUFFICES ASSUME NEW i \in 1..(Len(queueStack[q]) - 1)
               PROVE  /\ i \in Nat \ {0} /\ i + 1 \in 1..Len(queueStack[q])
                      /\ Tail(queueStack[q])[i] = queueStack[q][i + 1]
    BY <1>2, <1>3
  <2>1. i \in Nat \ {0} /\ i + 1 \in 1..Len(queueStack[q])
    BY <1>2
  <2> QED
    BY <1>2, <2>1
<1>6. QueueOf[h] = q
  BY <1>2 DEF OwnWrappers
<1>7. TypeOK'
  BY <1>1, <1>2 DEF TypeOK, selectVars, fdVars
<1>8. OwnWrappers'
  <2> SUFFICES ASSUME NEW p \in Queue
               PROVE  /\ \A i \in DOMAIN queueStack'[p] : QueueOf[queueStack'[p][i]] = p
                      /\ at'[p] = "proc" => running'[p] \in Source /\ QueueOf[running'[p]] = p
    BY DEF OwnWrappers
  <2>1. CASE p = q
    <3>1. \A i \in DOMAIN queueStack'[q] : QueueOf[queueStack'[q][i]] = q
      BY <1>5 DEF OwnWrappers
    <3> QED
      BY <1>2, <1>3, <1>6, <2>1, <3>1
  <2>2. CASE p # q
    BY <1>4, <2>2 DEF OwnWrappers
  <2> QED
    BY <2>1, <2>2
<1>9. DataArrived' /\ ListedLive'
  BY <1>1, DescriptorsAlone DEF ListedLive, selectVars
<1>10. ASSUME NEW s \in Source
      PROVE  /\ \A i, j \in Pending(s)' : i = j
             /\ InProc(s)' => Pending(s)' = {}
             /\ InProc(s)' \/ Pending(s)' # {} => InProc(s) \/ Pending(s) # {}
  <2>1. CASE QueueOf[s] # q
    <3>1. Pending(s)' = Pending(s) /\ InProc(s)' = InProc(s)
      BY <1>4, <2>1 DEF Pending, InProc
    <3> QED
      BY <3>1 DEF ServicedByOne
  <2>2. CASE QueueOf[s] = q
    <3>1. \A i \in Pending(s)' : i + 1 \in Pending(s) /\ i \in Nat \ {0}
      BY <1>5, <2>2 DEF Pending
    <3>2. \A i, j \in Pending(s) : i = j
      BY DEF ServicedByOne
    <3>3. InProc(s)' => s = h
      BY <1>3, <2>2 DEF InProc
    <3>4. s = h => 1 \in Pending(s)
      BY <1>2, <2>2 DEF Pending
    <3>5. \A i, j \in Pending(s)' : i = j
      BY <3>1, <3>2
    <3>6. InProc(s)' => Pending(s)' = {}
      <4> SUFFICES ASSUME InProc(s)', NEW i \in Pending(s)' PROVE FALSE
        OBVIOUS
      <4>1. i + 1 = 1
        BY <3>1, <3>2, <3>3, <3>4
      <4> QED
        BY <3>1, <4>1
    <3> QED
      BY <3>1, <3>3, <3>4, <3>5, <3>6
  <2> QED
    BY <2>1, <2>2
<1>11. ServicedByOne'
  BY <1>1, <1>10 DEF ServicedByOne
<1>12. SourceOutlivesUse'
  BY <1>1, <1>10 DEF SourceOutlivesUse, selectVars
<1> QED
  BY <1>7, <1>8, <1>9, <1>11, <1>12

(* The proc of a source returns: its semaphore was taken and nothing of it is *)
(* left in the queue.                                                         *)
LEMMA RunStep ==
  ASSUME SourceInv, NEW q \in Queue, RunProc(q)
  PROVE  SourceInv'
<1> USE SourceAssumption DEF SourceAssumption, SourceInv
<1> DEFINE r == running[q]
<1>1. /\ at[q] = "proc" /\ Consumes(r)
      /\ servicingSem' = [servicingSem EXCEPT ![r] = @ + 1]
      /\ at' = [at EXCEPT ![q] = "done"]
      /\ UNCHANGED <<state, sources, queueStack, running, selectVars, isOpen, arrived>>
  BY DEF RunProc
<1>2. r \in Source /\ QueueOf[r] = q /\ InProc(r)
  BY <1>1 DEF OwnWrappers, InProc
<1>3. servicingSem[r] = 0 /\ Pending(r) = {}
  BY <1>2 DEF ServicedByOne
<1>4. data' \in [Source -> Nat] /\ \A s \in Source : data'[s] <= data[s]
  <2>1. CASE UNCHANGED data
    BY <2>1 DEF TypeOK
  <2>2. CASE \E n \in 1..data[r] : data' = [data EXCEPT ![r] = @ - n]
    <3>1. PICK n \in 1..data[r] : data' = [data EXCEPT ![r] = @ - n]
      BY <2>2
    <3>2. data[r] \in Nat /\ n \in Nat /\ data[r] - n \in Nat
      BY <1>2, <3>1 DEF TypeOK
    <3>3. data[r] - n <= data[r]
      BY <3>2
    <3>4. data \in [Source -> Nat] /\ \A s \in Source : data[s] <= data[s]
      BY DEF TypeOK
    <3> QED
      BY <1>2, <3>1, <3>2, <3>3, <3>4
  <2> QED
    BY <1>1, <2>1, <2>2 DEF Consumes
<1>5. TypeOK'
  <2>1. servicingSem' \in [Source -> 0..1] /\ at' \in [Queue -> {"idle", "proc", "done"}]
    BY <1>1, <1>2, <1>3 DEF TypeOK
  <2> QED
    BY <1>1, <1>4, <2>1 DEF TypeOK, selectVars
<1>6. OwnWrappers' /\ ListedLive'
  BY <1>1 DEF OwnWrappers, ListedLive, selectVars, TypeOK
<1>7. DataArrived'
  <2> SUFFICES ASSUME NEW s \in Source PROVE data'[s] <= arrived'[s]
    BY DEF DataArrived
  <2>1. data[s] \in Nat /\ arrived[s] \in Nat /\ data[s] <= arrived[s] /\ arrived'[s] = arrived[s]
    BY <1>1 DEF DataArrived, TypeOK
  <2>2. data'[s] \in Nat /\ data'[s] <= data[s]
    BY <1>4
  <2> QED
    BY <2>1, <2>2
<1>8. \A s \in Source : Pending(s)' = Pending(s) /\ (InProc(s)' => InProc(s) /\ s # r)
  BY <1>1, <1>2 DEF Pending, InProc, TypeOK
<1>9. ServicedByOne'
  BY <1>1, <1>3, <1>8 DEF ServicedByOne, TypeOK
<1>10. SourceOutlivesUse'
  BY <1>1, <1>8 DEF SourceOutlivesUse, selectVars
<1> QED
  BY <1>5, <1>6, <1>7, <1>9, <1>10

LEMMA EndStep ==
  ASSUME SourceInv, NEW q \in Queue, EndWrapper(q)
  PROVE  SourceInv'
<1> USE SourceAssumption DEF SourceAssumption, SourceInv
<1>1. TypeOK'
  BY DEF EndWrapper, TypeOK, selectVars, fdVars
<1>2. OwnWrappers' /\ ListedLive' /\ DataArrived'
  BY DescriptorsAlone DEF EndWrapper, TypeOK, OwnWrappers, ListedLive, selectVars
<1>3. \A s \in Source : Pending(s)' = Pending(s) /\ (InProc(s)' => InProc(s))
  BY DEF EndWrapper, Pending, InProc, TypeOK
<1>4. ServicedByOne' /\ SourceOutlivesUse'
  BY <1>3 DEF EndWrapper, ServicedByOne, SourceOutlivesUse, selectVars
<1> QED
  BY <1>1, <1>2, <1>4

LEMMA SourceStep == SourceInv /\ [Next]_vars => SourceInv'
<1> SUFFICES ASSUME SourceInv, [Next]_vars PROVE SourceInv'
  OBVIOUS
<1>1. CASE UNCHANGED vars
  <2>1. UNCHANGED <<state, sources, servicingSem, queueVars, selectVars, fdVars>>
    BY <1>1 DEF vars, queueVars, selectVars, fdVars
  <2>2. TypeOK' /\ DataArrived' /\ ListedLive'
    BY <2>1 DEF SourceInv, TypeOK, DataArrived, ListedLive, queueVars, selectVars, fdVars
  <2>3. SourceOutlivesUse'
    BY <2>1 DEF SourceInv, SourceOutlivesUse, Pending, InProc, queueVars, selectVars
  <2> QED
    BY <2>1, <2>2, <2>3, QueuesAlone DEF SourceInv
<1>2. CASE Next
  BY <1>2, ClientStep, SelectStep, ServeStep, TakeStep, RunStep, EndStep
  DEF Next, SelectThread, QueueThread
<1> QED
  BY <1>1, <1>2

LEMMA SourceInvariant == Spec => []SourceInv
BY SourceInit, SourceStep, PTL DEF Spec

(* The type invariant: in particular the count of a servicingSem never        *)
(* exceeds one, however the scans, the wrappers and the destroyers interleave.*)
THEOREM SourceTypeCorrect == Spec => []TypeOK
BY SourceInvariant, PTL DEF SourceInv

(* No source is ever serviced by two wrappers, queued or running.             *)
THEOREM ServicingCorrect == Spec => []ServicedByOne
BY SourceInvariant, PTL DEF SourceInv

(* YMDispatchSourceDestroy frees no source of a user queue that the list, the *)
(* queue or a wrapper still refers to, with descriptors reused or not.        *)
THEOREM MemoryCorrect == Spec => []SourceOutlivesUse
BY SourceInvariant, PTL DEF SourceInv
-----------------------------------------------------------------------------
(* DispatchedWhenReady is inductive with two facts about a source that select *)
(* watches, or found ready, and that the second scan has not passed: it is    *)
(* not being serviced, so no proc reads what made it ready; and once select   *)
(* has returned, that is still there.  It holds of descriptor numbers that    *)
(* are not reused: a source created over a ready number is dispatched with    *)
(* nothing to read.                                                           *)
OwnDescriptors ==
  /\ \A s, t \in Source : FdOf[s] = FdOf[t] => s = t
  /\ \A s \in Source : QueueOf[s] \in UserQueues \/ s \in OwnsQueue

Busy(s)     == Pending(s) # {} \/ InProc(s)
Readable(s) == data[s] > 0 \/ (s \in OwnsQueue /\ ~isOpen[s])
Watched(s)  == FdOf[s] \in fds /\ (selectAt = "serve" => s \in toServe)

BornAt(s)    == Busy(s) \/ FdOf[s] \in fds => state[s] # "unborn"
WatchedAt(s) == Watched(s) => ~Busy(s)
FoundAt(s)   == Watched(s) /\ s \in sources /\ selectAt \in {"ready", "serve"} => Readable(s)
ReadyAt(s)   == Busy(s) => Readable(s)

ReadyInv == \A s \in Source : BornAt(s) /\ WatchedAt(s) /\ FoundAt(s) /\ ReadyAt(s)

LEMMA ReadyInit == Init => ReadyInv
<1> SUFFICES ASSUME Init, NEW s \in Source
             PROVE  BornAt(s) /\ WatchedAt(s) /\ FoundAt(s) /\ ReadyAt(s)
  BY DEF ReadyInv
<1>1. QueueOf[s] \in Queue
  BY SourceAssumption DEF SourceAssumption
<1>2. ~Busy(s) /\ FdOf[s] \notin fds
  BY <1>1 DEF Init, Busy, Pending, InProc
<1> QED
  BY <1>2 DEF BornAt, WatchedAt, FoundAt, ReadyAt, Watched

(* A step that adds no wrapper, loses no source's birth, and changes neither  *)
(* what select found nor what can be read keeps the invariant.                *)
LEMMA ReadyQuiet ==
  ASSUME ReadyInv, NEW s \in Source, Busy(s)' => Busy(s),
         state[s] # "unborn" => state'[s] # "unborn",
         Watched(s)' => Watched(s), FdOf[s] \in fds' => FdOf[s] \in fds,
         Watched(s)' /\ s \in sources' /\ selectAt' \in {"ready", "serve"} =>
           s \in sources /\ selectAt \in {"ready", "serve"},
         Busy(s)' \/ (Watched(s)' /\ s \in sources') => (Readable(s) => Readable(s)')
  PROVE  BornAt(s)' /\ WatchedAt(s)' /\ FoundAt(s)' /\ ReadyAt(s)'
<1>1. BornAt(s) /\ WatchedAt(s) /\ FoundAt(s) /\ ReadyAt(s)
  BY DEF ReadyInv
<1>2. BornAt(s)'
  BY <1>1 DEF BornAt
<1>3. WatchedAt(s)'
  BY <1>1 DEF WatchedAt
<1>4. FoundAt(s)'
  BY <1>1 DEF FoundAt
<1>5. ReadyAt(s)'
  BY <1>1 DEF ReadyAt
<1> QED
  BY <1>2, <1>3, <1>4, <1>5

LEMMA ReadyClient ==
  ASSUME SourceInv, ReadyInv, OwnDescriptors, NEW t \in Source, Arrive(t) \/ Client(t)
  PROVE  ReadyInv'
<1> SUFFICES ASSUME NEW s \in Source
             PROVE  BornAt(s)' /\ WatchedAt(s)' /\ FoundAt(s)' /\ ReadyAt(s)'
  BY DEF ReadyInv
<1> USE DEF SourceInv
<1>1. CASE Arrive(t)
  <2>1. Busy(s)' = Busy(s) /\ Watched(s)' = Watched(s)
    BY <1>1 DEF Arrive, Busy, Pending, InProc, Watched, queueVars, selectVars
  <2>2. Readable(s) => Readable(s)'
    BY <1>1 DEF Arrive, Readable, TypeOK
  <2> QED
    BY <1>1, <2>1, <2>2, ReadyQuiet DEF Arrive, selectVars
<1>2. CASE Create(t)
  <2>1. Busy(s)' = Busy(s) /\ Watched(s)' = Watched(s)
    BY <1>2 DEF Create, Busy, Pending, InProc, Watched, queueVars, selectVars
  <2>2. CASE s = t
    <3>1. ~Busy(s) /\ FdOf[s] \notin fds
      BY <1>2, <2>2 DEF Create, ReadyInv, BornAt
    <3>2. FdOf[s] \notin fds'
      BY <1>2, <3>1 DEF Create, selectVars
    <3> QED
      BY <2>1, <3>1, <3>2 DEF BornAt, WatchedAt, FoundAt, ReadyAt, Watched
  <2>3. CASE s # t
    <3>1. Readable(s)' = Readable(s) /\ state'[s] = state[s] /\ (s \in sources' <=> s \in sources)
      BY <1>2, <2>3 DEF Create, Readable, TypeOK
    <3> QED
      BY <1>2, <2>1, <3>1, ReadyQuiet DEF Create, selectVars
  <2> QED
    BY <2>2, <2>3
<1>3. CASE CloseFirst(t)
  <2>1. Busy(s)' = Busy(s) /\ Watched(s)' = Watched(s)
    BY <1>3 DEF CloseFirst, CloseDescriptor, Busy, Pending, InProc, Watched, queueVars, selectVars
  <2>2. Readable(s) => Readable(s)'
    BY <1>3 DEF CloseFirst, CloseDescriptor, Readable, TypeOK
  <2> QED
    BY <1>3, <2>1, <2>2, ReadyQuiet DEF CloseFirst, CloseDescriptor, selectVars
<1>4. CASE Remove(t)
  <2>1. Busy(s)' = Busy(s) /\ Watched(s)' = Watched(s) /\ Readable(s)' = Readable(s)
    BY <1>4 DEF Remove, Busy, Pending, InProc, Watched, Readable, queueVars, selectVars, fdVars
  <2>2. state[s] # "unborn" => state'[s] # "unborn"
    BY <1>4 DEF Remove, TypeOK
  <2> QED
    BY <1>4, <2>1, <2>2, ReadyQuiet DEF Remove, selectVars
<1>5. CASE AwaitServicing(t)
  <2>1. Busy(s)' = Busy(s) /\ Watched(s)' = Watched(s) /\ Readable(s)' = Readable(s)
    BY <1>5 DEF AwaitServicing, Busy, Pending, InProc, Watched, Readable, queueVars, selectVars, fdVars
  <2>2. state[s] # "unborn" => state'[s] # "unborn"
    BY <1>5 DEF AwaitServicing, TypeOK
  <2> QED
    BY <1>5, <2>1, <2>2, ReadyQuiet DEF AwaitServicing, selectVars
<1>6. CASE FreeSource(t)
  <2>1. Busy(s)' = Busy(s) /\ Watched(s)' = Watched(s)
    BY <1>6 DEF FreeSource, CloseDescriptor, Busy, Pending, InProc, Watched, queueVars, selectVars
  <2>2. state[s] # "unborn" => state'[s] # "unborn"
    BY <1>6 DEF FreeSource, CloseDescriptor, TypeOK
  <2>3. Busy(s)' \/ (Watched(s)' /\ s \in sources') => (Readable(s) => Readable(s)')
    <3>1. CASE s # t
      BY <1>6, <3>1 DEF FreeSource, CloseDescriptor, Readable, TypeOK
    <3>2. CASE s = t /\ s \in OwnsQueue
      BY <1>6, <3>2 DEF FreeSource, CloseDescriptor, Readable, TypeOK
    <3>3. CASE s = t /\ QueueOf[s] \in UserQueues
      <4>1. s \notin sources /\ ~Busy(s)
        BY <1>6, <3>3 DEF FreeSource, CloseDescriptor, SourceOutlivesUse, Busy
      <4> QED
        BY <1>6, <2>1, <4>1 DEF FreeSource, CloseDescriptor
    <3> QED
      BY <3>1, <3>2, <3>3 DEF OwnDescriptors
  <2> QED
    BY <1>6, <2>1, <2>2, <2>3, ReadyQuiet DEF FreeSource, CloseDescriptor, selectVars
<1> QED
  BY <1>1, <1>2, <1>3, <1>4, <1>5, <1>6 DEF Client

(* What select watches is not being serviced; what it finds ready has         *)
(* something to read.                                                         *)
LEMMA ReadySelect ==
  ASSUME SourceInv, ReadyInv, OwnDescriptors,
         FirstScan \/ SelectFails \/ SelectReady \/ SelectTimesOut \/ LockSources \/ EndScan
  PROVE  ReadyInv'
<1> SUFFICES ASSUME NEW s \in Source
             PROVE  BornAt(s)' /\ WatchedAt(s)' /\ FoundAt(s)' /\ ReadyAt(s)'
  BY DEF ReadyInv
<1> USE DEF SourceInv
<1>1. Busy(s)' = Busy(s) /\ Readable(s)' = Readable(s) /\ state' = state
  BY DEF FirstScan, SelectFails, SelectReady, SelectTimesOut, LockSources, EndScan,
         Busy, Pending, InProc, Readable, queueVars, fdVars
<1>2. BornAt(s) /\ WatchedAt(s) /\ FoundAt(s) /\ ReadyAt(s)
  BY DEF ReadyInv
<1>3. ReadyAt(s)'
  BY <1>1, <1>2 DEF ReadyAt
<1>4. CASE FirstScan
  <2>1. FdOf[s] \in fds' => s \in sources /\ servicingSem[s] > 0
    BY <1>4 DEF FirstScan, Watchable, OwnDescriptors, TypeOK
  <2>2. FdOf[s] \in fds' => ~Busy(s) /\ state[s] # "unborn"
    BY <2>1 DEF ServicedByOne, Busy, ListedLive
  <2>3. selectAt' = "select"
    BY <1>4 DEF FirstScan
  <2>4. BornAt(s)'
    BY <1>1, <1>2, <2>2 DEF BornAt
  <2>5. WatchedAt(s)' /\ FoundAt(s)'
    BY <1>1, <2>2, <2>3 DEF WatchedAt, FoundAt, Watched
  <2> QED
    BY <1>3, <2>4, <2>5
<1>5. CASE SelectFails \/ SelectTimesOut \/ EndScan
  <2>1. fds' = {}
    BY <1>5 DEF SelectFails, SelectTimesOut, EndScan
  <2> QED
    BY <1>1, <1>2, <1>3, <2>1 DEF BornAt, WatchedAt, FoundAt, Watched
<1>6. CASE SelectReady
  <2>1. selectAt = "select" /\ selectAt' = "ready" /\ sources' = sources
    BY <1>6 DEF SelectReady
  <2>2. FdOf[s] \in fds' => FdOf[s] \in fds /\ data[s] > 0
    BY <1>6 DEF SelectReady, HasData, OwnDescriptors
  <2>3. BornAt(s)'
    BY <1>1, <1>2, <2>2 DEF BornAt
  <2>4. WatchedAt(s)'
    BY <1>1, <1>2, <2>1, <2>2 DEF WatchedAt, Watched
  <2>5. FoundAt(s)'
    BY <1>1, <2>1, <2>2 DEF FoundAt, Watched, Readable
  <2> QED
    BY <1>3, <2>3, <2>4, <2>5
<1>7. CASE LockSources
  <2>1. selectAt = "ready" /\ selectAt' = "serve" /\ toServe' = sources /\ fds' = fds
          /\ sources' = sources
    BY <1>7 DEF LockSources
  <2>2. BornAt(s)'
    BY <1>1, <1>2, <2>1 DEF BornAt
  <2>3. WatchedAt(s)' /\ FoundAt(s)'
    BY <1>1, <1>2, <2>1 DEF WatchedAt, FoundAt, Watched
  <2> QED
    BY <1>3, <2>2, <2>3
<1> QED
  BY <1>4, <1>5, <1>6, <1>7

(* A source is dispatched only if it was found ready, and is then no longer   *)
(* one that the scan has to visit.                                            *)
LEMMA ReadyServe ==
  ASSUME SourceInv, ReadyInv, NEW t \in Source, ServeSource(t)
  PROVE  ReadyInv'
<1> SUFFICES ASSUME NEW s \in Source
             PROVE  BornAt(s)' /\ WatchedAt(s)' /\ FoundAt(s)' /\ ReadyAt(s)'
  BY DEF ReadyInv
<1> USE SourceAssumption DEF SourceAssumption, SourceInv
<1>1. /\ selectAt = "serve" /\ t \in toServe /\ toServe' = toServe \ {t}
      /\ UNCHANGED <<state, sources, running, at, selectAt, fds, failures, fdVars>>
  BY DEF ServeSource
<1>2. Readable(s)' = Readable(s) /\ InProc(s)' = InProc(s)
  BY <1>1 DEF Readable, InProc, fdVars
<1>3. CASE s = t
  <2>1. ~Watched(s)'
    BY <1>1, <1>3 DEF Watched
  <2>2. state[s] # "unborn"
    BY <1>1, <1>3 DEF ListedLive
  <2>3. Busy(s)' => Readable(s)
    <3>1. CASE FdOf[s] \in fds
      BY <1>1, <1>3, <3>1 DEF ReadyInv, FoundAt, Watched, ListedLive
    <3>2. CASE FdOf[s] \notin fds
      <4>1. queueStack' = queueStack
        BY <1>3, <3>2 DEF ServeSource
      <4>2. Busy(s)' = Busy(s)
        BY <1>2, <4>1 DEF Busy, Pending
      <4> QED
        BY <4>2 DEF ReadyInv, ReadyAt
    <3> QED
      BY <3>1, <3>2
  <2> QED
    BY <1>1, <1>2, <2>1, <2>2, <2>3 DEF BornAt, WatchedAt, FoundAt, ReadyAt
<1>4. CASE s # t
  <2>1. Busy(s)' => Busy(s)
    <3>1. CASE queueStack' = queueStack
      BY <1>2, <3>1 DEF Busy, Pending
    <3>2. CASE queueStack' = [queueStack EXCEPT ![QueueOf[t]] = Append(@, t)]
      <4>1. ASSUME NEW i \in Pending(s)' PROVE i \in Pending(s)
        <5>1. CASE QueueOf[s] # QueueOf[t]
          BY <3>2, <4>1, <5>1 DEF Pending, TypeOK
        <5>2. CASE QueueOf[s] = QueueOf[t]
          <6>1. /\ queueStack[QueueOf[t]] \in Seq(Source)
                /\ queueStack'[QueueOf[t]] = Append(queueStack[QueueOf[t]], t)
            BY <3>2 DEF TypeOK
          <6>2. i \in DOMAIN queueStack'[QueueOf[t]] /\ queueStack'[QueueOf[t]][i] = s
            BY <4>1, <5>2 DEF Pending
          <6>3. i \in DOMAIN queueStack[QueueOf[t]] /\ queueStack[QueueOf[t]][i] = s
            BY <1>4, <6>1, <6>2
          <6> QED
            BY <5>2, <6>3 DEF Pending
        <5> QED
          BY <5>1, <5>2
      <4> QED
        BY <1>2, <4>1 DEF Busy
    <3> QED
      BY <3>1, <3>2 DEF ServeSource
  <2>2. Watched(s)' = Watched(s)
    BY <1>1, <1>4 DEF Watched
  <2> QED
    BY <1>1, <1>2, <2>1, <2>2, ReadyQuiet
<1> QED
  BY <1>3, <1>4

(* The queues' threads: a source that was taken was busy already; one whose   *)
(* proc read what there was is not busy any more, and was not watched.        *)
LEMMA ReadyQueue ==
  ASSUME SourceInv, ReadyInv, NEW q \in Queue, QueueThread(q)
  PROVE  ReadyInv'
<1> SUFFICES ASSUME NEW s \in Source
             PROVE  BornAt(s)' /\ WatchedAt(s)' /\ FoundAt(s)' /\ ReadyAt(s)'
  BY DEF ReadyInv
<1> USE SourceAssumption DEF SourceAssumption, SourceInv
<1>1. CASE TakeWrapper(q)
  <2>1. /\ queueStack[q] \in Seq(Source) /\ queueStack[q] # <<>>
        /\ queueStack'[q] = Tail(queueStack[q]) /\ running'[q] = Head(queueStack[q])
        /\ \A p \in Queue \ {q} : /\ queueStack'[p] = queueStack[p]
                                  /\ running'[p] = running[p] /\ at'[p] = at[p]
    BY <1>1 DEF TakeWrapper, TypeOK
  <2>2. ASSUME NEW i \in Pending(s)', QueueOf[s] = q PROVE i + 1 \in Pending(s)
    <3>1. i \in DOMAIN Tail(queueStack[q]) /\ Tail(queueStack[q])[i] = s
      BY <2>1, <2>2 DEF Pending
    <3>2. i + 1 \in DOMAIN queueStack[q] /\ queueStack[q][i + 1] = s
      BY <2>1, <3>1
    <3> QED
      BY <2>2, <3>2 DEF Pending
  <2>3. QueueOf[s] = q /\ InProc(s)' => 1 \in Pending(s)
    BY <2>1 DEF InProc, Pending
  <2>4. QueueOf[s] # q => Pending(s)' = Pending(s) /\ InProc(s)' = InProc(s)
    BY <2>1 DEF Pending, InProc
  <2>5. Busy(s)' => Busy(s)
    BY <2>2, <2>3, <2>4 DEF Busy
  <2>6. Watched(s)' = Watched(s) /\ Readable(s)' = Readable(s)
    BY <1>1 DEF TakeWrapper, Watched, Readable, selectVars, fdVars
  <2> QED
    BY <1>1, <2>5, <2>6, ReadyQuiet DEF TakeWrapper, selectVars
<1>2. CASE RunProc(q)
  <2> DEFINE r == running[q]
  <2>1. /\ at[q] = "proc" /\ Consumes(r) /\ at' = [at EXCEPT ![q] = "done"]
        /\ UNCHANGED <<state, sources, queueStack, running, selectVars, isOpen, arrived>>
    BY <1>2 DEF RunProc
  <2>2. r \in Source /\ QueueOf[r] = q /\ InProc(r)
    BY <2>1 DEF OwnWrappers, InProc
  <2>3. Pending(s)' = Pending(s) /\ (InProc(s)' => InProc(s) /\ s # r)
    BY <2>1, <2>2 DEF Pending, InProc, TypeOK
  <2>4. Busy(s)' => Busy(s) /\ s # r
    BY <2>2, <2>3 DEF Busy, ServicedByOne
  <2>5. Watched(s)' = Watched(s)
    BY <2>1 DEF Watched, selectVars
  <2>6. Watched(s) => s # r
    BY <2>2 DEF ReadyInv, WatchedAt, Busy
  <2>7. s # r => Readable(s)' = Readable(s)
    BY <2>1, <2>2 DEF Consumes, Readable, TypeOK
  <2> QED
    BY <2>1, <2>4, <2>5, <2>6, <2>7, ReadyQuiet DEF selectVars
<1>3. CASE EndWrapper(q)
  <2>1. Busy(s)' => Busy(s)
    BY <1>3 DEF EndWrapper, Busy, Pending, InProc, TypeOK
  <2>2. Watched(s)' = Watched(s) /\ Readable(s)' = Readable(s)
    BY <1>3 DEF EndWrapper, Watched, Readable, selectVars, fdVars
  <2> QED
    BY <1>3, <2>1, <2>2, ReadyQuiet DEF EndWrapper, selectVars
<1> QED
  BY <1>1, <1>2, <1>3 DEF QueueThread

LEMMA ReadyStep == OwnDescriptors /\ SourceInv /\ ReadyInv /\ [Next]_vars => ReadyInv'
<1> SUFFICES ASSUME OwnDescriptors, SourceInv, ReadyInv, [Next]_vars PROVE ReadyInv'
  OBVIOUS
<1>1. CASE UNCHANGED vars
  BY <1>1 DEF vars, ReadyInv, BornAt, WatchedAt, FoundAt, ReadyAt, Busy, Watched, Readable,
              Pending, InProc
<1>2. CASE Next
  BY <1>2, ReadyClient, ReadySelect, ReadyServe, ReadyQueue DEF Next, SelectThread
<1> QED
  BY <1>1, <1>2

(* Where no descriptor number is reused and every queue is a user queue or    *)
(* belongs to its source, as in the plexer and the browser, a proc is         *)
(* dispatched only when there is something for it to read.                    *)
THEOREM ReadinessCorrect == OwnDescriptors => (Spec => []DispatchedWhenReady)
<1> SUFFICES ASSUME OwnDescriptors PROVE Spec => []DispatchedWhenReady
  OBVIOUS
<1>1. ReadyInv => DispatchedWhenReady
  BY DEF ReadyInv, ReadyAt, Busy, Readable, DispatchedWhenReady
<1>2. SourceInv /\ ReadyInv /\ [Next]_vars => ReadyInv'
  BY ReadyStep
<1> QED
  BY <1>1, <1>2, ReadyInit, SourceInvariant, PTL DEF Spec
=============================================================================
