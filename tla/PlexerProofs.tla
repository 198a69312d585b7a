---------------------------- MODULE PlexerProofs ------------------------------
(***************************************************************************)
(* Theorems about Plexer, for any number of streams, writes and ids, every *)
(* rule of closing and every failure.                                      *)
(***************************************************************************)
EXTENDS Plexer, SequenceTheorems, TLAPS

Event == [kind : EventKind, id : IDs, by : {"up", "intr", "user"}]
DownWork == [pc : {"idle", "send", "sendClose", "retire"},
             id : IDs, chunk : Seq(Bytes), new : BOOLEAN]
UpWork == [pc : {"idle", "choose", "use", "post", "await"},
           id : IDs, chunk : Seq(Bytes), new : BOOLEAN]

Interruption == [pc : {"no", "close", "hangup", "notify", "await", "join", "done"},
                 by : Callers \cup {"none"}]
UserPlaces == {"run", "wedged", "stop", "join", "stopped"}
Uses == {"closeStream", "closeItem", "downstream", "upstream", "closeLog"}

(* TypeOK, with the types it leaves open.                                     *)
Typed ==
  /\ active \in [Ends -> BOOLEAN] /\ lastID \in [Ends -> IDs]
  /\ table \in [Ends -> SUBSET IDs] /\ closeReq \in [Ends -> SUBSET IDs]
  /\ str \in [Ends -> [IDs -> Stream]] /\ wire \in [Ends -> Seq(Message)]
  /\ open \in [Ends -> BOOLEAN] /\ link \in BOOLEAN /\ funcs \in [Ends -> BOOLEAN]
  /\ dn \in [Ends -> DownWork] /\ ut \in [Ends -> UpWork] /\ ev \in [Ends -> Seq(Event)]
  /\ intr \in [Ends -> Interruption] /\ usr \in [Ends -> UserPlaces]
  /\ creates \in [Ends -> 0..MaxCreates] /\ notified \in [Ends -> Nat]
  /\ dangling \in SUBSET Uses
  /\ calls = [e \in Ends |-> calls[e]]

-----------------------------------------------------------------------------
LEMMA IDFacts ==
  /\ MaxID \in Nat /\ MaxID >= 1 /\ IDs \subseteq Nat /\ 0 \in IDs
  /\ ReadMax \in Nat \ {0}
  /\ \A e \in Ends : \A n \in IDs :
       (IF n >= MaxID - 1 THEN (IF MyStreamsEven(e) THEN 0 ELSE 1) ELSE n + 2) \in IDs
BY PlexerAssumption DEF PlexerAssumption, IDs

LEMMA ByteFacts ==
  /\ Marker \in Bytes /\ \A n \in 0..MaxWrites : n < MaxWrites => n + 1 \in Bytes
  /\ MaxWrites \in Nat /\ MaxReplies \in 0..MaxWrites /\ MaxCreates \in Nat
BY PlexerAssumption DEF PlexerAssumption, Bytes, Marker

LEMMA PeerFacts == \A e \in Ends : Peer(e) \in Ends /\ Peer(e) # e
BY DEF Ends, Peer

(* What the event queue is after each of the operators that change it.        *)
LEMMA AppendFacts ==
  ASSUME Typed, NEW e \in Ends, NEW r \in Event, ev' = [ev EXCEPT ![e] = Append(@, r)]
  PROVE  /\ ev' \in [Ends -> Seq(Event)]
         /\ \A x \in Ends : x # e => ev'[x] = ev[x]
         /\ Len(ev'[e]) = Len(ev[e]) + 1
         /\ \A k \in 1..Len(ev[e]) : ev'[e][k] = ev[e][k]
         /\ ev'[e][Len(ev[e]) + 1] = r
<1>1. ev[e] \in Seq(Event) /\ ev'[e] = Append(ev[e], r)
  BY DEF Typed
<1>2. ev'[e] \in Seq(Event)
  BY <1>1
<1> QED
  BY <1>1, <1>2, AppendProperties DEF Typed

LEMMA PostTypes ==
  ASSUME Typed, NEW e \in Ends, NEW kind \in EventKind, NEW i \in IDs,
         NEW who \in {"up", "intr", "user"}, Post(e, kind, i, who)
  PROVE  ev' \in [Ends -> Seq(Event)]
<1>1. [kind |-> kind, id |-> i, by |-> who] \in Event
  BY DEF Event
<1>2. ev' = [ev EXCEPT ![e] = Append(@, [kind |-> kind, id |-> i, by |-> who])]
  BY DEF Post
<1> QED
  BY <1>1, <1>2, AppendFacts

LEMMA AnswerFacts ==
  ASSUME Typed, NEW e \in Ends, ev[e] # <<>>, ev' = [ev EXCEPT ![e] = Tail(@)]
  PROVE  /\ ev' \in [Ends -> Seq(Event)]
         /\ \A x \in Ends : x # e => ev'[x] = ev[x]
         /\ Len(ev'[e]) = Len(ev[e]) - 1
         /\ \A k \in 1..Len(ev'[e]) : ev'[e][k] = ev[e][k + 1] /\ k + 1 \in 1..Len(ev[e])
<1>1. ev[e] \in Seq(Event) /\ ev'[e] = Tail(ev[e])
  BY DEF Typed
<1> QED
  BY <1>1, HeadTailProperties, LenProperties DEF Typed

LEMMA HeadFacts ==
  ASSUME Typed, NEW e \in Ends, ev[e] # <<>>
  PROVE  Head(ev[e]) \in Event /\ Head(ev[e]) = ev[e][1] /\ 1 \in 1..Len(ev[e])
<1>1. ev[e] \in Seq(Event)
  BY DEF Typed
<1> QED
  BY <1>1, HeadTailProperties, EmptySeq, LenProperties

LEMMA ProceedFacts ==
  ASSUME Typed, NEW e \in Ends, ev[e] # <<>>, NEW kind \in EventKind, Proceed(e, kind)
  PROVE  /\ ev' \in [Ends -> Seq(Event)]
         /\ \A x \in Ends : x # e => ev'[x] = ev[x]
         /\ Len(ev'[e]) = Len(ev[e])
         /\ ev'[e][1] = [ev[e][1] EXCEPT !.kind = kind]
         /\ \A k \in 2..Len(ev[e]) : ev'[e][k] = ev[e][k]
<1> DEFINE h == [Head(ev[e]) EXCEPT !.kind = kind]
<1>1. ev[e] \in Seq(Event) /\ ev'[e] = <<h>> \o Tail(ev[e])
  BY DEF Typed, Proceed
<1>2. h \in Event /\ h = [ev[e][1] EXCEPT !.kind = kind]
  BY HeadFacts DEF Event
<1>3. <<h>> \in Seq(Event) /\ Tail(ev[e]) \in Seq(Event) /\ Len(Tail(ev[e])) = Len(ev[e]) - 1
      /\ \A k \in 1..Len(Tail(ev[e])) : Tail(ev[e])[k] = ev[e][k + 1]
  BY <1>1, <1>2, HeadTailProperties
<1>4. Len(<<h>>) = 1 /\ <<h>>[1] = h /\ Len(ev[e]) \in Nat \ {0}
  BY <1>1, EmptySeq
<1> HIDE DEF h
<1>5. /\ <<h>> \o Tail(ev[e]) \in Seq(Event)
      /\ Len(<<h>> \o Tail(ev[e])) = 1 + (Len(ev[e]) - 1)
      /\ \A k \in 1..(1 + (Len(ev[e]) - 1)) :
           (<<h>> \o Tail(ev[e]))[k] = IF k <= 1 THEN <<h>>[k] ELSE Tail(ev[e])[k - 1]
  BY <1>3, <1>4, ConcatProperties
<1>6. Len(ev'[e]) = Len(ev[e]) /\ ev'[e][1] = h /\ \A k \in 2..Len(ev[e]) : ev'[e][k] = ev[e][k]
  BY <1>1, <1>3, <1>4, <1>5
<1>7. ev' \in [Ends -> Seq(Event)] /\ \A x \in Ends : x # e => ev'[x] = ev[x]
  BY <1>1, <1>5 DEF Typed, Proceed
<1> QED
  BY <1>2, <1>6, <1>7

LEMMA TypedImpliesTypeOK == Typed => TypeOK
<1> SUFFICES ASSUME Typed PROVE TypeOK
  OBVIOUS
<1>1. ASSUME NEW e \in Ends, NEW k \in 1..Len(ev[e]) PROVE ev[e][k].kind \in EventKind
  <2>1. ev[e] \in Seq(Event)
    BY DEF Typed
  <2>2. ev[e][k] \in Event
    BY <2>1, ElementOfSeq
  <2> QED
    BY <2>2 DEF Event
<1>2. \A e \in Ends : dn[e] \in DownWork /\ ut[e] \in UpWork
  BY DEF Typed
<1> QED
  BY <1>1, <1>2 DEF Typed, TypeOK, DownWork, UpWork, Interruption, UserPlaces, Uses

-----------------------------------------------------------------------------
(* What a step does to a stream's record keeps its type.                      *)
LEMMA NewStreams == NoStream \in Stream /\ \A b \in BOOLEAN : NewStream(b) \in Stream
<1>1. <<>> \in Seq(Bytes) /\ 0 \in 0..MaxWrites
  BY ByteFacts
<1> QED
  BY <1>1 DEF NewStream, NoStream, Stream

LEMMA StreamUpdates ==
  ASSUME NEW s \in Stream
  PROVE  /\ s.down \in Seq(Bytes) /\ s.up \in Seq(Bytes) /\ s.wrote \in 0..MaxWrites
         /\ \A d \in Seq(Bytes) : /\ [s EXCEPT !.down = d] \in Stream
                                  /\ [s EXCEPT !.up = d] \in Stream
                                  /\ [s EXCEPT !.userClosed = TRUE, !.down = d] \in Stream
                                  /\ \A n \in 0..MaxWrites :
                                       [s EXCEPT !.wrote = n, !.down = d] \in Stream
         /\ \A u \in {"none", "open", "closed"} : [s EXCEPT !.user = u] \in Stream
         /\ \A x \in {"none", "live", "doomed", "gone"} :
              /\ [s EXCEPT !.src = x] \in Stream
              /\ \A f \in {"none", "live", "freed"} :
                   [s EXCEPT !.src = x, !.info = f] \in Stream
         /\ \A b \in BOOLEAN : [s EXCEPT !.eof = b] \in Stream
BY DEF Stream

LEMMA StreamFacts ==
  ASSUME Typed, NEW e \in Ends, NEW i \in IDs
  PROVE  /\ str[e][i] \in Stream
         /\ \A s \in Stream : [str EXCEPT ![e] = [str[e] EXCEPT ![i] = s]] \in [Ends -> [IDs -> Stream]]
BY DEF Typed

LEMMA DangleTypes ==
  ASSUME Typed, NEW e, NEW i, NEW where \in Uses, Dangle(e, i, where)
  PROVE  dangling' \in SUBSET Uses
BY DEF Typed, Dangle

LEMMA TypeInit == Init => Typed
<1> SUFFICES ASSUME Init PROVE Typed
  OBVIOUS
<1>1. <<>> \in Seq(Event) /\ <<>> \in Seq(Bytes) /\ <<>> \in Seq(Message)
  OBVIOUS
<1>2. Idle \in DownWork /\ Idle \in UpWork
  BY <1>1, IDFacts DEF Idle, DownWork, UpWork
<1>3. \A e \in Ends : MaxID - (IF MyStreamsEven(e) THEN 1 ELSE 0) \in IDs
  BY IDFacts DEF IDs
<1>4. lastID \in [Ends -> IDs]
  BY <1>3 DEF Init
<1>5. 0 \in 0..MaxCreates
  BY ByteFacts
<1> QED
  BY <1>1, <1>2, <1>4, <1>5, NewStreams DEF Init, Typed, Callers, Interruption, UserPlaces, Uses

LEMMA InterruptTypes ==
  ASSUME Typed, NEW e \in Ends, NEW who \in Callers, Interrupt(e, who)
  PROVE  active' \in [Ends -> BOOLEAN] /\ intr' \in [Ends -> Interruption]
BY DEF Interrupt, Typed, Interruption

LEMMA UserTypes ==
  ASSUME Typed, NEW e \in Ends, User(e)
  PROVE  Typed'
<1>1. CASE CreateStream(e)
  <2> DEFINE i == NextID(e)
  <2>1. i \in IDs /\ lastID' = [lastID EXCEPT ![e] = i] /\ creates' = [creates EXCEPT ![e] = @ + 1]
    BY <1>1, IDFacts DEF CreateStream, NextID, Typed
  <2>2. creates' \in [Ends -> 0..MaxCreates]
    BY <1>1, <2>1, ByteFacts DEF CreateStream, Typed
  <2>3. CASE i \in table[e]
    <3>1. /\ Interrupt(e, "user") /\ UNCHANGED <<table, str>>
          /\ usr' = IF active[e] THEN [usr EXCEPT ![e] = "wedged"] ELSE usr
      BY <1>1, <2>3 DEF CreateStream
    <3> QED
      BY <1>1, <2>1, <2>2, <3>1, InterruptTypes DEF CreateStream, Typed, Callers, UserPlaces
  <2>4. CASE i \notin table[e]
    <3>1. /\ NoInterrupt /\ UNCHANGED usr
          /\ table' = [table EXCEPT ![e] = @ \cup {i}]
          /\ str' = [str EXCEPT ![e][i] = NewStream(TRUE)]
      BY <1>1, <2>4 DEF CreateStream
    <3>2. str' \in [Ends -> [IDs -> Stream]]
      BY <2>1, <3>1, NewStreams, StreamFacts
    <3>3. table' \in [Ends -> SUBSET IDs]
      BY <2>1, <3>1 DEF Typed
    <3> HIDE DEF i
    <3> QED
      BY <1>1, <2>1, <2>2, <3>1, <3>2, <3>3 DEF CreateStream, Typed, NoInterrupt
  <2> QED
    BY <2>3, <2>4
<1>2. ASSUME NEW i \in IDs, WriteDown(e, i) PROVE Typed'
  <2> DEFINE d == Append(str[e][i].down, str[e][i].wrote + 1)
  <2>1. str[e][i] \in Stream /\ str[e][i].wrote \in 0..MaxWrites /\ str[e][i].down \in Seq(Bytes)
    BY StreamFacts, StreamUpdates
  <2>2. str[e][i].wrote < MaxWrites
    BY <1>2, <2>1, ByteFacts DEF WriteDown
  <2>3. str[e][i].wrote + 1 \in Bytes /\ str[e][i].wrote + 1 \in 0..MaxWrites
    BY <2>1, <2>2, ByteFacts
  <2>4. d \in Seq(Bytes)
    BY <2>1, <2>3
  <2>5. [str[e][i] EXCEPT !.wrote = str[e][i].wrote + 1, !.down = d] \in Stream
    BY <2>1, <2>3, <2>4, StreamUpdates
  <2>6. str' = [str EXCEPT ![e] = [str[e] EXCEPT ![i] =
                  [str[e][i] EXCEPT !.wrote = str[e][i].wrote + 1, !.down = d]]]
    BY <1>2 DEF WriteDown, Typed, Stream
  <2>7. str' \in [Ends -> [IDs -> Stream]]
    BY <2>5, <2>6, StreamFacts
  <2> QED
    BY <1>2, <2>7 DEF WriteDown, threadVars, Typed
<1>3. ASSUME NEW i \in IDs, CloseStream(e, i) PROVE Typed'
  <2>1. str' = [str EXCEPT ![e] = [str[e] EXCEPT ![i] = [str[e][i] EXCEPT !.user = "closed"]]]
    BY <1>3 DEF CloseStream
  <2>2. str' \in [Ends -> [IDs -> Stream]]
    BY <2>1, StreamFacts, StreamUpdates
  <2>3. closeReq' \in [Ends -> SUBSET IDs]
    BY <1>3 DEF CloseStream, Typed
  <2>4. dangling' \in SUBSET Uses
    BY <1>3, DangleTypes DEF CloseStream, Uses
  <2> QED
    BY <1>3, <2>2, <2>3, <2>4 DEF CloseStream, threadVars, Typed
<1>4. CASE Stop(e)
  BY <1>4, InterruptTypes DEF Stop, Callers, Typed, UserPlaces
<1>5. CASE StopJoin(e)
  <2>1. ev' \in [Ends -> Seq(Event)]
    BY <1>5, IDFacts, PostTypes DEF StopJoin, EventKind
  <2> QED
    BY <1>5, <2>1 DEF StopJoin, Typed, UserPlaces
<1> QED
  BY <1>1, <1>2, <1>3, <1>4, <1>5 DEF User

LEMMA WorkUpdates ==
  /\ \A w \in DownWork : /\ w.id \in IDs /\ w.chunk \in Seq(Bytes)
                         /\ [w EXCEPT !.pc = "retire"] \in DownWork
  /\ \A w \in UpWork : /\ w.id \in IDs /\ w.chunk \in Seq(Bytes)
                       /\ \A p \in {"use", "post", "await"} : [w EXCEPT !.pc = p] \in UpWork
                       /\ \A b \in BOOLEAN : [w EXCEPT !.pc = "use", !.new = b] \in UpWork
  /\ Idle \in DownWork /\ Idle \in UpWork
  /\ \A i \in IDs : \A c \in Seq(Bytes) :
       /\ \A p \in {"send", "sendClose"} : [Idle EXCEPT !.pc = p, !.id = i, !.chunk = c] \in DownWork
       /\ [Idle EXCEPT !.pc = "choose", !.id = i, !.chunk = c] \in UpWork
       /\ [id |-> i, chunk |-> c] \in Message
<1>1. <<>> \in Seq(Bytes)
  OBVIOUS
<1> QED
  BY <1>1, IDFacts DEF DownWork, UpWork, Idle, Message

LEMMA SendTypes ==
  ASSUME Typed, NEW e \in Ends, NEW m \in Message, Send(e, m)
  PROVE  wire' \in [Ends -> Seq(Message)]
<1>1. wire[e] \in Seq(Message)
  BY DEF Typed
<1>2. Append(wire[e], m) \in Seq(Message)
  BY <1>1
<1> QED
  BY <1>2 DEF Send, Typed

LEMMA RetireTypes ==
  ASSUME Typed, NEW e \in Ends, NEW i \in IDs, Retire(e, i)
  PROVE  table' \in [Ends -> SUBSET IDs] /\ str' \in [Ends -> [IDs -> Stream]]
<1> DEFINE x == IF active[e] /\ str[e][i].src = "live" THEN "doomed" ELSE str[e][i].src
           f == IF i \in table[e] THEN "freed" ELSE str[e][i].info
<1>1. str[e][i] \in Stream
  BY StreamFacts
<1>2. x \in {"none", "live", "doomed", "gone"} /\ f \in {"none", "live", "freed"}
  BY <1>1 DEF Stream
<1>3. [str[e][i] EXCEPT !.src = x, !.info = f] \in Stream
  BY <1>1, <1>2, StreamUpdates
<1>4. str' = [str EXCEPT ![e] = [str[e] EXCEPT ![i] = [str[e][i] EXCEPT !.src = x, !.info = f]]]
  BY <1>1 DEF Retire, Typed, Stream
<1>5. str' \in [Ends -> [IDs -> Stream]]
  BY <1>3, <1>4, StreamFacts
<1> QED
  BY <1>5 DEF Retire, Typed

LEMMA DownTypes ==
  ASSUME Typed, NEW e \in Ends, DownThread(e) \/ GlobalQueue(e)
  PROVE  Typed'
<1>1. ASSUME NEW i \in IDs, CloseItem(e, i) PROVE Typed'
  <2> DEFINE d == Append(str[e][i].down, Marker)
  <2>1. str[e][i] \in Stream /\ str[e][i].down \in Seq(Bytes)
    BY StreamFacts, StreamUpdates
  <2>2. d \in Seq(Bytes)
    BY <2>1, ByteFacts
  <2>3. [str[e][i] EXCEPT !.userClosed = TRUE, !.down = d] \in Stream
    BY <2>1, <2>2, StreamUpdates
  <2>4. str' = [str EXCEPT ![e] = [str[e] EXCEPT ![i] =
                  [str[e][i] EXCEPT !.userClosed = TRUE, !.down = d]]]
    BY <1>1, <2>1 DEF CloseItem, Typed, Stream
  <2>5. str' \in [Ends -> [IDs -> Stream]]
    BY <2>3, <2>4, StreamFacts
  <2>6. dangling' \in SUBSET Uses
    BY <1>1, DangleTypes DEF CloseItem, Uses
  <2> QED
    BY <1>1, <2>5, <2>6 DEF CloseItem, threadVars, Typed
<1>2. ASSUME NEW i \in IDs, ServeDown(e, i) PROVE Typed'
  <2> DEFINE pipe == str[e][i].down
             n == Smaller(Len(pipe), ReadMax)
             chunk == SubSeq(pipe, 1, n)
             rest == SubSeq(pipe, n + 1, Len(pipe))
  <2>1. str[e][i] \in Stream /\ pipe \in Seq(Bytes)
    BY StreamFacts, StreamUpdates
  <2>2. n \in 0..Len(pipe) /\ Len(pipe) \in Nat
    BY <2>1, IDFacts DEF Smaller
  <2>3. chunk \in Seq(Bytes) /\ rest \in Seq(Bytes)
    BY <2>1, <2>2
  <2>4. [str[e][i] EXCEPT !.down = rest] \in Stream
    BY <2>1, <2>3, StreamUpdates
  <2>5. str' = [str EXCEPT ![e] = [str[e] EXCEPT ![i] = [str[e][i] EXCEPT !.down = rest]]]
    BY <1>2 DEF ServeDown
  <2>6. str' \in [Ends -> [IDs -> Stream]] /\ dangling' \in SUBSET Uses
    BY <1>2, <2>4, <2>5, StreamFacts, DangleTypes DEF ServeDown, Uses
  <2>7. dn' = [dn EXCEPT ![e] = [Idle EXCEPT !.pc = IF ClosesNow(e, i, chunk)
                                                    THEN "sendClose" ELSE "send",
                                             !.id = i, !.chunk = chunk]]
    BY <1>2 DEF ServeDown
  <2> HIDE DEF chunk
  <2>8. dn' \in [Ends -> DownWork]
    BY <2>3, <2>7, WorkUpdates DEF Typed
  <2> QED
    BY <1>2, <2>6, <2>8 DEF ServeDown, Typed
<1> DEFINE m == [id |-> dn[e].id, chunk |-> dn[e].chunk]
<1>3. dn[e] \in DownWork /\ m \in Message /\ CloseMessage(dn[e].id) \in Message
  <2>1. dn[e] \in DownWork /\ <<>> \in Seq(Bytes)
    BY DEF Typed
  <2> QED
    BY <2>1, WorkUpdates DEF CloseMessage
<1>4. CASE SendChunk(e)
  <2>1. wire' \in [Ends -> Seq(Message)]
    BY <1>3, <1>4, SendTypes DEF SendChunk, Typed
  <2>2. active' \in [Ends -> BOOLEAN] /\ intr' \in [Ends -> Interruption]
    BY <1>4, InterruptTypes DEF SendChunk, InterruptIfInactive, NoInterrupt, Callers, Typed
  <2>3. dn' \in [Ends -> DownWork]
    BY <1>4, WorkUpdates DEF SendChunk, Typed
  <2> QED
    BY <1>4, <2>1, <2>2, <2>3 DEF SendChunk, Typed
<1>5. CASE SendClose(e)
  <2>1. wire' \in [Ends -> Seq(Message)]
    BY <1>3, <1>5, SendTypes DEF SendClose, Typed
  <2>2. active' \in [Ends -> BOOLEAN] /\ intr' \in [Ends -> Interruption]
    BY <1>5, InterruptTypes DEF SendClose, InterruptIfInactive, NoInterrupt, Callers, Typed
  <2>3. dn' \in [Ends -> DownWork]
    BY <1>3, <1>5, WorkUpdates DEF SendClose, Typed
  <2> QED
    BY <1>5, <2>1, <2>2, <2>3 DEF SendClose, Typed
<1>6. CASE RetireDown(e)
  <2>1. table' \in [Ends -> SUBSET IDs] /\ str' \in [Ends -> [IDs -> Stream]]
    BY <1>3, <1>6, WorkUpdates, RetireTypes DEF RetireDown
  <2>2. dn' \in [Ends -> DownWork]
    BY <1>6, WorkUpdates DEF RetireDown, Typed
  <2> QED
    BY <1>6, <2>1, <2>2 DEF RetireDown, Typed
<1>7. ASSUME NEW i \in IDs, DestroySource(e, i) PROVE Typed'
  <2>1. str' = [str EXCEPT ![e] = [str[e] EXCEPT ![i] = [str[e][i] EXCEPT !.src = "gone"]]]
    BY <1>7 DEF DestroySource
  <2>2. str' \in [Ends -> [IDs -> Stream]]
    BY <2>1, StreamFacts, StreamUpdates
  <2> QED
    BY <1>7, <2>2 DEF DestroySource, threadVars, Typed
<1> QED
  BY <1>1, <1>2, <1>4, <1>5, <1>6, <1>7 DEF DownThread, GlobalQueue

LEMMA UpTypes ==
  ASSUME Typed, NEW e \in Ends, UpThread(e)
  PROVE  Typed'
<1>1. ut[e] \in UpWork /\ ut[e].id \in IDs /\ ut[e].chunk \in Seq(Bytes)
  BY WorkUpdates DEF Typed
<1>2. CASE ReadHeader(e)
  <2> DEFINE m == Head(wire[Peer(e)])
  <2>1. wire[Peer(e)] \in Seq(Message) /\ wire[Peer(e)] # <<>> /\ Peer(e) \in Ends
    BY <1>2, PeerFacts DEF ReadHeader, Typed
  <2>2. m \in Message /\ Tail(wire[Peer(e)]) \in Seq(Message)
    BY <2>1
  <2>3. m.id \in IDs /\ m.chunk \in Seq(Bytes)
    BY <2>2 DEF Message
  <2>4. wire' \in [Ends -> Seq(Message)]
    BY <1>2, <2>1, <2>2 DEF ReadHeader, Typed
  <2>5. ut' = [ut EXCEPT ![e] = [Idle EXCEPT !.pc = "choose", !.id = m.id, !.chunk = m.chunk]]
    BY <1>2 DEF ReadHeader
  <2> HIDE DEF m
  <2>6. ut' \in [Ends -> UpWork]
    BY <2>3, <2>5, WorkUpdates DEF Typed
  <2> QED
    BY <1>2, <2>4, <2>6 DEF ReadHeader, Typed
<1>3. CASE ReadFails(e)
  BY <1>3, InterruptTypes DEF ReadFails, Callers, Typed
<1>4. CASE ChooseStream(e)
  <2>1. CASE ut[e].id \notin table[e] /\ Refuses(e, ut[e].id)
    <3>1. ut' = [ut EXCEPT ![e] = Idle] /\ Interrupt(e, "up") /\ UNCHANGED <<table, str>>
      BY <1>4, <2>1 DEF ChooseStream
    <3> QED
      BY <1>4, <3>1, InterruptTypes, WorkUpdates DEF ChooseStream, Callers, Typed
  <2>2. CASE ~(ut[e].id \notin table[e] /\ Refuses(e, ut[e].id))
    <3> DEFINE known == ut[e].id \in table[e]
    <3>1. /\ ut' = [ut EXCEPT ![e].pc = "use", ![e].new = ~known]
          /\ table' = [table EXCEPT ![e] = @ \cup {ut[e].id}]
          /\ str' = IF known THEN str ELSE [str EXCEPT ![e][ut[e].id] = NewStream(FALSE)]
          /\ NoInterrupt
      BY <1>4, <2>2 DEF ChooseStream
    <3>2. str' \in [Ends -> [IDs -> Stream]]
      BY <1>1, <3>1, NewStreams, StreamFacts DEF Typed
    <3>3. ut' \in [Ends -> UpWork]
      <4>1. ut' = [ut EXCEPT ![e] = [ut[e] EXCEPT !.pc = "use", !.new = ~known]]
        BY <1>1, <3>1 DEF Typed, UpWork
      <4> QED
        BY <1>1, <4>1, WorkUpdates DEF Typed
    <3>4. table' \in [Ends -> SUBSET IDs]
      BY <1>1, <3>1 DEF Typed
    <3> QED
      BY <1>4, <3>1, <3>2, <3>3, <3>4 DEF ChooseStream, NoInterrupt, Typed
  <2> QED
    BY <2>1, <2>2
<1>5. CASE UseClose(e)
  <2>1. str' = [str EXCEPT ![e] = [str[e] EXCEPT ![ut[e].id] = [str[e][ut[e].id] EXCEPT !.eof = TRUE]]]
    BY <1>5 DEF UseClose
  <2>2. str' \in [Ends -> [IDs -> Stream]]
    BY <1>1, <2>1, StreamFacts, StreamUpdates
  <2>4. dangling' \in SUBSET Uses
    BY <1>1, <1>5, DangleTypes DEF UseClose, Uses
  <2>3. ut' \in [Ends -> UpWork]
    BY <1>1, <1>5, WorkUpdates DEF UseClose, Typed
  <2> QED
    BY <1>5, <2>2, <2>3, <2>4 DEF UseClose, Typed
<1>6. CASE UseData(e)
  <2> DEFINE s == str[e][ut[e].id]
  <2>1. s \in Stream /\ s.up \o ut[e].chunk \in Seq(Bytes)
    BY <1>1, StreamFacts, StreamUpdates, ConcatProperties
  <2>2. str' = [str EXCEPT ![e] = [str[e] EXCEPT ![ut[e].id] = [s EXCEPT !.up = s.up \o ut[e].chunk]]]
    BY <1>6 DEF UseData
  <2>3. [s EXCEPT !.up = s.up \o ut[e].chunk] \in Stream
    BY <2>1, StreamUpdates
  <2>4. str' \in [Ends -> [IDs -> Stream]] /\ dangling' \in SUBSET Uses
    BY <1>1, <1>6, <2>2, <2>3, StreamFacts, DangleTypes DEF UseData, Uses
  <2>5. ut' \in [Ends -> UpWork]
    BY <1>1, <1>6, WorkUpdates DEF UseData, Typed
  <2> QED
    BY <1>6, <2>4, <2>5 DEF UseData, Typed
<1>7. CASE UseFails(e)
  BY <1>7, InterruptTypes, WorkUpdates DEF UseFails, Callers, Typed
<1>8. CASE UseInactive(e)
  BY <1>8, InterruptTypes, WorkUpdates DEF UseInactive, Callers, Typed
<1>9. CASE PostUp(e)
  <2>1. ev' \in [Ends -> Seq(Event)]
    BY <1>1, <1>9, PostTypes DEF PostUp, EventKind
  <2>2. ut' \in [Ends -> UpWork]
    BY <1>1, <1>9, WorkUpdates DEF PostUp, Typed
  <2> QED
    BY <1>9, <2>1, <2>2 DEF PostUp, Typed
<1> QED
  BY <1>2, <1>3, <1>4, <1>5, <1>6, <1>7, <1>8, <1>9 DEF UpThread

LEMMA AnswerTypes ==
  ASSUME Typed, NEW e \in Ends, NEW by, ev[e] # <<>>, Answer(e, by)
  PROVE  /\ ev' \in [Ends -> Seq(Event)] /\ ut' \in [Ends -> UpWork]
         /\ intr' \in [Ends -> Interruption] /\ usr' \in [Ends -> UserPlaces]
<1>1. ev' \in [Ends -> Seq(Event)]
  BY AnswerFacts DEF Answer
<1>2. ut' \in [Ends -> UpWork]
  BY WorkUpdates DEF Answer, Typed
<1>3. usr' \in [Ends -> UserPlaces]
  BY DEF Answer, Typed, UserPlaces
<1>4. \A p \in {"done", "join"} : [intr EXCEPT ![e].pc = p] \in [Ends -> Interruption]
  BY DEF Typed, Interruption
<1>5. intr' \in [Ends -> Interruption]
  BY <1>4 DEF Answer, Typed
<1> QED
  BY <1>1, <1>2, <1>3, <1>5

LEMMA EventTypes ==
  ASSUME Typed, NEW e \in Ends, EventThread(e)
  PROVE  Typed'
<1>1. CASE FindCallback(e)
  <2>1. ev[e] # <<>> /\ \E kind \in EventKind : Proceed(e, kind)
    BY <1>1 DEF FindCallback, Running, EventKind
  <2>2. ev' \in [Ends -> Seq(Event)]
    BY <2>1, ProceedFacts
  <2> QED
    BY <1>1, <2>2 DEF FindCallback, Typed
<1>2. CASE NoCallback(e)
  <2>1. ev[e] # <<>>
    BY <1>2 DEF NoCallback, Running
  <2>2. CASE \E by : Answer(e, by)
    BY <1>2, <2>1, <2>2, AnswerTypes DEF NoCallback, Typed
  <2>3. CASE Proceed(e, "closed") /\ UNCHANGED <<ut, intr, usr>>
    <3>1. ev' \in [Ends -> Seq(Event)]
      BY <2>1, <2>3, ProceedFacts DEF EventKind
    <3> QED
      BY <1>2, <2>3, <3>1 DEF NoCallback, Typed
  <2> QED
    BY <1>2, <2>2, <2>3 DEF NoCallback
<1>3. CASE NotifyNewStream(e)
  <2> DEFINE i == Head(ev[e]).id
  <2>1. ev[e] # <<>> /\ i \in IDs
    BY <1>3, HeadFacts DEF NotifyNewStream, Running, Event
  <2>2. str' = [str EXCEPT ![e] = [str[e] EXCEPT ![i] = [str[e][i] EXCEPT !.user = "open"]]]
    BY <1>3 DEF NotifyNewStream
  <2>3. str' \in [Ends -> [IDs -> Stream]]
    BY <2>1, <2>2, StreamFacts, StreamUpdates
  <2>4. calls' = [x \in Ends |-> calls'[x]]
    BY <1>3 DEF NotifyNewStream, Typed
  <2> QED
    BY <1>3, <2>1, <2>3, <2>4, AnswerTypes DEF NotifyNewStream, Typed
<1>4. CASE NotifyClosing(e)
  <2>1. ev' \in [Ends -> Seq(Event)]
    BY <1>4, ProceedFacts DEF NotifyClosing, Running, EventKind
  <2>2. calls' = [x \in Ends |-> calls'[x]]
    BY <1>4 DEF NotifyClosing, Typed
  <2> QED
    BY <1>4, <2>1, <2>2 DEF NotifyClosing, Typed
<1>5. CASE RetireRemote(e)
  <2>1. ev[e] # <<>> /\ Head(ev[e]).id \in IDs
    BY <1>5, HeadFacts DEF RetireRemote, Running, Event
  <2>2. table' \in [Ends -> SUBSET IDs] /\ str' \in [Ends -> [IDs -> Stream]]
    BY <1>5, <2>1, RetireTypes DEF RetireRemote
  <2>3. dangling' \in SUBSET Uses
    BY <1>5 DEF RetireRemote, Typed, Uses
  <2> QED
    BY <1>5, <2>1, <2>2, <2>3, AnswerTypes DEF RetireRemote, Typed
<1>6. CASE NotifyInterrupted(e)
  <2>1. ev[e] # <<>> /\ notified' \in [Ends -> Nat]
    BY <1>6 DEF NotifyInterrupted, Running, Typed
  <2> QED
    BY <1>6, <2>1, AnswerTypes DEF NotifyInterrupted, Typed
<1>7. CASE Join(e)
  BY <1>7, AnswerTypes DEF Join, Running, Typed
<1> QED
  BY <1>1, <1>2, <1>3, <1>4, <1>5, <1>6, <1>7 DEF EventThread

LEMMA InterrupterTypes ==
  ASSUME Typed, NEW e \in Ends, Interrupter(e)
  PROVE  Typed'
<1>1. \A p \in {"hangup", "notify", "await", "join"} :
        [intr EXCEPT ![e].pc = p] \in [Ends -> Interruption]
  BY DEF Typed, Interruption
<1>2. CASE CloseProvider(e)
  BY <1>1, <1>2 DEF CloseProvider, IntrStep, Typed
<1>3. CASE HangUp(e)
  <2>1. ASSUME NEW i \in IDs
        PROVE  [str[e][i] EXCEPT !.eof = str[e][i].eof \/ i \in table[e]] \in Stream
    <3>1. (str[e][i].eof \/ i \in table[e]) \in BOOLEAN
      OBVIOUS
    <3> QED
      BY <3>1, StreamFacts, StreamUpdates, Zenon
  <2>2. str'[e] = [i \in IDs |-> [str[e][i] EXCEPT !.eof = str[e][i].eof \/ i \in table[e]]]
    BY <1>3, Zenon DEF HangUp, Typed
  <2>3. \A x \in Ends : x # e => str'[x] = str[x]
    BY <1>3 DEF HangUp, Typed
  <2>4. str' \in [Ends -> [IDs -> Stream]]
    <3>1. str'[e] \in [IDs -> Stream]
      BY <2>1, <2>2, Zenon
    <3>2. str' = [x \in Ends |-> str'[x]]
      BY <1>3 DEF HangUp, Typed
    <3> QED
      BY <2>3, <3>1, <3>2 DEF Typed
  <2> QED
    BY <1>1, <1>3, <2>4 DEF HangUp, IntrStep, Typed
<1>4. CASE PostInterrupted(e)
  <2>1. ev' \in [Ends -> Seq(Event)]
    BY <1>4, IDFacts, PostTypes DEF PostInterrupted, EventKind, Typed
  <2> QED
    BY <1>1, <1>4, <2>1 DEF PostInterrupted, Typed
<1>5. CASE PostJoin(e)
  <2>1. ev' \in [Ends -> Seq(Event)]
    BY <1>5, IDFacts, PostTypes DEF PostJoin, EventKind
  <2> QED
    BY <1>1, <1>5, <2>1 DEF PostJoin, IntrStep, Typed
<1> QED
  BY <1>2, <1>3, <1>4, <1>5 DEF Interrupter

LEMMA TypeStep == Typed /\ [Next]_vars => Typed'
<1> SUFFICES ASSUME Typed, [Next]_vars PROVE Typed'
  OBVIOUS
<1>1. CASE LinkFails
  BY <1>1 DEF LinkFails, threadVars, Typed
<1>2. CASE UNCHANGED vars
  BY <1>2 DEF vars, threadVars, Typed
<1> QED
  BY <1>1, <1>2, UserTypes, DownTypes, UpTypes, EventTypes, InterrupterTypes DEF Next

(* Type correctness: what each thread, queue and pipe can hold; in particular *)
(* ids stay in their range when they wrap around, and a stream never carries  *)
(* more writes than its user may make.                                        *)
THEOREM PlexerTypeCorrect == Spec => []TypeOK
<1>1. Spec => []Typed
  BY TypeInit, TypeStep, PTL DEF Spec
<1> QED
  BY <1>1, TypedImpliesTypeOK, PTL

-----------------------------------------------------------------------------
(* What the user is told.                                                     *)
Calling == {"callNew", "callClosing", "callInterrupted"}
Telling == {"interrupted", "callInterrupted"}
BeforeTelling == {"no", "close", "hangup", "notify"}

(* Only the dispatch at the head has looked for its callback.  YMPlexerStop   *)
(* clears the callbacks before it joins, and what the join passed in the      *)
(* queue was done when it returned.                                           *)
QuietAt(e) ==
  /\ usr[e] \in {"stop", "join", "stopped"} => ~funcs[e]
  /\ \A k \in 1..Len(ev[e]) : ev[e][k].by = "user" => ~funcs[e]
  /\ \A k \in 2..Len(ev[e]) : ev[e][k].kind \notin Calling
  /\ usr[e] = "stopped" => \A k \in 1..Len(ev[e]) : ev[e][k].kind \notin Calling

(* One thread goes through the interruption: it finds the plexer active, and  *)
(* no later one does.  It posts one notification, which is either waiting or  *)
(* done.                                                                      *)
OnceAt(e) ==
  /\ active[e] => intr[e].pc = "no"
  /\ \A k \in 1..Len(ev[e]) :
       /\ ev[e][k].by = "intr" => ~active[e]
       /\ ev[e][k].kind \in Telling =>
            /\ notified[e] = 0 /\ intr[e].pc \notin BeforeTelling
            /\ \A l \in 1..Len(ev[e]) : ev[e][l].kind \in Telling => l = k
  /\ intr[e].pc \in BeforeTelling => notified[e] = 0
  /\ notified[e] <= 1

ToldInv == Typed /\ \A e \in Ends : QuietAt(e) /\ OnceAt(e)

LEMMA ToldInit == Init => ToldInv
<1> SUFFICES ASSUME Init PROVE ToldInv
  OBVIOUS
<1>1. \A e \in Ends : Len(ev[e]) = 0
  BY DEF Init
<1> QED
  BY <1>1, TypeInit DEF Init, ToldInv, QuietAt, OnceAt, BeforeTelling

(* What of the types these arguments need.                                    *)
LEMMA ToldTypes ==
  ASSUME Typed
  PROVE  /\ active \in [Ends -> BOOLEAN] /\ funcs \in [Ends -> BOOLEAN]
         /\ usr \in [Ends -> UserPlaces] /\ intr \in [Ends -> Interruption]
         /\ notified \in [Ends -> Nat] /\ \A e \in Ends : Len(ev[e]) \in Nat
BY DEF Typed

(* A step of one end's threads leaves the other end's user and queue alone.   *)
SameAt(x) ==
  /\ ev'[x] = ev[x] /\ active'[x] = active[x] /\ funcs'[x] = funcs[x]
  /\ usr'[x] = usr[x] /\ intr'[x] = intr[x] /\ notified'[x] = notified[x]

LEMMA OthersKeep ==
  ASSUME ToldInv, Typed', NEW e \in Ends, \A x \in Ends : x # e => SameAt(x), QuietAt(e)', OnceAt(e)'
  PROVE  ToldInv'
<1> SUFFICES ASSUME NEW x \in Ends PROVE QuietAt(x)' /\ OnceAt(x)'
  BY DEF ToldInv
<1>1. CASE x = e
  BY <1>1
<1>2. CASE x # e
  BY <1>2 DEF SameAt, ToldInv, QuietAt, OnceAt
<1> QED
  BY <1>1, <1>2

LEMMA QuietStep ==
  ASSUME ToldInv, NEW e \in Ends, ev'[e] = ev[e], funcs'[e] = funcs[e] \/ ~funcs'[e],
         usr'[e] = usr[e] \/ usr'[e] = "wedged" \/ (usr'[e] = "stop" /\ ~funcs'[e])
  PROVE  QuietAt(e)'
BY DEF ToldInv, QuietAt

LEMMA OnceStep ==
  ASSUME ToldInv, NEW e \in Ends, ev'[e] = ev[e], notified'[e] = notified[e],
         \/ active'[e] = active[e] /\ intr'[e] = intr[e]
         \/ ~active'[e] /\ ~active[e] /\ intr'[e] = intr[e]
         \/ active[e] /\ ~active'[e] /\ intr'[e].pc = "close"
         \/ /\ active'[e] = active[e] /\ ~active[e]
            /\ intr'[e].pc \notin BeforeTelling \/ intr[e].pc \in BeforeTelling
            /\ intr[e].pc \in BeforeTelling \/ intr'[e].pc \notin BeforeTelling
  PROVE  OnceAt(e)'
BY DEF ToldInv, OnceAt, BeforeTelling, Telling

LEMMA InterruptEffect ==
  ASSUME ToldInv, NEW e \in Ends, NEW who, Interrupt(e, who) \/ NoInterrupt
  PROVE  /\ \A x \in Ends : x # e => active'[x] = active[x] /\ intr'[x] = intr[x]
         /\ \/ active'[e] = active[e] /\ intr'[e] = intr[e]
            \/ ~active'[e] /\ ~active[e] /\ intr'[e] = intr[e]
            \/ active[e] /\ ~active'[e] /\ intr'[e].pc = "close"
BY ToldTypes DEF ToldInv, Interrupt, NoInterrupt, Interruption

(* A step that leaves the event queue alone, and interrupts or does not.      *)
LEMMA InterruptingStep ==
  ASSUME ToldInv, Typed', NEW e \in Ends, NEW who, Interrupt(e, who) \/ NoInterrupt,
         ev' = ev, notified' = notified, funcs' = funcs \/ funcs' = [funcs EXCEPT ![e] = FALSE],
         \/ usr' = usr \/ usr' = [usr EXCEPT ![e] = "wedged"]
         \/ usr' = [usr EXCEPT ![e] = "stop"] /\ ~funcs'[e]
  PROVE  ToldInv'
<1>1. \A x \in Ends : x # e => SameAt(x)
  BY InterruptEffect, ToldTypes DEF SameAt, ToldInv
<1>2. QuietAt(e)'
  BY QuietStep, ToldTypes DEF ToldInv
<1>3. OnceAt(e)'
  BY OnceStep, InterruptEffect
<1> QED
  BY <1>1, <1>2, <1>3, OthersKeep

(* A dispatch is posted.                                                      *)
LEMMA PostStep ==
  ASSUME ToldInv, Typed', NEW e \in Ends, NEW kind \in EventKind, NEW i \in IDs,
         NEW who \in {"up", "intr", "user"}, Post(e, kind, i, who),
         kind \notin Calling, who = "user" => ~funcs[e], who = "intr" => ~active[e],
         active' = active, funcs' = funcs, notified' = notified,
         usr' = usr \/ (usr' = [usr EXCEPT ![e] = "join"] /\ ~funcs[e]),
         \/ intr' = intr /\ kind \notin Telling
         \/ intr' = [intr EXCEPT ![e].pc = "await"] /\ (kind \in Telling => intr[e].pc = "notify")
               /\ ~active[e]
  PROVE  ToldInv'
<1> DEFINE n == Len(ev[e])
           r == [kind |-> kind, id |-> i, by |-> who]
<1>1. /\ \A x \in Ends : x # e => ev'[x] = ev[x]
      /\ Len(ev'[e]) = n + 1
      /\ \A k \in 1..n : ev'[e][k] = ev[e][k]
      /\ ev'[e][n + 1] = r
  <2>1. Typed
    BY DEF ToldInv
  <2>2. r \in Event
    BY DEF Event
  <2>3. ev' = [ev EXCEPT ![e] = Append(@, r)]
    BY DEF Post
  <2> HIDE DEF r
  <2> QED
    BY <2>1, <2>2, <2>3, AppendFacts
<1>2. n \in Nat /\ \A k \in 1..(n + 1) : k \in 1..n \/ k = n + 1
  BY ToldTypes DEF ToldInv
<1>3. ev'[e][n + 1].kind = kind /\ ev'[e][n + 1].by = who
  BY <1>1
<1>4. \A x \in Ends : x # e => SameAt(x)
  BY <1>1, ToldTypes DEF SameAt, ToldInv
<1>5. usr'[e] = usr[e] \/ (usr'[e] = "join" /\ ~funcs[e])
  BY ToldTypes DEF ToldInv
<1>6. \/ intr'[e] = intr[e] /\ kind \notin Telling
      \/ intr'[e].pc = "await" /\ (kind \in Telling => intr[e].pc = "notify") /\ ~active[e]
  BY ToldTypes DEF ToldInv, Interruption
<1> HIDE DEF n
<1>7. QuietAt(e)'
  <2>1. QuietAt(e)
    BY DEF ToldInv
  <2>2. \A k \in 1..Len(ev'[e]) : /\ ev'[e][k].by = "user" => ~funcs[e]
                                  /\ k \in 1..n \/ (k = n + 1 /\ ev'[e][k].kind \notin Calling)
    <3>1. ASSUME NEW k \in 1..Len(ev'[e]), k \in 1..n PROVE ev'[e][k].by = "user" => ~funcs[e]
      BY <1>1, <2>1, <3>1 DEF QuietAt, n
    <3>2. \A k \in 1..Len(ev'[e]) : k \in 1..n \/ k = n + 1
      BY <1>1, <1>2
    <3> QED
      BY <1>3, <3>1, <3>2
  <2>3. \A k \in 2..Len(ev'[e]) : k \in 1..Len(ev'[e]) /\ (k \in 1..n => k \in 2..n)
    BY <1>1, <1>2
  <2>4. \A k \in 2..Len(ev'[e]) : ev'[e][k].kind \notin Calling
    BY <1>1, <2>1, <2>2, <2>3 DEF QuietAt, n
  <2>5. usr'[e] = "stopped" => \A k \in 1..Len(ev'[e]) : ev'[e][k].kind \notin Calling
    BY <1>1, <1>5, <2>1, <2>2 DEF QuietAt, n
  <2>6. usr'[e] \in {"stop", "join", "stopped"} => ~funcs[e]
    BY <1>5, <2>1 DEF QuietAt
  <2>7. ASSUME NEW k \in 1..Len(ev'[e]), ev'[e][k].by = "user" PROVE ~funcs'[e]
    BY <2>2, <2>7
  <2>8. usr'[e] \in {"stop", "join", "stopped"} => ~funcs'[e]
    BY <2>6
  <2> QED
    BY <2>4, <2>5, <2>7, <2>8, Zenon DEF QuietAt
<1>8. OnceAt(e)'
  <2>1. OnceAt(e) /\ n = Len(ev[e])
    BY DEF ToldInv, n
  <2>2. intr[e].pc = "notify" => notified[e] = 0 /\ \A k \in 1..n : ev[e][k].kind \notin Telling
    BY <2>1 DEF OnceAt, BeforeTelling
  <2>3. active'[e] = active[e] /\ notified'[e] = notified[e]
    OBVIOUS
  <2>4. intr'[e].pc \in BeforeTelling => notified[e] = 0 /\ intr'[e] = intr[e]
    BY <1>6, <2>1 DEF OnceAt, BeforeTelling
  <2>5. active[e] => intr'[e].pc = "no"
    BY <1>6, <2>1 DEF OnceAt
  <2>6. ASSUME NEW k \in 1..Len(ev'[e])
        PROVE  ev'[e][k].by = "intr" => ~active[e]
    BY <1>1, <1>2, <1>3, <2>1, <2>6 DEF OnceAt
  <2>7. ASSUME NEW k \in 1..Len(ev'[e]), ev'[e][k].kind \in Telling
        PROVE  /\ notified[e] = 0 /\ intr'[e].pc \notin BeforeTelling
               /\ \A l \in 1..Len(ev'[e]) : ev'[e][l].kind \in Telling => l = k
    <3>1. CASE kind \in Telling
      <4>1. intr[e].pc = "notify" /\ intr'[e].pc = "await"
        BY <1>6, <3>1
      <4> QED
        BY <1>1, <1>2, <2>2, <2>7, <4>1 DEF BeforeTelling
    <3>2. CASE kind \notin Telling
      <4>1. \A l \in 1..Len(ev'[e]) : ev'[e][l].kind \in Telling => l \in 1..n /\ ev'[e][l] = ev[e][l]
        BY <1>1, <1>2, <1>3, <3>2
      <4>2. intr'[e] = intr[e] \/ intr'[e].pc = "await"
        BY <1>6
      <4> QED
        BY <2>1, <2>7, <4>1, <4>2 DEF OnceAt, BeforeTelling
    <3> QED
      BY <3>1, <3>2
  <2>8. notified[e] <= 1
    BY <2>1 DEF OnceAt
  <2> QED
    BY <2>3, <2>4, <2>5, <2>6, <2>7, <2>8 DEF OnceAt
<1> QED
  BY <1>4, <1>7, <1>8, OthersKeep

(* The dispatch at the head has found its callback, or has none.              *)
LEMMA ProceedStep ==
  ASSUME ToldInv, Typed', NEW e \in Ends, ev[e] # <<>>, NEW kind \in EventKind, Proceed(e, kind),
         UNCHANGED <<active, intr, usr, funcs, notified>>,
         kind \in Telling <=> ev[e][1].kind \in Telling, kind \in Calling => funcs[e]
  PROVE  ToldInv'
<1>1. /\ \A x \in Ends : x # e => ev'[x] = ev[x]
      /\ Len(ev'[e]) = Len(ev[e])
      /\ ev'[e][1] = [ev[e][1] EXCEPT !.kind = kind]
      /\ \A k \in 2..Len(ev[e]) : ev'[e][k] = ev[e][k]
  BY ProceedFacts DEF ToldInv
<1>2. ev[e][1] \in Event /\ Len(ev[e]) \in Nat
  BY HeadFacts, ToldTypes DEF ToldInv
<1>3. ev'[e][1].kind = kind /\ ev'[e][1].by = ev[e][1].by
  BY <1>1, <1>2 DEF Event
<1>4. \A k \in 1..Len(ev[e]) : ev'[e][k].by = ev[e][k].by
                              /\ (ev'[e][k].kind \in Telling <=> ev[e][k].kind \in Telling)
  <2>1. \A k \in 1..Len(ev[e]) : k = 1 \/ k \in 2..Len(ev[e])
    BY <1>2
  <2> QED
    BY <1>1, <1>3, <2>1
<1>5. QuietAt(e) /\ OnceAt(e)
  BY DEF ToldInv
<1>6. QuietAt(e)'
  <2>1. \A k \in 1..Len(ev[e]) : k = 1 \/ k \in 2..Len(ev[e])
    BY <1>2
  <2>2. usr[e] = "stopped" => ~funcs[e] /\ kind \notin Calling
    BY <1>5 DEF QuietAt
  <2>3. \A k \in 1..Len(ev'[e]) : /\ ev'[e][k].by = "user" => ~funcs[e]
                                  /\ usr[e] = "stopped" => ev'[e][k].kind \notin Calling
    BY <1>1, <1>3, <1>4, <1>5, <2>1, <2>2 DEF QuietAt
  <2>4. \A k \in 2..Len(ev'[e]) : ev'[e][k].kind \notin Calling
    BY <1>1, <1>5 DEF QuietAt
  <2>5. usr'[e] \in {"stop", "join", "stopped"} => ~funcs'[e]
    BY <1>5 DEF QuietAt
  <2>6. \A k \in 1..Len(ev'[e]) : /\ ev'[e][k].by = "user" => ~funcs'[e]
                                  /\ usr'[e] = "stopped" => ev'[e][k].kind \notin Calling
    BY <2>3
  <2> QED
    BY <2>4, <2>5, <2>6 DEF QuietAt
<1>7. OnceAt(e)'
  BY <1>1, <1>4, <1>5 DEF OnceAt
<1>8. \A x \in Ends : x # e => SameAt(x)
  BY <1>1 DEF SameAt
<1> QED
  BY <1>6, <1>7, <1>8, OthersKeep

(* A dispatch that is answered leaves the queue.                              *)
LEMMA AnswerStep ==
  ASSUME ToldInv, Typed', NEW e \in Ends, ev[e] # <<>>, NEW by, Answer(e, by),
         by = "user" => ev[e][1].by = "user",
         by = "intr" => ev[e][1].by = "intr" \/ ~active[e],
         active' = active, funcs' = funcs,
         \/ notified' = notified
         \/ /\ notified' = [notified EXCEPT ![e] = @ + 1]
            /\ ev[e][1].kind \in Telling
  PROVE  ToldInv'
<1>1. /\ \A x \in Ends : x # e => ev'[x] = ev[x]
      /\ Len(ev'[e]) = Len(ev[e]) - 1
      /\ \A k \in 1..Len(ev'[e]) : ev'[e][k] = ev[e][k + 1] /\ k + 1 \in 1..Len(ev[e])
  BY AnswerFacts DEF Answer, ToldInv
<1>2. 1 \in 1..Len(ev[e]) /\ Len(ev[e]) \in Nat /\ Len(ev'[e]) \in Nat
  BY <1>1, HeadFacts, ToldTypes DEF ToldInv
<1>3. QuietAt(e) /\ OnceAt(e)
  BY DEF ToldInv
<1>4. \A x \in Ends : x # e => SameAt(x)
  BY <1>1, ToldTypes DEF SameAt, ToldInv, Answer
<1>5. usr'[e] = usr[e] \/ ~funcs[e]
  BY <1>2, <1>3 DEF Answer, QuietAt
<1>6. \A k \in 1..Len(ev'[e]) : k + 1 \in 2..Len(ev[e]) /\ k + 1 # 1
  BY <1>1, <1>2
<1>7. QuietAt(e)'
  <2>1. \A k \in 1..Len(ev'[e]) : ev'[e][k].kind \notin Calling
                                /\ (ev'[e][k].by = "user" => ~funcs[e])
    BY <1>1, <1>3, <1>6 DEF QuietAt
  <2>2. \A k \in 2..Len(ev'[e]) : k \in 1..Len(ev'[e])
    BY <1>2
  <2> QED
    BY <1>3, <1>5, <2>1, <2>2 DEF QuietAt
<1>8. intr'[e] = intr[e] \/ (~active[e] /\ intr'[e].pc \notin BeforeTelling)
  BY <1>2, <1>3, ToldTypes DEF Answer, OnceAt, ToldInv, Interruption, BeforeTelling
<1>9. ev[e][1].kind \in Telling =>
        /\ notified[e] = 0 /\ intr[e].pc \notin BeforeTelling
        /\ \A k \in 1..Len(ev'[e]) : ev'[e][k].kind \notin Telling
  BY <1>1, <1>2, <1>3, <1>6 DEF OnceAt
<1>10. notified'[e] = notified[e] \/ (notified'[e] = notified[e] + 1 /\ ev[e][1].kind \in Telling)
  BY ToldTypes DEF ToldInv
<1>11. OnceAt(e)'
  <2>1. \A k, l \in 1..Len(ev'[e]) : k + 1 = l + 1 => k = l
    BY <1>2
  <2>2. \A k \in 1..Len(ev'[e]) :
          /\ ev'[e][k].by = "intr" => ~active[e]
          /\ ev'[e][k].kind \in Telling =>
               /\ notified[e] = 0 /\ intr[e].pc \notin BeforeTelling
               /\ \A l \in 1..Len(ev'[e]) : ev'[e][l].kind \in Telling => l = k
    <3>1. ASSUME NEW k \in 1..Len(ev'[e]) PROVE ev'[e][k].by = "intr" => ~active[e]
      BY <1>1, <1>3 DEF OnceAt
    <3>2. ASSUME NEW k \in 1..Len(ev'[e]), ev'[e][k].kind \in Telling
          PROVE  /\ notified[e] = 0 /\ intr[e].pc \notin BeforeTelling
                 /\ \A l \in 1..Len(ev'[e]) : ev'[e][l].kind \in Telling => l = k
      <4>1. k + 1 \in 1..Len(ev[e]) /\ ev[e][k + 1].kind \in Telling
        BY <1>1, <3>2
      <4>2. /\ notified[e] = 0 /\ intr[e].pc \notin BeforeTelling
            /\ \A l \in 1..Len(ev[e]) : ev[e][l].kind \in Telling => l = k + 1
        BY <1>3, <4>1 DEF OnceAt
      <4>3. \A l \in 1..Len(ev'[e]) : ev'[e][l].kind \in Telling => l + 1 = k + 1
        BY <1>1, <4>2
      <4> QED
        BY <2>1, <4>2, <4>3
    <3> QED
      BY <3>1, <3>2
  <2>3. active'[e] = active[e]
    OBVIOUS
  <2> QED
    BY <1>3, <1>8, <1>9, <1>10, <2>2, <2>3 DEF OnceAt
<1> QED
  BY <1>4, <1>7, <1>11, OthersKeep

-----------------------------------------------------------------------------
LEMMA UserTold ==
  ASSUME ToldInv, Typed', NEW e \in Ends, User(e)
  PROVE  ToldInv'
<1>1. CASE CreateStream(e)
  BY <1>1, InterruptingStep DEF CreateStream
<1>2. ASSUME NEW i \in IDs, WriteDown(e, i) \/ CloseStream(e, i) PROVE ToldInv'
  BY <1>2, InterruptingStep DEF WriteDown, CloseStream, threadVars, NoInterrupt
<1>3. CASE Stop(e)
  <2>1. ~funcs'[e]
    BY <1>3, ToldTypes DEF Stop, ToldInv
  <2> QED
    BY <1>3, <2>1, InterruptingStep DEF Stop
<1>4. CASE StopJoin(e)
  <2>1. ~funcs[e]
    BY <1>4 DEF StopJoin, ToldInv, QuietAt
  <2> QED
    BY <1>4, <2>1, IDFacts, PostStep DEF StopJoin, EventKind, Calling, Telling
<1> QED
  BY <1>1, <1>2, <1>3, <1>4 DEF User

LEMMA ServiceTold ==
  ASSUME ToldInv, Typed', NEW e \in Ends, DownThread(e) \/ GlobalQueue(e) \/ UpThread(e)
  PROVE  ToldInv'
<1>1. CASE \E i \in IDs : CloseItem(e, i) \/ ServeDown(e, i) \/ DestroySource(e, i)
  BY <1>1, InterruptingStep DEF CloseItem, ServeDown, DestroySource, threadVars, NoInterrupt
<1>2. CASE SendChunk(e) \/ SendClose(e) \/ RetireDown(e)
  BY <1>2, InterruptingStep DEF SendChunk, SendClose, RetireDown, InterruptIfInactive, NoInterrupt
<1>3. CASE ReadHeader(e) \/ ReadFails(e) \/ UseClose(e) \/ UseData(e) \/ UseFails(e) \/ UseInactive(e)
  BY <1>3, InterruptingStep
     DEF ReadHeader, ReadFails, UseClose, UseData, UseFails, UseInactive, NoInterrupt
<1>4. CASE ChooseStream(e)
  BY <1>4, InterruptingStep DEF ChooseStream
<1>5. CASE PostUp(e)
  <2>1. ut[e].id \in IDs
    BY WorkUpdates DEF ToldInv, Typed
  <2>2. \A kind \in {"closing", "new"} : kind \in EventKind \ Calling /\ kind \notin Telling
    BY DEF EventKind, Calling, Telling
  <2>3. \E kind \in {"closing", "new"} : Post(e, kind, ut[e].id, "up")
    BY <1>5 DEF PostUp
  <2> QED
    BY <1>5, <2>1, <2>2, <2>3, PostStep DEF PostUp
<1> QED
  BY <1>1, <1>2, <1>3, <1>4, <1>5 DEF DownThread, GlobalQueue, UpThread

LEMMA InterrupterTold ==
  ASSUME ToldInv, Typed', NEW e \in Ends, Interrupter(e)
  PROVE  ToldInv'
<1>1. intr[e].pc # "no" => ~active[e]
  BY DEF ToldInv, OnceAt
<1>2. ASSUME NEW p \in {"hangup", "notify", "join"}, intr' = [intr EXCEPT ![e].pc = p],
             intr[e].pc \in {"close", "hangup", "notify"},
             UNCHANGED <<ev, active, funcs, usr, notified>>
      PROVE  ToldInv'
  <2>1. intr'[e].pc = p /\ \A x \in Ends : x # e => SameAt(x)
    BY <1>2, ToldTypes DEF ToldInv, SameAt, Interruption
  <2> QED
    BY <1>1, <1>2, <2>1, QuietStep, OnceStep, OthersKeep DEF BeforeTelling
<1>3. CASE CloseProvider(e)
  BY <1>2, <1>3 DEF CloseProvider, IntrStep
<1>4. CASE HangUp(e)
  BY <1>2, <1>4 DEF HangUp, IntrStep
<1>5. CASE PostInterrupted(e) /\ ~funcs[e]
  BY <1>2, <1>5 DEF PostInterrupted
<1>8. "interrupted" \in EventKind \ Calling /\ "join" \in EventKind \ Calling /\ "join" \notin Telling
  BY DEF EventKind, Calling, Telling
<1>6. CASE PostInterrupted(e) /\ funcs[e]
  <2>1. /\ Post(e, "interrupted", 0, "intr") /\ intr' = [intr EXCEPT ![e].pc = "await"]
        /\ intr[e].pc = "notify" /\ UNCHANGED <<active, funcs, notified, usr>>
    BY <1>6 DEF PostInterrupted
  <2> QED
    BY <1>1, <1>8, <2>1, IDFacts, PostStep
<1>7. CASE PostJoin(e)
  <2>1. /\ Post(e, "join", 0, "intr") /\ intr' = [intr EXCEPT ![e].pc = "await"]
        /\ intr[e].pc = "join" /\ UNCHANGED <<active, funcs, notified, usr>>
    BY <1>7 DEF PostJoin, IntrStep
  <2> QED
    BY <1>1, <1>8, <2>1, IDFacts, PostStep
<1> QED
  BY <1>3, <1>4, <1>5, <1>6, <1>7 DEF Interrupter

LEMMA EventTold ==
  ASSUME ToldInv, Typed', NEW e \in Ends, EventThread(e)
  PROVE  ToldInv'
<1>1. ev[e] # <<>> => /\ Head(ev[e]) = ev[e][1] /\ 1 \in 1..Len(ev[e])
                      /\ ev[e][1].kind \in Telling => ~active[e]
  BY HeadFacts DEF ToldInv, OnceAt, BeforeTelling
<1>2. CASE FindCallback(e)
  BY <1>1, <1>2, ProceedStep DEF FindCallback, Running, EventKind, Telling
<1>3. CASE NoCallback(e)
  <2>1. CASE Answer(e, Head(ev[e]).by)
    BY <1>1, <1>3, <2>1, AnswerStep DEF NoCallback, Running
  <2>2. CASE Running(e, "closing") /\ Proceed(e, "closed") /\ UNCHANGED <<ut, intr, usr>>
    BY <1>1, <1>3, <2>2, ProceedStep DEF NoCallback, Running, EventKind, Telling, Calling
  <2> QED
    BY <1>3, <2>1, <2>2 DEF NoCallback
<1>4. CASE NotifyNewStream(e)
  BY <1>1, <1>4, AnswerStep DEF NotifyNewStream, Running
<1>5. CASE NotifyClosing(e)
  BY <1>1, <1>5, ProceedStep DEF NotifyClosing, Running, EventKind, Telling, Calling
<1>6. CASE RetireRemote(e)
  BY <1>1, <1>6, AnswerStep DEF RetireRemote, Running
<1>7. CASE NotifyInterrupted(e)
  BY <1>1, <1>7, AnswerStep DEF NotifyInterrupted, Running, Telling
<1>8. CASE Join(e)
  BY <1>1, <1>8, AnswerStep DEF Join, Running
<1> QED
  BY <1>2, <1>3, <1>4, <1>5, <1>6, <1>7, <1>8 DEF EventThread

LEMMA ToldStep == ToldInv /\ [Next]_vars => ToldInv'
<1> SUFFICES ASSUME ToldInv, [Next]_vars PROVE ToldInv'
  OBVIOUS
<1>1. Typed'
  BY TypeStep DEF ToldInv
<1>2. CASE LinkFails \/ UNCHANGED vars
  BY <1>1, <1>2 DEF LinkFails, vars, threadVars, ToldInv, QuietAt, OnceAt
<1> QED
  BY <1>1, <1>2, UserTold, ServiceTold, EventTold, InterrupterTold DEF Next

LEMMA ToldInvariant == Spec => []ToldInv
BY ToldInit, ToldStep, PTL DEF Spec

(* The user is told of an interruption at most once, whichever of the down    *)
(* thread, the up thread and the user run into it, and in whatever order.     *)
THEOREM InterruptionToldOnce == Spec => []NotifiedOnce
<1>1. ToldInv => NotifiedOnce
  BY DEF ToldInv, OnceAt, NotifiedOnce
<1> QED
  BY <1>1, ToldInvariant, PTL

(* YMPlexerStop is a barrier: when it has returned no callback is under way,  *)
(* none starts, however many events wait in the queue.                        *)
THEOREM StopCorrect == Spec => StoppedIsQuiet
<1> DEFINE Heard == \A e \in Ends : usr[e] = "stopped" =>
                      calls'[e] = calls[e] /\ notified'[e] = notified[e]
<1>1. ToldInv /\ [Next]_vars => [Heard]_vars
  <2> SUFFICES ASSUME ToldInv, Next, NEW x \in Ends, usr[x] = "stopped"
               PROVE  calls'[x] = calls[x] /\ notified'[x] = notified[x]
    OBVIOUS
  <2>1. ev[x] # <<>> => Head(ev[x]).kind \notin Calling
    BY HeadFacts DEF ToldInv, QuietAt
  <2>2. calls = [e \in Ends |-> calls[e]] /\ notified \in [Ends -> Nat]
    BY DEF ToldInv, Typed
  <2>3. ASSUME NEW e \in Ends, EventThread(e) PROVE calls'[x] = calls[x] /\ notified'[x] = notified[x]
    BY <2>1, <2>2, <2>3
       DEF EventThread, FindCallback, NoCallback, NotifyNewStream, NotifyClosing, RetireRemote,
           NotifyInterrupted, Join, Running, Calling
  <2>4. ASSUME NEW e \in Ends, User(e) \/ Interrupter(e) \/ GlobalQueue(e)
        PROVE  UNCHANGED <<calls, notified>>
    BY <2>4 DEF User, CreateStream, Stop, StopJoin, WriteDown, CloseStream, Interrupter,
                CloseProvider, HangUp, PostInterrupted, PostJoin, GlobalQueue, DestroySource
  <2>5. ASSUME NEW e \in Ends, DownThread(e) \/ UpThread(e)
        PROVE  UNCHANGED <<calls, notified>>
    BY <2>5 DEF DownThread, CloseItem, ServeDown, SendChunk, SendClose, RetireDown, UpThread,
                ReadHeader, ReadFails, ChooseStream, UseClose, UseData, UseFails, UseInactive, PostUp
  <2> QED
    BY <2>3, <2>4, <2>5 DEF Next, LinkFails
<1> QED
  BY <1>1, ToldInvariant, PTL DEF Spec, StoppedIsQuiet
=============================================================================
