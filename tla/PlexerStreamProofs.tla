-------------------------- MODULE PlexerStreamProofs ---------------------------
(***************************************************************************)
(* What is invariant of the streams of Plexer, for any number of streams   *)
(* and writes and every failure: where each write is between the user who  *)
(* made it and the reader it is for, and what a step does to one end's     *)
(* records, pipes, readers and threads.  What is asked of the users is     *)
(* named: IdsSuffice, MarkerAlone, ClosesSettled and NoLateReply.          *)
(***************************************************************************)
EXTENDS PlexerProofs

(* What the users must keep to.  Stream ids are 64 bits wide in the code: no  *)
(* id is used twice.                                                          *)
IdsSuffice == 2 * MaxCreates <= MaxID + 1

(* The marker of a close comes alone: whoever closes has flushed, or a read   *)
(* of the down pipe returns one write.                                        *)
MarkerAlone == CloseRule = "free" => ReadMax = 1

(* Nobody closes a stream that the other end may still write to.              *)
ClosesSettled == CloseRule \in {"never", "settled"}
NoLateReply == ClosesSettled \/ MaxReplies = 0

-----------------------------------------------------------------------------
(* Positions on a stream, for what end e sends on i.  Write k takes the       *)
(* stream from position k - 1 to k, the close from wrote to wrote + 1.        *)
Positions == 0..(MaxWrites + 1)
FinalOf(s) == s.wrote + (IF s.userClosed THEN 1 ELSE 0)
SentOf(s) == FinalOf(s) - Len(s.down)
GotOf(s) == Len(s.up) + (IF s.eof THEN 1 ELSE 0)
Final(e, i) == FinalOf(str[e][i])
Sent(e, i) == SentOf(str[e][i])
Got(e, i) == GotOf(str[e][i])

(* Message m takes the reader of i from position a to b; last is the last     *)
(* write of the stream.                                                       *)
Carries(m, i, last, a, b) ==
  IF m.id # i THEN b = a
  ELSE IF IsClose(m) THEN a = last /\ b = last + 1
  ELSE b = a + Len(m.chunk) /\ b <= last /\ \A k \in 1..Len(m.chunk) : m.chunk[k] = a + k

(* The messages of w take it from a to b.                                     *)
Route(w, i, last, a, b, c) ==
  /\ c[1] = a /\ c[Len(w) + 1] = b
  /\ \A k \in 1..Len(w) + 1 : c[k] <= b
  /\ \A k \in 1..Len(w) : Carries(w[k], i, last, c[k], c[k + 1])
Flow(w, i, last, a, b) ==
  \E c \in [1..Len(w) + 1 -> Positions] : Route(w, i, last, a, b, c)

(* The message an up thread has read and not used, and the one a down thread  *)
(* is about to write.                                                         *)
Reading(e) == ut[e].pc \in {"choose", "use"}
InHand(e) == [id |-> ut[e].id, chunk |-> ut[e].chunk]
Hand(e, i, last, a, b) ==
  IF Reading(e) THEN Carries(InHand(e), i, last, a, b) ELSE b = a
Holding(e) == dn[e].pc \in {"send", "sendClose"}
Outgoing(e) == [id |-> dn[e].id, chunk |-> IF dn[e].pc = "send" THEN dn[e].chunk ELSE <<>>]

Out(e, i, last, a, b) ==
  IF Holding(e) THEN Carries(Outgoing(e), i, last, a, b) ELSE b = a

(* From the reader at the other end back to the down pipe at e: the message   *)
(* in hand, the wire and the down thread.                                     *)
Path(e, i, a, b, d) ==
  LET last == str[e][i].wrote
      p == Peer(e)
  IN /\ Hand(p, i, last, Got(p, i), a)
     /\ Flow(wire[e], i, last, a, b)
     /\ Out(e, i, last, b, d)
     /\ d <= Sent(e, i) /\ (active[e] => d = Sent(e, i))
PathAt(e, i) ==
  active[Peer(e)] =>
    /\ str[Peer(e)][i].eof => Len(str[Peer(e)][i].up) = str[e][i].wrote
    /\ \E a, b, d \in Positions : Path(e, i, a, b, d)

-----------------------------------------------------------------------------
(* One end's record of a stream.                                              *)
Handed(e, i) == i \in closeReq[e] \/ str[e][i].userClosed

RecordAt(e, i) ==
  LET s == str[e][i] IN
  /\ s.info = "none" => s = NoStream
  /\ s.info # "none" => s.local = Owns(e, i)
  /\ i \in table[e] => s.info = "live"
  /\ active[e] /\ s.info = "live" => i \in table[e]
  /\ Handed(e, i) => Owns(e, i) /\ s.user = "closed" /\ s.info # "none"
  /\ i \in closeReq[e] => ~s.userClosed
  /\ Owns(e, i) /\ s.info # "none" => i < 2 * creates[e] /\ e \in Creators
  /\ Owns(e, i) /\ s.info = "freed" => s.userClosed /\ s.down = <<>>
  /\ ~Owns(e, i) /\ s.info = "freed" => s.eof
  /\ ~Owns(e, i) => s.wrote <= MaxReplies
  /\ ~Owns(e, i) /\ s.user # "none" => s.up # <<>>

(* The down pipe holds what was written after the position the down thread    *)
(* has reached, and a marker only at its end.                                 *)
PipeAt(e, i) ==
  LET s == str[e][i] IN
  /\ Len(s.down) <= Final(e, i)
  /\ \A k \in 1..Len(s.down) :
       s.down[k] = IF Sent(e, i) + k <= s.wrote THEN Sent(e, i) + k ELSE Marker
  /\ CloseRule # "free" /\ Handed(e, i) => Sent(e, i) >= s.wrote

(* The up pipe holds what the other end wrote.                                *)
ReaderAt(e, i) ==
  /\ Len(str[e][i].up) <= str[Peer(e)][i].wrote
  /\ \A k \in 1..Len(str[e][i].up) : str[e][i].up[k] = k
  /\ ~Owns(e, i) /\ str[e][i].info # "none" => str[Peer(e)][i].info # "none"

(* Nobody writes any more to a stream whose close was handed over.            *)
SettledAt(e, i) ==
  Handed(e, i) =>
    /\ Len(str[e][i].up) = str[Peer(e)][i].wrote
    /\ str[Peer(e)][i].down = <<>>
    /\ \/ str[e][i].wrote = 0 \/ str[Peer(e)][i].user = "closed"
       \/ str[Peer(e)][i].wrote = MaxReplies

EndAt(e) ==
  /\ active[e] => open[e]
  /\ lastID[e] = IF creates[e] = 0 THEN MaxID - (IF MyStreamsEven(e) THEN 1 ELSE 0)
                 ELSE 2 * creates[e] - (IF MyStreamsEven(e) THEN 2 ELSE 1)
  /\ dn[e].pc \in {"sendClose", "retire"} =>
       str[e][dn[e].id].userClosed /\ str[e][dn[e].id].down = <<>>

(* The up thread, and the notification it waits for.                          *)
Opening == {"new", "callNew"}
Closing == {"closing", "callClosing", "closed"}
UpAt(e) ==
  LET i == ut[e].id
      s == str[e][i]
      posted == ut[e].pc \in {"post", "await"}
  IN /\ ut[e].pc = "use" => s.info # "none"
     /\ ut[e].pc = "use" /\ ut[e].new => ~Owns(e, i) /\ s.user = "none" /\ calls[e][i] = <<>>
     /\ posted => ~Owns(e, i)
     /\ posted /\ ut[e].chunk # <<>> =>
          s.user = "none" /\ calls[e][i] = <<>> /\ s.up # <<>>
     /\ posted /\ ut[e].chunk = <<>> =>
          /\ s.eof /\ Len(s.up) = str[Peer(e)][i].wrote /\ str[Peer(e)][i].userClosed
     /\ ut[e].pc = "post" /\ ut[e].chunk = <<>> => calls[e][i] \in {<<>>, <<"new">>}
EventsAt(e) ==
  /\ \A k \in 1..Len(ev[e]) :
       /\ ev[e][k].kind \in Opening \cup Closing <=> ev[e][k].by = "up"
       /\ ev[e][k].by = "up" =>
            /\ ut[e].pc = "await" /\ ev[e][k].id = ut[e].id
            /\ ev[e][k].kind \in Opening <=> ut[e].chunk # <<>>
            /\ \A l \in 1..Len(ev[e]) : ev[e][l].by = "up" => l = k
       /\ ev[e][k].kind \in {"closing", "callClosing"} => calls[e][ev[e][k].id] \in {<<>>, <<"new">>}
       /\ ev[e][k].kind = "callClosing" /\ calls[e][ev[e][k].id] = <<>> => str[e][ev[e][k].id].up = <<>>

(* What the user has heard of a stream.                                       *)
Announcing(e, i) == ut[e].id = i /\ ut[e].pc \in {"post", "await"} /\ ut[e].chunk # <<>>
Making(e, i) == ut[e].id = i /\ ut[e].pc = "use" /\ ut[e].new
HeardAt(e, i) ==
  LET s == str[e][i]
      p == Peer(e)
  IN /\ calls[e][i] \in {<<>>, <<"new">>, <<"new", "closing">>, <<"closing">>}
     /\ calls[e][i] # <<>> => ~Owns(e, i) /\ s.info # "none"
     /\ calls[e][i] \in {<<"new", "closing">>, <<"closing">>} => s.eof
     /\ calls[e][i] = <<"closing">> => str[p][i].wrote = 0 /\ str[p][i].userClosed
     /\ ~Owns(e, i) /\ funcs[e] /\ s.up # <<>> => calls[e][i] # <<>> \/ Announcing(e, i)
     /\ ~Owns(e, i) /\ i \in table[e] /\ active[e] => s.up # <<>> \/ s.eof \/ Making(e, i)

FlowInv ==
  /\ calls \in [Ends -> [IDs -> Seq({"new", "closing"})]]
  /\ \A e \in Ends : EndAt(e) /\ UpAt(e) /\ EventsAt(e)
  /\ \A e \in Ends : \A i \in IDs :
       RecordAt(e, i) /\ PipeAt(e, i) /\ ReaderAt(e, i) /\ PathAt(e, i) /\ HeardAt(e, i)
SettledInv == ClosesSettled => \A e \in Ends : \A i \in IDs : Owns(e, i) => SettledAt(e, i)

(* What is asked of the users, and the whole invariant.                       *)
Disciplined ==
  IdsSuffice /\ MarkerAlone /\ (NoLateReply \/ Creators \subseteq {"master"})
StreamInv == ToldInv /\ FlowInv /\ SettledInv

-----------------------------------------------------------------------------
(* Lemmas about positions and routes.                                         *)
LEMMA PositionFacts ==
  /\ MaxWrites \in Nat /\ Positions \subseteq Nat /\ 0 \in Positions
  /\ \A n \in 0..MaxWrites : n \in Positions /\ n + 1 \in Positions
BY ByteFacts DEF Positions

LEMMA CarriesOrder ==
  ASSUME NEW m \in Message, NEW i, NEW last \in Nat, NEW a \in Nat, NEW b \in Nat,
         Carries(m, i, last, a, b)
  PROVE  /\ a <= b /\ (m.id # i => b = a) /\ (m.id = i => b <= last + 1)
         /\ (m.id = i => a < b /\ a <= last)
         /\ (m.id = i /\ IsClose(m) => a = last /\ b = last + 1)
         /\ (m.id = i /\ ~IsClose(m) => b <= last)
<1>1. m.chunk \in Seq(Bytes) /\ Len(m.chunk) \in Nat
  BY DEF Message
<1>2. m.chunk # <<>> => Len(m.chunk) > 0
  BY <1>1, EmptySeq
<1> QED
  BY <1>1, <1>2 DEF Carries, IsClose

(* With one more write, no message before it is any different.                *)
LEMMA CarriesGrow ==
  ASSUME NEW m \in Message, NEW i, NEW last \in Nat, NEW a \in Nat, NEW b \in Nat,
         Carries(m, i, last, a, b), b <= last
  PROVE  Carries(m, i, last + 1, a, b)
BY CarriesOrder DEF Carries

LEMMA FlowEmpty ==
  ASSUME NEW i, NEW last, NEW a \in Positions
  PROVE  Flow(<<>>, i, last, a, a)
<1> DEFINE c == [k \in 1..Len(<<>>) + 1 |-> a]
<1>1. c \in [1..Len(<<>>) + 1 -> Positions] /\ Len(<<>>) = 0
  OBVIOUS
<1>2. a <= a
  BY PositionFacts
<1>3. Route(<<>>, i, last, a, a, c)
  BY <1>1, <1>2 DEF Route
<1> QED
  BY <1>1, <1>3 DEF Flow

LEMMA FlowOrder ==
  ASSUME NEW w \in Seq(Message), NEW i, NEW last, NEW a, NEW b, Flow(w, i, last, a, b)
  PROVE  a <= b /\ a \in Positions /\ b \in Positions
<1>1. PICK c \in [1..Len(w) + 1 -> Positions] : Route(w, i, last, a, b, c)
  BY DEF Flow
<1>2. Len(w) \in Nat
  OBVIOUS
<1>3. 1 \in 1..Len(w) + 1 /\ Len(w) + 1 \in 1..Len(w) + 1
  BY <1>2
<1> QED
  BY <1>1, <1>3 DEF Route

LEMMA FlowAppend ==
  ASSUME NEW w \in Seq(Message), NEW m \in Message, NEW i, NEW last \in Nat,
         NEW a, NEW b, NEW d \in Positions,
         Flow(w, i, last, a, b), Carries(m, i, last, b, d)
  PROVE  Flow(Append(w, m), i, last, a, d)
<1>1. PICK c \in [1..Len(w) + 1 -> Positions] : Route(w, i, last, a, b, c)
  BY DEF Flow
<1> DEFINE n == Len(w)
           v == Append(w, m)
           f == [k \in 1..n + 2 |-> IF k = n + 2 THEN d ELSE c[k]]
<1>2. n \in Nat /\ Len(v) = n + 1 /\ v[n + 1] = m /\ \A k \in 1..n : v[k] = w[k]
  BY AppendProperties
<1>3. b \in Positions /\ b <= d
  BY <1>1, FlowOrder, CarriesOrder, PositionFacts
<1> HIDE DEF n, v
<1>4. f \in [1..n + 2 -> Positions]
  <2>1. \A k \in 1..n + 2 : k # n + 2 => k \in 1..n + 1
    BY <1>2
  <2> QED
    BY <1>1, <2>1 DEF n
<1>5. f[1] = a /\ f[n + 2] = d
  BY <1>1, <1>2 DEF Route, n
<1>6. \A k \in 1..n + 2 : f[k] <= d
  <2>1. d <= d
    BY PositionFacts
  <2>2. ASSUME NEW k \in 1..n + 2, k # n + 2 PROVE f[k] <= d
    <3>0. k \in 1..n + 1
      BY <1>2, <2>2
    <3>1. k \in 1..n + 1 /\ c[k] \in Nat /\ c[k] <= b
      BY <1>1, <3>0, PositionFacts DEF Route, n
    <3> QED
      BY <1>3, <2>2, <3>1, PositionFacts
  <2> QED
    BY <2>1, <2>2
<1>7. ASSUME NEW k \in 1..n + 1 PROVE Carries(v[k], i, last, f[k], f[k + 1])
  <2>1. CASE k = n + 1
    <3>1. f[k] = b /\ f[k + 1] = d /\ v[k] = m
      BY <1>1, <1>2, <2>1 DEF Route, n
    <3> QED
      BY <3>1
  <2>2. CASE k # n + 1
    <3>1. k \in 1..n /\ f[k] = c[k] /\ f[k + 1] = c[k + 1] /\ v[k] = w[k]
      BY <1>2, <2>2
    <3> QED
      BY <1>1, <3>1 DEF Route, n
  <2> QED
    BY <2>1, <2>2
<1>8. Len(v) + 1 = n + 2
  BY <1>2
<1> HIDE DEF f
<1>9. Route(v, i, last, a, d, f)
  BY <1>2, <1>5, <1>6, <1>7, <1>8 DEF Route
<1> QED
  BY <1>4, <1>8, <1>9 DEF Flow, v

LEMMA FlowTail ==
  ASSUME NEW w \in Seq(Message), w # <<>>, NEW i, NEW last, NEW a, NEW b, Flow(w, i, last, a, b)
  PROVE  \E s \in Positions : Carries(Head(w), i, last, a, s) /\ Flow(Tail(w), i, last, s, b)
<1>1. PICK c \in [1..Len(w) + 1 -> Positions] : Route(w, i, last, a, b, c)
  BY DEF Flow
<1> DEFINE n == Len(w)
           t == Tail(w)
           f == [k \in 1..n |-> c[k + 1]]
<1>2. n \in Nat /\ n > 0 /\ Len(t) = n - 1 /\ Head(w) = w[1] /\ \A k \in 1..n - 1 : t[k] = w[k + 1]
  BY EmptySeq, HeadTailProperties
<1>3. Len(t) + 1 = n
  BY <1>2
<1> HIDE DEF n, t
<1>4. \A k \in 1..n : k + 1 \in 1..n + 1
  BY <1>2
<1>5. f \in [1..n -> Positions]
  BY <1>1, <1>4 DEF n
<1>6. f[1] = c[2] /\ f[n] = b /\ c[2] \in Positions
  BY <1>1, <1>2, <1>4, <1>5 DEF Route, n
<1>7. \A k \in 1..n : f[k] <= b
  BY <1>1, <1>4 DEF Route, n
<1>8. ASSUME NEW k \in 1..n - 1 PROVE Carries(t[k], i, last, f[k], f[k + 1])
  <2>1. k + 1 \in 1..n /\ k \in 1..n /\ f[k] = c[k + 1] /\ f[k + 1] = c[(k + 1) + 1] /\ t[k] = w[k + 1]
    BY <1>2
  <2> QED
    BY <1>1, <2>1 DEF Route, n
<1>9. Carries(w[1], i, last, a, c[2])
  BY <1>1, <1>2 DEF Route, n
<1> HIDE DEF f
<1>10. Route(t, i, last, c[2], b, f)
  BY <1>2, <1>3, <1>6, <1>7, <1>8 DEF Route
<1>11. Flow(t, i, last, c[2], b)
  BY <1>3, <1>5, <1>10 DEF Flow
<1> QED
  BY <1>2, <1>6, <1>9, <1>11 DEF t

LEMMA FlowGrow ==
  ASSUME NEW w \in Seq(Message), NEW i, NEW last \in Nat, NEW a, NEW b, Flow(w, i, last, a, b),
         b <= last
  PROVE  Flow(w, i, last + 1, a, b)
<1>1. PICK c \in [1..Len(w) + 1 -> Positions] : Route(w, i, last, a, b, c)
  BY DEF Flow
<1>0. b \in Nat
  BY FlowOrder, PositionFacts
<1>2. ASSUME NEW k \in 1..Len(w) PROVE Carries(w[k], i, last + 1, c[k], c[k + 1])
  <2>1. k \in 1..Len(w) + 1 /\ k + 1 \in 1..Len(w) + 1 /\ w[k] \in Message
    BY ElementOfSeq
  <2>2. c[k] \in Nat /\ c[k + 1] \in Nat /\ c[k + 1] <= b /\ Carries(w[k], i, last, c[k], c[k + 1])
    BY <1>1, <2>1, PositionFacts DEF Route
  <2>3. c[k + 1] <= last
    BY <1>0, <2>2
  <2> QED
    BY <2>1, <2>2, <2>3, CarriesGrow
<1>3. Route(w, i, last + 1, a, b, c)
  BY <1>1, <1>2 DEF Route
<1> QED
  BY <1>3 DEF Flow

-----------------------------------------------------------------------------
(* What the invariant says of a stream.                                       *)
LEMMA PeerOfPeer == \A e \in Ends : /\ Peer(e) \in Ends /\ Peer(e) # e /\ Peer(Peer(e)) = e
                                    /\ \A x \in Ends : x = e \/ x = Peer(e)
                                    /\ \A i \in IDs : Owns(e, i) <=> ~Owns(Peer(e), i)
BY DEF Ends, Peer, Owns, MyStreamsEven

LEMMA StreamTypes ==
  ASSUME Typed, NEW e \in Ends, NEW i \in IDs
  PROVE  /\ str[e][i] \in Stream /\ str[e][i].info \in {"none", "live", "freed"}
         /\ str[e][i].wrote \in 0..MaxWrites /\ str[e][i].wrote \in Nat
         /\ str[e][i].down \in Seq(Bytes) /\ str[e][i].up \in Seq(Bytes)
         /\ Len(str[e][i].down) \in Nat /\ Len(str[e][i].up) \in Nat
         /\ str[e][i].eof \in BOOLEAN /\ str[e][i].userClosed \in BOOLEAN
         /\ wire[e] \in Seq(Message) /\ dn[e] \in DownWork /\ ut[e] \in UpWork
<1>1. str[e][i] \in Stream
  BY StreamFacts
<1>2. /\ str[e][i].wrote \in 0..MaxWrites /\ str[e][i].info \in {"none", "live", "freed"}
      /\ str[e][i].down \in Seq(Bytes) /\ str[e][i].up \in Seq(Bytes)
      /\ str[e][i].eof \in BOOLEAN /\ str[e][i].userClosed \in BOOLEAN
  BY <1>1 DEF Stream
<1>3. Len(str[e][i].down) \in Nat /\ Len(str[e][i].up) \in Nat /\ str[e][i].wrote \in Nat
  <2>1. Len(str[e][i].down) \in Nat
    BY <1>2, LenProperties
  <2>2. Len(str[e][i].up) \in Nat
    BY <1>2, LenProperties
  <2>3. PICK n \in 0..MaxWrites : n = str[e][i].wrote
    BY <1>2
  <2>4. n \in Nat
    BY ByteFacts
  <2> QED
    BY <2>1, <2>2, <2>3, <2>4
<1>4. wire[e] \in Seq(Message) /\ dn[e] \in DownWork /\ ut[e] \in UpWork
  BY DEF Typed
<1> QED
  BY <1>1, <1>2, <1>3, <1>4

(* The positions of a stream in terms of its pipes.                           *)
LEMMA RecordValues ==
  ASSUME NEW s \in Stream
  PROVE  /\ s.userClosed => FinalOf(s) = s.wrote + 1
         /\ ~s.userClosed => FinalOf(s) = s.wrote
         /\ s.eof => GotOf(s) = Len(s.up) + 1
         /\ ~s.eof => GotOf(s) = Len(s.up)
         /\ SentOf(s) = FinalOf(s) - Len(s.down)
         /\ FinalOf(s) \in Nat /\ SentOf(s) \in Int /\ SentOf(s) <= FinalOf(s)
         /\ GotOf(s) \in Nat
         /\ s.wrote \in Nat /\ Len(s.down) \in Nat /\ Len(s.up) \in Nat
         /\ FinalOf(s) >= s.wrote /\ GotOf(s) >= Len(s.up)
<1>1. /\ s.wrote \in Nat /\ Len(s.down) \in Nat /\ Len(s.up) \in Nat
      /\ s.eof \in BOOLEAN /\ s.userClosed \in BOOLEAN
  <2>1. s.down \in Seq(Bytes) /\ s.up \in Seq(Bytes) /\ s.wrote \in 0..MaxWrites
        /\ s.eof \in BOOLEAN /\ s.userClosed \in BOOLEAN
    BY DEF Stream
  <2> QED
    BY <2>1, ByteFacts
<1>2. PICK w \in Nat : w = s.wrote
  BY <1>1
<1>3. PICK n \in Nat : n = Len(s.down)
  BY <1>1
<1>4. PICK g \in Nat : g = Len(s.up)
  BY <1>1
<1>5. PICK f \in Nat : f = FinalOf(s) /\ (s.userClosed => f = w + 1) /\ (~s.userClosed => f = w)
  <2>1. CASE s.userClosed
    BY <1>2, <2>1 DEF FinalOf
  <2>2. CASE ~s.userClosed
    BY <1>2, <2>2 DEF FinalOf
  <2> QED
    BY <2>1, <2>2
<1>6. PICK t \in Nat : t = GotOf(s) /\ (s.eof => t = g + 1) /\ (~s.eof => t = g)
  <2>1. CASE s.eof
    BY <1>4, <2>1 DEF GotOf
  <2>2. CASE ~s.eof
    BY <1>4, <2>2 DEF GotOf
  <2> QED
    BY <2>1, <2>2
<1>7. SentOf(s) = f - n
  BY <1>3, <1>5 DEF SentOf
<1>8. SentOf(s) \in Int /\ SentOf(s) <= f
  BY <1>7
<1>9. f >= w /\ t >= g
  BY <1>1, <1>5, <1>6
<1> QED
  BY <1>2, <1>3, <1>4, <1>5, <1>6, <1>7, <1>8, <1>9

LEMMA PositionValues ==
  ASSUME Typed, NEW e \in Ends, NEW i \in IDs
  PROVE  /\ str[e][i].userClosed => Final(e, i) = str[e][i].wrote + 1
         /\ ~str[e][i].userClosed => Final(e, i) = str[e][i].wrote
         /\ str[e][i].eof => Got(e, i) = Len(str[e][i].up) + 1
         /\ ~str[e][i].eof => Got(e, i) = Len(str[e][i].up)
         /\ Sent(e, i) = Final(e, i) - Len(str[e][i].down)
         /\ Final(e, i) \in Nat /\ Sent(e, i) \in Int /\ Sent(e, i) <= Final(e, i)
         /\ Got(e, i) \in Nat
<1>1. str[e][i] \in Stream
  BY StreamTypes
<1> QED
  BY <1>1, RecordValues DEF Final, Sent, Got

LEMMA MessagesInHand ==
  ASSUME Typed, NEW e \in Ends
  PROVE  /\ InHand(e) \in Message /\ InHand(e).id = ut[e].id /\ InHand(e).chunk = ut[e].chunk
         /\ Outgoing(e) \in Message /\ Outgoing(e).id = dn[e].id
         /\ dn[e].pc = "send" => Outgoing(e).chunk = dn[e].chunk
         /\ dn[e].pc # "send" => Outgoing(e).chunk = <<>>
         /\ ut[e].id \in IDs /\ dn[e].id \in IDs
         /\ ut[e].chunk \in Seq(Bytes) /\ dn[e].chunk \in Seq(Bytes)
<1>1. dn[e] \in DownWork /\ ut[e] \in UpWork /\ <<>> \in Seq(Bytes)
  BY DEF Typed
<1>2. ut[e].id \in IDs /\ dn[e].id \in IDs /\ ut[e].chunk \in Seq(Bytes) /\ dn[e].chunk \in Seq(Bytes)
  BY <1>1, WorkUpdates, Zenon
<1> QED
  BY <1>1, <1>2 DEF InHand, Outgoing, Message

LEMMA PathOrder ==
  ASSUME Typed, NEW e \in Ends, NEW i \in IDs,
         NEW a \in Positions, NEW b \in Positions, NEW d \in Positions, Path(e, i, a, b, d)
  PROVE  /\ Got(Peer(e), i) <= a /\ a <= b /\ b <= d /\ d <= Sent(e, i)
         /\ Got(Peer(e), i) <= Final(e, i)
<1>1. Peer(e) \in Ends
  BY PeerOfPeer
<1>2. /\ str[e][i].wrote \in Nat /\ Got(Peer(e), i) \in Nat /\ wire[e] \in Seq(Message)
      /\ Final(e, i) \in Nat /\ Sent(e, i) \in Int /\ Sent(e, i) <= Final(e, i)
      /\ a \in Nat /\ b \in Nat /\ d \in Nat
  BY <1>1, StreamTypes, PositionValues, PositionFacts
<1>3. InHand(Peer(e)) \in Message /\ Outgoing(e) \in Message
  BY <1>1, MessagesInHand
<1>4. Got(Peer(e), i) <= a
  BY <1>2, <1>3, CarriesOrder DEF Path, Hand
<1>5. a <= b
  BY <1>2, FlowOrder DEF Path
<1>6. b <= d
  BY <1>2, <1>3, CarriesOrder DEF Path, Out
<1>7. d <= Sent(e, i)
  BY DEF Path
<1> QED
  BY <1>2, <1>4, <1>5, <1>6, <1>7

(* The message in hand at an active end continues what its reader has got.    *)
LEMMA InHandFacts ==
  ASSUME StreamInv, NEW p \in Ends, active[p], Reading(p), NEW i, i = ut[p].id
  PROVE  LET e == Peer(p)
             s == str[p][i]
         IN /\ ~s.eof
            /\ ut[p].chunk = <<>> => Len(s.up) = str[e][i].wrote /\ str[e][i].userClosed
            /\ ut[p].chunk # <<>> =>
                 /\ Len(ut[p].chunk) > 0 /\ Len(s.up) + Len(ut[p].chunk) <= str[e][i].wrote
                 /\ Len(s.up) < str[e][i].wrote
                 /\ \A k \in 1..Len(ut[p].chunk) : ut[p].chunk[k] = Len(s.up) + k
<1> DEFINE e == Peer(p)
           s == str[p][i]
<1>1. e \in Ends /\ Peer(e) = p /\ i \in IDs /\ Typed
  BY PeerOfPeer, MessagesInHand DEF StreamInv, ToldInv
<1>2. /\ s.eof => Len(s.up) = str[e][i].wrote
      /\ \E a, b, d \in Positions : Path(e, i, a, b, d)
  BY <1>1 DEF StreamInv, FlowInv, PathAt
<1>3. PICK a \in Positions, b \in Positions, d \in Positions : Path(e, i, a, b, d)
  BY <1>2
<1>4. /\ Carries(InHand(p), i, str[e][i].wrote, Got(p, i), a)
      /\ InHand(p) \in Message /\ InHand(p).id = i /\ InHand(p).chunk = ut[p].chunk
  BY <1>1, <1>3, MessagesInHand DEF Path, Hand
<1>5. a \in Nat /\ b \in Nat /\ d \in Nat /\ str[e][i].wrote \in Nat /\ Got(p, i) \in Nat
      /\ Sent(e, i) \in Int /\ Sent(e, i) <= Final(e, i) /\ str[e][i].userClosed \in BOOLEAN
      /\ s.eof \in BOOLEAN /\ Len(s.up) \in Nat
  BY <1>1, PositionFacts, StreamTypes, PositionValues
<1>6. a <= Sent(e, i)
  BY <1>1, <1>3, <1>5, PathOrder
<1>7. Got(p, i) <= str[e][i].wrote
  BY <1>4, <1>5, CarriesOrder
<1>8. ~s.eof /\ Got(p, i) = Len(s.up)
  <2>1. (s.eof => Got(p, i) = Len(s.up) + 1) /\ (~s.eof => Got(p, i) = Len(s.up))
    BY <1>1, PositionValues
  <2>2. ~s.eof
    <3>1. SUFFICES ASSUME s.eof PROVE FALSE
      OBVIOUS
    <3>2. Got(p, i) = str[e][i].wrote + 1
      BY <1>2, <2>1, <3>1
    <3> QED
      BY <1>5, <1>7, <3>2
  <2> QED
    BY <2>1, <2>2
<1>9. ASSUME ut[p].chunk = <<>> PROVE Len(s.up) = str[e][i].wrote /\ str[e][i].userClosed
  <2>1. Got(p, i) = str[e][i].wrote /\ a = str[e][i].wrote + 1
    BY <1>4, <1>5, <1>9, CarriesOrder DEF IsClose
  <2>2. Final(e, i) >= str[e][i].wrote + 1
    BY <1>1, <1>5, <1>6, <2>1, PositionValues
  <2> QED
    BY <1>1, <1>5, <1>8, <2>1, <2>2, PositionValues
<1>10. ASSUME ut[p].chunk # <<>>
       PROVE  /\ Len(ut[p].chunk) > 0 /\ Len(s.up) + Len(ut[p].chunk) <= str[e][i].wrote
              /\ Len(s.up) < str[e][i].wrote
              /\ \A k \in 1..Len(ut[p].chunk) : ut[p].chunk[k] = Len(s.up) + k
  <2>1. ut[p].chunk \in Seq(Bytes)
    BY <1>1, MessagesInHand
  <2>2. Len(ut[p].chunk) > 0 /\ Len(ut[p].chunk) \in Nat
    BY <1>10, <2>1, EmptySeq
  <2>3. /\ a = Len(s.up) + Len(ut[p].chunk) /\ a <= str[e][i].wrote
        /\ \A k \in 1..Len(ut[p].chunk) : ut[p].chunk[k] = Len(s.up) + k
    BY <1>4, <1>8, <1>10 DEF Carries, IsClose
  <2>4. PICK n \in Nat : n = Len(ut[p].chunk)
    BY <2>2
  <2>5. PICK u \in Nat : u = Len(s.up)
    BY <1>5
  <2>6. PICK w \in Nat : w = str[e][i].wrote
    BY <1>5
  <2>7. u < w
    <3>1. n > 0 /\ u + n <= w
      BY <2>2, <2>3, <2>4, <2>5, <2>6
    <3> QED
      BY <3>1
  <2> QED
    BY <2>2, <2>3, <2>5, <2>6, <2>7
<1> QED
  BY <1>8, <1>9, <1>10

(* A reader at end of file, at an active end, has got everything.             *)
LEMMA EofFacts ==
  ASSUME StreamInv, NEW p \in Ends, active[p], NEW i \in IDs, str[p][i].eof
  PROVE  /\ str[Peer(p)][i].userClosed /\ Len(str[p][i].up) = str[Peer(p)][i].wrote
         /\ ~(Reading(p) /\ ut[p].id = i)
<1> DEFINE e == Peer(p)
<1>1. e \in Ends /\ Peer(e) = p /\ Typed
  BY PeerOfPeer DEF StreamInv, ToldInv
<1>2. /\ Len(str[p][i].up) = str[e][i].wrote
      /\ \E a, b, d \in Positions : Path(e, i, a, b, d)
  BY <1>1 DEF StreamInv, FlowInv, PathAt
<1>3. Got(p, i) <= Final(e, i)
  BY <1>1, <1>2, PathOrder
<1>4. str[e][i].wrote \in Nat /\ str[e][i].userClosed \in BOOLEAN
  BY <1>1, StreamTypes
<1>5. str[e][i].userClosed
  <2>1. Got(p, i) = str[e][i].wrote + 1
    BY <1>1, <1>2, PositionValues
  <2>2. ~str[e][i].userClosed => Final(e, i) = str[e][i].wrote
    BY <1>1, PositionValues
  <2> QED
    BY <1>3, <1>4, <2>1, <2>2
<1>6. ~(Reading(p) /\ ut[p].id = i)
  BY InHandFacts
<1> QED
  BY <1>2, <1>5, <1>6

(* A message for a stream an active end does not list and does not refuse is  *)
(* the first message of a stream the other end made.                          *)
LEMMA UnlistedIsNew ==
  ASSUME Disciplined, StreamInv, NEW p \in Ends, active[p], Reading(p), NEW i, i = ut[p].id,
         i \notin table[p], Refuses(p, i) => ClosesSettled \/ MaxReplies = 0
  PROVE  ~Owns(p, i) /\ str[p][i] = NoStream /\ str[Peer(p)][i].info # "none"
<1> DEFINE e == Peer(p)
           s == str[p][i]
           r == str[e][i]
<1>1. e \in Ends /\ Peer(e) = p /\ i \in IDs /\ Typed /\ (Owns(p, i) <=> ~Owns(e, i))
  BY PeerOfPeer, MessagesInHand DEF StreamInv, ToldInv
<1>2. /\ ~s.eof
      /\ ut[p].chunk = <<>> => r.userClosed
      /\ ut[p].chunk # <<>> => Len(s.up) < r.wrote
  BY InHandFacts
<1>3. RecordAt(p, i) /\ RecordAt(e, i) /\ ReaderAt(e, i) /\ (ClosesSettled /\ Owns(p, i) => SettledAt(p, i))
  BY <1>1 DEF StreamInv, FlowInv, SettledInv
<1>4. s.info \in {"none", "live", "freed"} /\ r.wrote \in Nat /\ Len(s.up) \in Nat
  BY <1>1, StreamTypes
<1>5. r.info # "none"
  <2>1. r.wrote > 0 \/ r.userClosed
    <3>1. CASE ut[p].chunk = <<>>
      BY <1>2, <3>1
    <3>2. CASE ut[p].chunk # <<>>
      <4>1. Len(s.up) < r.wrote
        BY <1>2, <3>2
      <4> QED
        BY <1>4, <4>1
    <3> QED
      BY <3>1, <3>2
  <2> QED
    BY <1>3, <2>1 DEF RecordAt, NoStream
<1>6. s.info = "none" => s = NoStream
  BY <1>3 DEF RecordAt
<1>7. s.info # "live"
  BY <1>3 DEF RecordAt
<1>8. CASE ~Owns(p, i)
  BY <1>2, <1>3, <1>4, <1>5, <1>6, <1>7, <1>8 DEF RecordAt
<1>9. CASE Owns(p, i)
  <2>1. ut[p].chunk # <<>>
    BY <1>1, <1>2, <1>3, <1>9 DEF RecordAt, Handed
  <2>2. s.info # "none"
    BY <1>1, <1>3, <1>5, <1>9 DEF ReaderAt
  <2>3. s.userClosed /\ p \in Creators
    BY <1>3, <1>4, <1>7, <1>9, <2>2 DEF RecordAt
  <2>4. Len(s.up) < r.wrote
    BY <1>2, <2>1
  <2>5. ~ClosesSettled
    BY <1>3, <1>4, <1>9, <2>3, <2>4 DEF SettledAt, Handed
  <2>6. MaxReplies # 0
    BY <1>1, <1>3, <1>4, <1>9, <2>4 DEF RecordAt
  <2>7. p = "master"
    BY <2>3, <2>5, <2>6 DEF Disciplined, NoLateReply
  <2>8. Refuses(p, i)
    BY <1>9, <2>7 DEF Owns, Refuses, MyStreamsEven
  <2> QED
    BY <2>5, <2>6, <2>8
<1> QED
  BY <1>8, <1>9

-----------------------------------------------------------------------------
(* What the steps do to a stream's record.                                    *)
Only(e, i) == \A x \in Ends : \A j \in IDs : x # e \/ j # i => str'[x][j] = str[x][j]

(* The fields of a record that two records share.                             *)
SameLife(s, r) == s.info = r.info /\ s.local = r.local /\ s.user = r.user
SamePipe(s, r) == s.wrote = r.wrote /\ s.userClosed = r.userClosed /\ s.down = r.down
SameReader(s, r) == s.up = r.up /\ s.eof = r.eof

LEMMA StrEffect ==
  ASSUME Typed, NEW e \in Ends, NEW i \in IDs, NEW r,
         str' = [str EXCEPT ![e] = [str[e] EXCEPT ![i] = r]]
  PROVE  str'[e][i] = r /\ Only(e, i)
BY DEF Typed, Only

LEMMA NoStreamFields ==
  /\ NoStream.info = "none" /\ NoStream.local = FALSE /\ NoStream.userClosed = FALSE
  /\ NoStream.down = <<>> /\ NoStream.up = <<>> /\ NoStream.eof = FALSE
  /\ NoStream.src = "none" /\ NoStream.user = "none" /\ NoStream.wrote = 0
BY DEF NoStream

LEMMA NewStreamFields ==
  ASSUME NEW b \in BOOLEAN
  PROVE  /\ NewStream(b).info = "live" /\ NewStream(b).local = b
         /\ NewStream(b).userClosed = FALSE /\ NewStream(b).down = <<>>
         /\ NewStream(b).up = <<>> /\ NewStream(b).eof = FALSE /\ NewStream(b).wrote = 0
         /\ NewStream(b).user = (IF b THEN "open" ELSE "none")
         /\ SamePipe(NewStream(b), NoStream) /\ SameReader(NewStream(b), NoStream)
BY DEF NewStream, NoStream, SamePipe, SameReader

LEMMA InterruptQuiets ==
  ASSUME Typed, NEW e \in Ends, NEW who, Interrupt(e, who) \/ NoInterrupt
  PROVE  /\ \A x \in Ends : active'[x] => active[x]
         /\ \A x \in Ends : x # e => active'[x] = active[x]
BY DEF Typed, Interrupt, NoInterrupt

(* The next id was never used.                                                *)
LEMMA NextIsFresh ==
  ASSUME Disciplined, StreamInv, NEW e \in Ends, e \in Creators, creates[e] < MaxCreates,
         NEW i, i = NextID(e)
  PROVE  /\ i \in IDs /\ Owns(e, i) /\ str[e][i] = NoStream /\ i \notin table[e]
         /\ i < 2 * (creates[e] + 1) /\ creates[e] \in Nat
         /\ i = 2 * (creates[e] + 1) - (IF MyStreamsEven(e) THEN 2 ELSE 1)
<1>1. /\ lastID[e] \in IDs /\ creates[e] \in 0..MaxCreates /\ MaxCreates \in Nat
      /\ MaxID \in Nat /\ MaxID % 2 = 1 /\ creates[e] \in Nat
  BY PlexerAssumption DEF PlexerAssumption, StreamInv, ToldInv, Typed
<1>2. 2 * MaxCreates <= MaxID + 1
  BY DEF Disciplined, IdsSuffice
<1>3. lastID[e] = IF creates[e] = 0 THEN MaxID - (IF MyStreamsEven(e) THEN 1 ELSE 0)
                  ELSE 2 * creates[e] - (IF MyStreamsEven(e) THEN 2 ELSE 1)
  BY DEF StreamInv, FlowInv, EndAt
<1>4. i = IF lastID[e] >= MaxID - 1 THEN (IF MyStreamsEven(e) THEN 0 ELSE 1) ELSE lastID[e] + 2
  BY DEF NextID
<1> DEFINE c == creates[e]
           l == lastID[e]
<1>5. c \in Nat /\ c + 1 <= MaxCreates
  BY <1>1
<1>6. 2 * c + 2 <= MaxID + 1
  BY <1>1, <1>2, <1>5
<1> HIDE DEF c, l
<1>7. /\ i \in IDs /\ (Even(i) <=> MyStreamsEven(e)) /\ ~(i < 2 * c) /\ i < 2 * (c + 1)
      /\ i = 2 * (c + 1) - (IF MyStreamsEven(e) THEN 2 ELSE 1)
  <2>1. CASE MyStreamsEven(e)
    <3>1. (c = 0 => l = MaxID - 1) /\ (c # 0 => l = 2 * c - 2)
      BY <1>3, <2>1 DEF c, l
    <3>2. (l >= MaxID - 1 => i = 0) /\ (~(l >= MaxID - 1) => i = l + 2)
      BY <1>4, <2>1 DEF l
    <3>3. i = 2 * c
      BY <1>1, <1>5, <1>6, <3>1, <3>2
    <3>4. i \in IDs /\ i < 2 * (c + 1) /\ i = 2 * (c + 1) - 2 /\ i % 2 = 0
      BY <1>1, <1>5, <1>6, <3>3 DEF IDs
    <3> QED
      BY <1>5, <2>1, <3>3, <3>4 DEF Even
  <2>2. CASE ~MyStreamsEven(e)
    <3>1. (c = 0 => l = MaxID) /\ (c # 0 => l = 2 * c - 1)
      BY <1>1, <1>3, <2>2 DEF c, l
    <3>2. (l >= MaxID - 1 => i = 1) /\ (~(l >= MaxID - 1) => i = l + 2)
      BY <1>4, <2>2 DEF l
    <3>3. i = 2 * c + 1
      BY <1>1, <1>5, <1>6, <3>1, <3>2
    <3>4. i \in IDs /\ i < 2 * (c + 1) /\ i = 2 * (c + 1) - 1 /\ i % 2 = 1 /\ ~(i < 2 * c)
      BY <1>1, <1>5, <1>6, <3>3 DEF IDs
    <3> QED
      BY <2>2, <3>4 DEF Even
  <2> QED
    BY <2>1, <2>2
<1>8. Owns(e, i) /\ RecordAt(e, i)
  BY <1>7 DEF Owns, StreamInv, FlowInv
<1>9. str[e][i] = NoStream /\ i \notin table[e]
  BY <1>7, <1>8, NoStreamFields DEF RecordAt, c
<1> QED
  BY <1>5, <1>7, <1>8, <1>9 DEF c

(* What each step that changes a record leaves of it.                         *)
LEMMA WriteEffect ==
  ASSUME Typed, NEW e \in Ends, NEW i \in IDs, WriteDown(e, i)
  PROVE  LET s == str[e][i]
             r == str'[e][i]
         IN /\ Only(e, i) /\ SameLife(s, r) /\ SameReader(s, r) /\ r.userClosed = s.userClosed
            /\ r.wrote = s.wrote + 1 /\ r.down = Append(s.down, s.wrote + 1)
            /\ s.user = "open" /\ s.wrote < MaxWrites /\ (~s.local => s.wrote < MaxReplies)
<1> DEFINE s == str[e][i]
           r == [s EXCEPT !.wrote = s.wrote + 1, !.down = Append(s.down, s.wrote + 1)]
<1>1. str' = [str EXCEPT ![e] = [str[e] EXCEPT ![i] = r]]
  BY DEF WriteDown, Typed, Stream
<1>2. str'[e][i] = r /\ Only(e, i)
  BY <1>1, StrEffect
<1>3. s \in Stream /\ s.wrote \in 0..MaxWrites /\ s.local \in BOOLEAN
  BY StreamTypes DEF Stream
<1>4. s.user = "open" /\ s.wrote < (IF s.local THEN MaxWrites ELSE MaxReplies)
  BY DEF WriteDown
<1>5. s.wrote < MaxWrites /\ (~s.local => s.wrote < MaxReplies)
  BY <1>3, <1>4, ByteFacts
<1>6. /\ SameLife(s, r) /\ SameReader(s, r) /\ r.userClosed = s.userClosed
      /\ r.wrote = s.wrote + 1 /\ r.down = Append(s.down, s.wrote + 1)
  BY <1>3 DEF Stream, SameLife, SameReader, r
<1> QED
  BY <1>2, <1>4, <1>5, <1>6

LEMMA CloseEffect ==
  ASSUME Typed, NEW e \in Ends, NEW i \in IDs, CloseStream(e, i)
  PROVE  LET s == str[e][i]
             r == str'[e][i]
         IN /\ Only(e, i) /\ SamePipe(s, r) /\ SameReader(s, r) /\ r.info = s.info /\ r.local = s.local
            /\ s.user = "open" /\ r.user = "closed"
<1> DEFINE s == str[e][i]
           r == [s EXCEPT !.user = "closed"]
<1>1. str' = [str EXCEPT ![e] = [str[e] EXCEPT ![i] = r]] /\ s.user = "open"
  BY DEF CloseStream
<1>2. str'[e][i] = r /\ Only(e, i)
  BY <1>1, StrEffect
<1>3. s \in Stream
  BY StreamTypes
<1>4. SamePipe(s, r) /\ SameReader(s, r) /\ r.info = s.info /\ r.local = s.local /\ r.user = "closed"
  BY <1>3 DEF Stream, SamePipe, SameReader, r
<1> QED
  BY <1>1, <1>2, <1>4

LEMMA CloseItemEffect ==
  ASSUME Typed, NEW e \in Ends, NEW i \in IDs, CloseItem(e, i)
  PROVE  LET s == str[e][i]
             r == str'[e][i]
         IN /\ Only(e, i) /\ SameLife(s, r) /\ SameReader(s, r) /\ r.wrote = s.wrote
            /\ r.userClosed = TRUE /\ r.down = Append(s.down, Marker)
<1> DEFINE s == str[e][i]
           r == [s EXCEPT !.userClosed = TRUE, !.down = Append(s.down, Marker)]
<1>1. str' = [str EXCEPT ![e] = [str[e] EXCEPT ![i] = r]]
  BY DEF CloseItem, Typed, Stream
<1>2. str'[e][i] = r /\ Only(e, i)
  BY <1>1, StrEffect
<1>3. s \in Stream
  BY StreamTypes
<1>4. /\ SameLife(s, r) /\ SameReader(s, r) /\ r.wrote = s.wrote
      /\ r.userClosed = TRUE /\ r.down = Append(s.down, Marker)
  BY <1>3 DEF Stream, SameLife, SameReader, r
<1> QED
  BY <1>2, <1>4

(* One read takes n writes from the front of the down pipe.                   *)
LEMMA CutPipe ==
  ASSUME NEW p \in Seq(Bytes), NEW n \in 1..Len(p)
  PROVE  LET c == SubSeq(p, 1, n)
             d == SubSeq(p, n + 1, Len(p))
         IN /\ c \in Seq(Bytes) /\ Len(c) = n /\ \A k \in 1..n : c[k] = p[k]
            /\ d \in Seq(Bytes) /\ Len(d) = Len(p) - n /\ \A k \in 1..Len(p) - n : d[k] = p[k + n]
<1> DEFINE c == SubSeq(p, 1, n)
           d == SubSeq(p, n + 1, Len(p))
<1>1. PICK l \in Nat : l = Len(p)
  BY LenProperties
<1>2. \A k \in 1..l : p[k] \in Bytes
  BY <1>1, ElementOfSeq
<1>3. n \in 1..l
  BY <1>1
<1>4. c \in Seq(Bytes) /\ Len(c) = n /\ \A k \in 1..n : c[k] = p[k]
  <2>1. \A k \in 1..n : p[k] \in Bytes
    BY <1>2, <1>3
  <2>2. c \in Seq(Bytes) /\ Len(c) = (IF 1 <= n THEN n - 1 + 1 ELSE 0)
        /\ \A k \in 1..n - 1 + 1 : c[k] = p[1 + k - 1]
    BY <1>3, <2>1, SubSeqProperties
  <2>3. Len(c) = n /\ \A k \in 1..n : c[k] = p[1 + k - 1] /\ 1 + k - 1 = k
    BY <1>3, <2>2
  <2> QED
    BY <2>2, <2>3
<1>5. d \in Seq(Bytes) /\ Len(d) = l - n /\ \A k \in 1..l - n : d[k] = p[k + n]
  <2>1. \A k \in n + 1..l : p[k] \in Bytes
    BY <1>2, <1>3
  <2>2. d = SubSeq(p, n + 1, l)
    BY <1>1
  <2>3. d \in Seq(Bytes) /\ Len(d) = (IF n + 1 <= l THEN l - (n + 1) + 1 ELSE 0)
        /\ \A k \in 1..l - (n + 1) + 1 : d[k] = p[n + 1 + k - 1]
    BY <1>3, <2>1, <2>2, SubSeqProperties
  <2>4. Len(d) = l - n
    BY <1>3, <2>3
  <2>5. \A k \in 1..l - n : d[k] = p[n + 1 + k - 1] /\ n + 1 + k - 1 = k + n
    BY <1>3, <2>3
  <2> QED
    BY <2>3, <2>4, <2>5
<1> QED
  BY <1>1, <1>4, <1>5

LEMMA ServeEffect ==
  ASSUME Typed, NEW e \in Ends, NEW i \in IDs, ServeDown(e, i)
  PROVE  LET s == str[e][i]
             r == str'[e][i]
         IN /\ Only(e, i) /\ SameLife(s, r) /\ SameReader(s, r) /\ r.wrote = s.wrote
            /\ r.userClosed = s.userClosed /\ active[e] /\ s.down # <<>>
            /\ \A x \in Ends : x # e => dn'[x] = dn[x]
            /\ dn[e].pc = "idle" /\ dn'[e].id = i
            /\ \E n \in 1..Len(s.down) :
                 /\ n <= ReadMax
                 /\ Len(r.down) = Len(s.down) - n
                 /\ \A k \in 1..Len(s.down) - n : r.down[k] = s.down[k + n]
                 /\ Len(dn'[e].chunk) = n /\ \A k \in 1..n : dn'[e].chunk[k] = s.down[k]
                 /\ dn'[e].pc = IF s.userClosed /\ n = 1 /\ s.down[1] = Marker THEN "sendClose" ELSE "send"
<1> DEFINE s == str[e][i]
           n == Smaller(Len(s.down), ReadMax)
           c == SubSeq(s.down, 1, n)
           d == SubSeq(s.down, n + 1, Len(s.down))
           r == [s EXCEPT !.down = d]
           w == [Idle EXCEPT !.pc = IF ClosesNow(e, i, c) THEN "sendClose" ELSE "send", !.id = i, !.chunk = c]
<1>1. /\ str' = [str EXCEPT ![e] = [str[e] EXCEPT ![i] = r]]
      /\ dn' = [dn EXCEPT ![e] = w] /\ active[e] /\ s.down # <<>> /\ dn[e].pc = "idle"
  BY DEF ServeDown
<1>2. str'[e][i] = r /\ Only(e, i)
  BY <1>1, StrEffect
<1>3. s \in Stream /\ s.down \in Seq(Bytes) /\ Len(s.down) \in Nat /\ Len(s.down) > 0
  BY <1>1, StreamTypes, EmptySeq
<1>4. n \in 1..Len(s.down) /\ n <= ReadMax
  BY <1>3, IDFacts DEF Smaller
<1> HIDE DEF n
<1>5. /\ Len(c) = n /\ \A k \in 1..n : c[k] = s.down[k]
      /\ Len(d) = Len(s.down) - n /\ \A k \in 1..Len(s.down) - n : d[k] = s.down[k + n]
  BY <1>3, <1>4, CutPipe
<1> HIDE DEF c, d
<1>6. c = <<Marker>> <=> n = 1 /\ s.down[1] = Marker
  <2>1. c \in Seq(Bytes)
    BY <1>3, <1>4 DEF c
  <2>2. c = <<Marker>> => n = 1 /\ s.down[1] = Marker
    BY <1>4, <1>5
  <2>3. Len(c) = 1 /\ c[1] = Marker => c = <<Marker>>
    BY <2>1
  <2> QED
    BY <1>4, <1>5, <2>2, <2>3
<1>7. dn'[e] = w /\ \A x \in Ends : x # e => dn'[x] = dn[x]
  BY <1>1 DEF Typed
<1>8. w.id = i /\ w.chunk = c
      /\ w.pc = IF s.userClosed /\ n = 1 /\ s.down[1] = Marker THEN "sendClose" ELSE "send"
  BY <1>6 DEF Idle, ClosesNow
<1>9. /\ SameLife(s, r) /\ SameReader(s, r) /\ r.wrote = s.wrote /\ r.userClosed = s.userClosed
      /\ r.down = d
  BY <1>3 DEF Stream, SameLife, SameReader
<1> HIDE DEF r, w
<1>10. \E m \in 1..Len(s.down) :
        /\ m <= ReadMax
        /\ Len(str'[e][i].down) = Len(s.down) - m
        /\ \A k \in 1..Len(s.down) - m : str'[e][i].down[k] = s.down[k + m]
        /\ Len(dn'[e].chunk) = m /\ \A k \in 1..m : dn'[e].chunk[k] = s.down[k]
        /\ dn'[e].pc = IF s.userClosed /\ m = 1 /\ s.down[1] = Marker THEN "sendClose" ELSE "send"
  <2>1. n \in 1..Len(s.down)
    BY <1>4
  <2> QED
    BY <1>2, <1>4, <1>5, <1>7, <1>8, <1>9, <2>1
<1> QED
  BY <1>1, <1>2, <1>7, <1>8, <1>9, <1>10

LEMMA RetireEffect ==
  ASSUME Typed, NEW e \in Ends, NEW i \in IDs, Retire(e, i)
  PROVE  LET s == str[e][i]
             r == str'[e][i]
         IN /\ Only(e, i) /\ SamePipe(s, r) /\ SameReader(s, r) /\ r.local = s.local /\ r.user = s.user
            /\ r.info = IF i \in table[e] THEN "freed" ELSE s.info
            /\ table'[e] = table[e] \ {i} /\ \A x \in Ends : x # e => table'[x] = table[x]
<1> DEFINE s == str[e][i]
           r == [s EXCEPT !.src = IF active[e] /\ s.src = "live" THEN "doomed" ELSE s.src,
                          !.info = IF i \in table[e] THEN "freed" ELSE s.info]
<1>1. s \in Stream
  BY StreamTypes
<1>2. str' = [str EXCEPT ![e] = [str[e] EXCEPT ![i] = r]]
  BY <1>1 DEF Retire, Typed, Stream
<1> HIDE DEF r
<1>3. str'[e][i] = r /\ Only(e, i)
  BY <1>2, StrEffect
<1>4. /\ SamePipe(s, r) /\ SameReader(s, r) /\ r.local = s.local /\ r.user = s.user
      /\ r.info = IF i \in table[e] THEN "freed" ELSE s.info
  BY <1>1 DEF Stream, SamePipe, SameReader, r
<1>5. table'[e] = table[e] \ {i} /\ \A x \in Ends : x # e => table'[x] = table[x]
  BY DEF Retire, Typed
<1> QED
  BY <1>3, <1>4, <1>5

LEMMA DestroyEffect ==
  ASSUME Typed, NEW e \in Ends, NEW i \in IDs, DestroySource(e, i)
  PROVE  LET s == str[e][i]
             r == str'[e][i]
         IN Only(e, i) /\ SameLife(s, r) /\ SamePipe(s, r) /\ SameReader(s, r) /\ s.src = "doomed"
<1> DEFINE s == str[e][i]
           r == [s EXCEPT !.src = "gone"]
<1>1. str' = [str EXCEPT ![e] = [str[e] EXCEPT ![i] = r]] /\ s.src = "doomed"
  BY DEF DestroySource
<1> HIDE DEF r
<1>2. str'[e][i] = r /\ Only(e, i) /\ s \in Stream
  <2>1. str'[e][i] = r /\ Only(e, i)
    BY <1>1, StrEffect
  <2>2. s \in Stream
    BY <1>1, StreamTypes
  <2> QED
    BY <2>1, <2>2
<1>3. SameLife(s, r) /\ SamePipe(s, r) /\ SameReader(s, r)
  BY <1>2 DEF Stream, SameLife, SamePipe, SameReader, r
<1> QED
  BY <1>1, <1>2, <1>3

LEMMA UseCloseEffect ==
  ASSUME Typed, NEW e \in Ends, NEW i \in IDs, i = ut[e].id, UseClose(e)
  PROVE  LET s == str[e][i]
             r == str'[e][i]
         IN /\ Only(e, i) /\ SameLife(s, r) /\ SamePipe(s, r) /\ r.up = s.up /\ r.eof = TRUE
<1> DEFINE s == str[e][i]
           r == [s EXCEPT !.eof = TRUE]
<1>1. str' = [str EXCEPT ![e] = [str[e] EXCEPT ![i] = r]]
  BY DEF UseClose
<1> HIDE DEF r
<1>2. str'[e][i] = r /\ Only(e, i) /\ s \in Stream
  <2>1. str'[e][i] = r /\ Only(e, i)
    BY <1>1 DEF Typed, Only
  <2>2. s \in Stream
    BY StreamTypes
  <2> QED
    BY <2>1, <2>2
<1>3. SameLife(s, r) /\ SamePipe(s, r) /\ r.up = s.up /\ r.eof = TRUE
  BY <1>2 DEF Stream, SameLife, SamePipe, r
<1> QED
  BY <1>2, <1>3

LEMMA UseDataEffect ==
  ASSUME Typed, NEW e \in Ends, NEW i \in IDs, i = ut[e].id, UseData(e)
  PROVE  LET s == str[e][i]
             r == str'[e][i]
         IN /\ Only(e, i) /\ SameLife(s, r) /\ SamePipe(s, r) /\ r.eof = s.eof
            /\ r.up = s.up \o ut[e].chunk
<1> DEFINE s == str[e][i]
           r == [s EXCEPT !.up = s.up \o ut[e].chunk]
<1>1. str' = [str EXCEPT ![e] = [str[e] EXCEPT ![i] = r]]
  BY DEF UseData
<1> HIDE DEF r
<1>2. str'[e][i] = r /\ Only(e, i) /\ s \in Stream
  <2>1. str'[e][i] = r /\ Only(e, i)
    BY <1>1 DEF Typed, Only
  <2>2. s \in Stream
    BY StreamTypes
  <2> QED
    BY <2>1, <2>2
<1>3. SameLife(s, r) /\ SamePipe(s, r) /\ r.eof = s.eof /\ r.up = s.up \o ut[e].chunk
  BY <1>2, Zenon DEF Stream, SameLife, SamePipe, r
<1> QED
  BY <1>2, <1>3, Zenon

LEMMA NotifyEffect ==
  ASSUME Typed, NEW e \in Ends, NEW i \in IDs, i = Head(ev[e]).id, NotifyNewStream(e)
  PROVE  LET s == str[e][i]
             r == str'[e][i]
         IN /\ Only(e, i) /\ SamePipe(s, r) /\ SameReader(s, r)
            /\ r.info = s.info /\ r.local = s.local /\ r.user = "open"
<1> DEFINE s == str[e][i]
           r == [s EXCEPT !.user = "open"]
<1>1. str' = [str EXCEPT ![e] = [str[e] EXCEPT ![i] = r]]
  BY DEF NotifyNewStream
<1> HIDE DEF r
<1>2. str'[e][i] = r /\ Only(e, i) /\ s \in Stream
  <2>1. str'[e][i] = r /\ Only(e, i)
    BY <1>1 DEF Typed, Only
  <2>2. s \in Stream
    BY StreamTypes
  <2> QED
    BY <2>1, <2>2
<1>3. SamePipe(s, r) /\ SameReader(s, r) /\ r.info = s.info /\ r.local = s.local /\ r.user = "open"
  BY <1>2 DEF Stream, SamePipe, SameReader, r
<1> QED
  BY <1>1, <1>2, <1>3

LEMMA HangUpEffect ==
  ASSUME Typed, NEW e \in Ends, HangUp(e)
  PROVE  /\ \A x \in Ends : x # e => str'[x] = str[x] /\ table'[x] = table[x]
         /\ table'[e] = {}
         /\ \A j \in IDs :
              /\ SameLife(str[e][j], str'[e][j]) /\ SamePipe(str[e][j], str'[e][j])
              /\ str'[e][j].up = str[e][j].up
              /\ str'[e][j].eof <=> str[e][j].eof \/ j \in table[e]
              /\ j \notin table[e] => str'[e][j] = str[e][j]
<1>1. str'[e] = [i \in IDs |-> [str[e][i] EXCEPT !.eof = str[e][i].eof \/ i \in table[e]]]
  BY Zenon DEF HangUp, Typed
<1>2. table'[e] = {} /\ \A x \in Ends : x # e => str'[x] = str[x] /\ table'[x] = table[x]
  BY DEF HangUp, Typed
<1>3. ASSUME NEW j \in IDs
      PROVE  /\ SameLife(str[e][j], str'[e][j]) /\ SamePipe(str[e][j], str'[e][j])
             /\ str'[e][j].up = str[e][j].up
             /\ str'[e][j].eof <=> str[e][j].eof \/ j \in table[e]
             /\ j \notin table[e] => str'[e][j] = str[e][j]
  <2> DEFINE s == str[e][j]
  <2>1. str'[e][j] = [s EXCEPT !.eof = s.eof \/ j \in table[e]]
    BY <1>1, Zenon
  <2>2. s \in Stream
    BY StreamTypes
  <2>3. PICK b \in BOOLEAN : b <=> s.eof \/ j \in table[e]
    OBVIOUS
  <2>4. str'[e][j] = [s EXCEPT !.eof = b]
    BY <2>1, <2>3, Zenon
  <2>5. /\ SameLife(s, str'[e][j]) /\ SamePipe(s, str'[e][j])
        /\ str'[e][j].up = s.up /\ str'[e][j].eof = b
    BY <2>2, <2>4 DEF Stream, SameLife, SamePipe
  <2>6. ASSUME j \notin table[e] PROVE str'[e][j] = s
    <3>1. s.eof \in BOOLEAN
      BY StreamTypes
    <3>2. b = s.eof
      BY <2>3, <2>6, <3>1
    <3> QED
      BY <2>2, <2>4, <3>2 DEF Stream
  <2> QED
    BY <2>3, <2>5, <2>6
<1> QED
  BY <1>2, <1>3

LEMMA CreateEffect ==
  ASSUME Disciplined, StreamInv, NEW e \in Ends, NEW i, i = NextID(e), CreateStream(e)
  PROVE  /\ i \in IDs /\ Owns(e, i) /\ e \in Creators /\ str[e][i] = NoStream /\ i \notin table[e]
         /\ Only(e, i) /\ str'[e][i] = NewStream(TRUE)
         /\ table'[e] = table[e] \cup {i} /\ \A x \in Ends : x # e => table'[x] = table[x]
         /\ creates[e] \in Nat /\ creates'[e] = creates[e] + 1
         /\ \A x \in Ends : x # e => creates'[x] = creates[x] /\ lastID'[x] = lastID[x]
         /\ i < 2 * (creates[e] + 1)
         /\ lastID'[e] = 2 * (creates[e] + 1) - (IF MyStreamsEven(e) THEN 2 ELSE 1)
         /\ UNCHANGED <<active, intr, usr>>
<1>1. e \in Creators /\ creates[e] < MaxCreates /\ Typed
  BY DEF CreateStream, StreamInv, ToldInv
<1>2. /\ i \in IDs /\ Owns(e, i) /\ str[e][i] = NoStream /\ i \notin table[e]
      /\ i < 2 * (creates[e] + 1) /\ creates[e] \in Nat
      /\ i = 2 * (creates[e] + 1) - (IF MyStreamsEven(e) THEN 2 ELSE 1)
  BY <1>1, NextIsFresh
<1>3. /\ lastID' = [lastID EXCEPT ![e] = i] /\ creates' = [creates EXCEPT ![e] = @ + 1]
      /\ table' = [table EXCEPT ![e] = @ \cup {i}]
      /\ str' = [str EXCEPT ![e] = [str[e] EXCEPT ![i] = NewStream(TRUE)]]
      /\ UNCHANGED <<active, intr, usr>>
  BY <1>2, Zenon DEF CreateStream, NoInterrupt
<1>4. Only(e, i) /\ str'[e][i] = NewStream(TRUE)
  <2>1. PICK r : r = NewStream(TRUE)
    OBVIOUS
  <2>2. str' = [str EXCEPT ![e] = [str[e] EXCEPT ![i] = r]]
    BY <1>3, <2>1
  <2> QED
    BY <1>1, <1>2, <2>1, <2>2 DEF Typed, Only
<1>5. lastID'[e] = i /\ \A x \in Ends : x # e => lastID'[x] = lastID[x]
  BY <1>1, <1>3 DEF Typed
<1>6. creates'[e] = creates[e] + 1 /\ \A x \in Ends : x # e => creates'[x] = creates[x]
  BY <1>1, <1>3 DEF Typed
<1>7. table'[e] = table[e] \cup {i} /\ \A x \in Ends : x # e => table'[x] = table[x]
  BY <1>1, <1>3 DEF Typed
<1> QED
  BY <1>1, <1>2, <1>3, <1>4, <1>5, <1>6, <1>7

(* The up thread uses the stream it knows, gives up, or makes a new one.      *)
Quieter == \A x \in Ends : active'[x] => active[x]
LEMMA ChooseEffect ==
  ASSUME Disciplined, StreamInv, NEW e \in Ends, NEW i, i = ut[e].id, ChooseStream(e)
  PROVE  /\ i \in IDs /\ Quieter /\ active[e] /\ \A x \in Ends : x # e => ut'[x] = ut[x]
         /\ Reading(e) /\ ut[e].pc = "choose"
         /\ \/ ~active'[e] /\ str' = str /\ table' = table /\ ut'[e] = Idle
               /\ i \notin table[e] /\ Refuses(e, i)
            \/ /\ active' = active /\ intr' = intr /\ ut'[e].pc = "use" /\ ut'[e].id = i
               /\ ut'[e].chunk = ut[e].chunk
               /\ \/ i \in table[e] /\ ~ut'[e].new /\ str' = str /\ table' = table
                  \/ /\ i \notin table[e] /\ ut'[e].new /\ ~Owns(e, i)
                     /\ Only(e, i) /\ str[e][i] = NoStream /\ str'[e][i] = NewStream(FALSE)
                     /\ str[Peer(e)][i].info # "none"
                     /\ table'[e] = table[e] \cup {i} /\ \A x \in Ends : x # e => table'[x] = table[x]
<1>1. Typed /\ active[e] /\ Reading(e) /\ i \in IDs /\ ut[e] \in UpWork /\ ut[e].pc = "choose"
  BY MessagesInHand DEF StreamInv, ToldInv, ChooseStream, Reading, Typed
<1>2. CASE i \notin table[e] /\ Refuses(e, i)
  <2>1. ut' = [ut EXCEPT ![e] = Idle] /\ Interrupt(e, "up") /\ UNCHANGED <<table, str>>
    BY <1>2 DEF ChooseStream
  <2>2. ut'[e] = Idle /\ ~active'[e] /\ \A x \in Ends : x # e => ut'[x] = ut[x]
    BY <1>1, <2>1 DEF Typed, Interrupt
  <2>3. Quieter
    BY <1>1, <2>1, InterruptQuiets DEF Quieter
  <2> QED
    BY <1>1, <1>2, <2>1, <2>2, <2>3
<1>3. CASE ~(i \notin table[e] /\ Refuses(e, i))
  <2> DEFINE n == i \notin table[e]
             w == [ut[e] EXCEPT !.pc = "use", !.new = n]
  <2>1. ut' = [ut EXCEPT ![e] = w] /\ NoInterrupt /\ table' = [table EXCEPT ![e] = @ \cup {i}]
        /\ str' = IF i \in table[e] THEN str ELSE [str EXCEPT ![e] = [str[e] EXCEPT ![i] = NewStream(FALSE)]]
    BY <1>1, <1>3 DEF ChooseStream, Typed, UpWork
  <2> HIDE DEF w
  <2>2. ut'[e] = w /\ \A x \in Ends : x # e => ut'[x] = ut[x]
    BY <1>1, <2>1 DEF Typed
  <2>3. w.pc = "use" /\ w.id = i /\ w.chunk = ut[e].chunk
    BY <1>1 DEF w, UpWork
  <2>31. i \in table[e] => ~w.new
    <3>1. SUFFICES ASSUME i \in table[e] PROVE w.new = FALSE
      OBVIOUS
    <3>2. n = FALSE
      BY <3>1
    <3>3. w = [ut[e] EXCEPT !.pc = "use", !.new = FALSE]
      BY <3>2, Zenon DEF w
    <3> QED
      BY <1>1, <3>3 DEF UpWork
  <2>32. i \notin table[e] => w.new
    <3>1. SUFFICES ASSUME i \notin table[e] PROVE w.new = TRUE
      OBVIOUS
    <3>2. n = TRUE
      BY <3>1
    <3>3. w = [ut[e] EXCEPT !.pc = "use", !.new = TRUE]
      BY <3>2, Zenon DEF w
    <3> QED
      BY <1>1, <3>3 DEF UpWork
  <2>4. active' = active /\ intr' = intr /\ Quieter
    BY <2>1 DEF NoInterrupt, Quieter
  <2>5. CASE i \in table[e]
    <3>1. table' = table
      BY <1>1, <2>1, <2>5 DEF Typed
    <3> QED
      BY <1>1, <2>1, <2>2, <2>3, <2>31, <2>4, <2>5, <3>1
  <2>6. CASE i \notin table[e]
    <3>1. ~Owns(e, i) /\ str[e][i] = NoStream /\ str[Peer(e)][i].info # "none"
      BY <1>1, <1>3, <2>6, UnlistedIsNew
    <3>2. Only(e, i) /\ str'[e][i] = NewStream(FALSE)
      <4>1. PICK r : r = NewStream(FALSE)
        OBVIOUS
      <4>2. str' = [str EXCEPT ![e] = [str[e] EXCEPT ![i] = r]]
        BY <2>1, <2>6, <4>1
      <4> QED
        BY <1>1, <4>1, <4>2 DEF Typed, Only
    <3>3. table'[e] = table[e] \cup {i} /\ \A x \in Ends : x # e => table'[x] = table[x]
      BY <1>1, <2>1 DEF Typed
    <3> QED
      BY <1>1, <2>2, <2>3, <2>32, <2>4, <2>6, <3>1, <3>2, <3>3
  <2> QED
    BY <2>5, <2>6
<1> QED
  BY <1>2, <1>3

(* The other steps leave the records alone.                                   *)
Still == /\ str' = str /\ table' = table /\ closeReq' = closeReq /\ creates' = creates
         /\ lastID' = lastID

StillUser(e) == Stop(e) \/ StopJoin(e)
StillDown(e) == SendChunk(e) \/ SendClose(e)
StillUp(e) == ReadHeader(e) \/ ReadFails(e) \/ UseFails(e) \/ UseInactive(e) \/ PostUp(e)
StillEvent(e) == FindCallback(e) \/ NoCallback(e) \/ NotifyClosing(e) \/ NotifyInterrupted(e) \/ Join(e)
StillIntr(e) == CloseProvider(e) \/ PostInterrupted(e) \/ PostJoin(e)
StillStep(e) == StillUser(e) \/ StillDown(e) \/ StillUp(e) \/ StillEvent(e) \/ StillIntr(e)

LEMMA StillEffect ==
  ASSUME Typed, NEW e \in Ends, StillStep(e)
  PROVE  Still /\ Quieter
<1>1. CASE StillUser(e)
  BY <1>1, InterruptQuiets DEF StillUser, Stop, StopJoin, Still, Quieter
<1>2. CASE StillDown(e)
  BY <1>2, InterruptQuiets DEF StillDown, SendChunk, SendClose, Still, Quieter, InterruptIfInactive
<1>3. CASE StillUp(e)
  BY <1>3, InterruptQuiets DEF StillUp, ReadHeader, ReadFails, UseFails, UseInactive, PostUp, Still, Quieter
<1>4. CASE StillEvent(e)
  BY <1>4 DEF StillEvent, FindCallback, NoCallback, NotifyClosing, NotifyInterrupted, Join, Still, Quieter
<1>5. CASE StillIntr(e)
  BY <1>5 DEF StillIntr, CloseProvider, PostInterrupted, PostJoin, Still, Quieter
<1> QED
  BY <1>1, <1>2, <1>3, <1>4, <1>5 DEF StillStep

(* The steps one by one.                                                      *)
RecordOp(e, i) ==
  WriteDown(e, i) \/ CloseStream(e, i) \/ CloseItem(e, i) \/ ServeDown(e, i) \/ DestroySource(e, i)
StreamStep(e) ==
  \/ CreateStream(e) \/ ChooseStream(e) \/ UseClose(e) \/ UseData(e) \/ NotifyNewStream(e)
  \/ RetireDown(e) \/ RetireRemote(e) \/ HangUp(e)

LEMMA StepCases ==
  ASSUME [Next]_vars
  PROVE  \/ UNCHANGED vars \/ LinkFails
         \/ \E e \in Ends : StillStep(e) \/ StreamStep(e) \/ \E i \in IDs : RecordOp(e, i)
BY DEF Next, User, DownThread, UpThread, EventThread, Interrupter, GlobalQueue,
       StillStep, StillUser, StillDown, StillUp, StillEvent, StillIntr, StreamStep, RecordOp

-----------------------------------------------------------------------------
(* Each step keeps the records.                                               *)
LEMMA SameValues ==
  ASSUME NEW s \in Stream, NEW r \in Stream
  PROVE  /\ SamePipe(s, r) => FinalOf(s) = FinalOf(r) /\ SentOf(s) = SentOf(r)
         /\ SameReader(s, r) => GotOf(s) = GotOf(r)
BY DEF SamePipe, SameReader, FinalOf, SentOf, GotOf

LEMMA RecordFrame ==
  ASSUME NEW x \in Ends, NEW j \in IDs, str'[x][j] = str[x][j],
         j \in table'[x] <=> j \in table[x], j \in closeReq'[x] <=> j \in closeReq[x],
         Quieter, creates[x] \in Nat, creates'[x] \in Nat, creates[x] <= creates'[x],
         RecordAt(x, j), PipeAt(x, j)
  PROVE  RecordAt(x, j)' /\ PipeAt(x, j)'
<1>1. PICK s : s = str[x][j] /\ s = str'[x][j]
  OBVIOUS
<1>2. j \in Nat /\ (j < 2 * creates[x] => j < 2 * creates'[x])
  BY IDFacts
<1>3. RecordAt(x, j)'
  BY <1>1, <1>2 DEF RecordAt, Handed, Quieter
<1>4. PipeAt(x, j)'
  BY <1>1 DEF PipeAt, Handed, Final, Sent
<1> QED
  BY <1>3, <1>4

(* A record with the same pipe keeps it in order.                             *)
LEMMA PipeFrame ==
  ASSUME NEW x \in Ends, NEW j \in IDs, str[x][j] \in Stream, str'[x][j] \in Stream,
         SamePipe(str[x][j], str'[x][j]), Handed(x, j)' => Handed(x, j), PipeAt(x, j)
  PROVE  PipeAt(x, j)'
<1>1. Final(x, j)' = Final(x, j) /\ Sent(x, j)' = Sent(x, j)
  BY SameValues DEF Final, Sent
<1> QED
  BY <1>1 DEF PipeAt, SamePipe

LEMMA WriteKeeps ==
  ASSUME StreamInv, NEW e \in Ends, NEW i \in IDs, WriteDown(e, i)
  PROVE  RecordAt(e, i)' /\ PipeAt(e, i)'
<1> DEFINE s == str[e][i]
           r == str'[e][i]
<1>1. /\ Typed /\ RecordAt(e, i) /\ PipeAt(e, i) /\ SameLife(s, r) /\ SameReader(s, r)
      /\ r.userClosed = s.userClosed /\ r.wrote = s.wrote + 1
      /\ r.down = Append(s.down, s.wrote + 1)
      /\ s.user = "open" /\ s.wrote < MaxWrites /\ (~s.local => s.wrote < MaxReplies)
  BY WriteEffect DEF StreamInv, ToldInv, FlowInv
<1>2. s \in Stream /\ s.down \in Seq(Bytes)
  BY <1>1, StreamTypes
<1>3. /\ table' = table /\ closeReq' = closeReq /\ active' = active /\ creates' = creates
  BY DEF WriteDown
<1>4. s.info # "none" /\ s.local = Owns(e, i) /\ ~Handed(e, i) /\ r.info # "none"
  BY <1>1, NoStreamFields DEF RecordAt, SameLife
<1>5. ~s.userClosed /\ ~r.userClosed /\ ~Handed(e, i)'
  BY <1>1, <1>3, <1>4 DEF Handed
<1>6. /\ s.wrote \in Nat /\ FinalOf(s) = s.wrote /\ SentOf(s) = s.wrote - Len(s.down)
      /\ Len(s.down) \in Nat /\ Len(s.down) <= s.wrote
  BY <1>1, <1>2, <1>5, RecordValues DEF PipeAt, Final
<1>7. /\ Len(r.down) = Len(s.down) + 1 /\ r.down[Len(s.down) + 1] = s.wrote + 1
      /\ \A k \in 1..Len(s.down) : r.down[k] = s.down[k]
  BY <1>1, <1>2, AppendProperties
<1>8. FinalOf(r) = s.wrote + 1 /\ SentOf(r) = s.wrote - Len(s.down)
  <2>1. FinalOf(r) = s.wrote + 1
    BY <1>1, <1>5, <1>6 DEF FinalOf
  <2>2. SentOf(r) = FinalOf(r) - Len(r.down)
    BY DEF SentOf
  <2>3. PICK n \in Nat : n = Len(s.down)
    BY <1>6
  <2>4. PICK w \in Nat : w = s.wrote
    BY <1>6
  <2>5. SentOf(r) = (w + 1) - (n + 1)
    BY <1>7, <2>1, <2>2, <2>3, <2>4
  <2>6. (w + 1) - (n + 1) = w - n
    OBVIOUS
  <2> QED
    BY <2>1, <2>3, <2>4, <2>5, <2>6
<1>9. PipeAt(e, i)'
  <2>1. ASSUME NEW k \in 1..Len(r.down)
        PROVE  r.down[k] = IF SentOf(r) + k <= r.wrote THEN SentOf(r) + k ELSE Marker
    <3> DEFINE n == Len(s.down)
               w == s.wrote
    <3>1. n \in Nat /\ w \in Nat /\ n <= w /\ k \in 1..n + 1 /\ SentOf(r) = w - n /\ r.wrote = w + 1
      BY <1>1, <1>6, <1>7, <1>8
    <3>2. CASE k = n + 1
      BY <1>7, <3>1, <3>2
    <3>3. CASE k # n + 1
      <4>1. k \in 1..n
        BY <3>1, <3>3
      <4>2. s.down[k] = IF (w - n) + k <= w THEN (w - n) + k ELSE Marker
        BY <1>1, <1>6, <4>1 DEF PipeAt, Sent
      <4>3. (w - n) + k <= w
        BY <3>1, <4>1
      <4>4. r.down[k] = (w - n) + k
        BY <1>7, <4>1, <4>2, <4>3
      <4> QED
        BY <3>1, <4>1, <4>3, <4>4
    <3> QED
      BY <3>2, <3>3
  <2>2. Len(r.down) <= FinalOf(r)
    BY <1>6, <1>7, <1>8
  <2> QED
    BY <1>5, <2>1, <2>2 DEF PipeAt, Final, Sent
<1>10. ~Owns(e, i) => r.wrote <= MaxReplies
  BY <1>1, <1>4, <1>6, ByteFacts
<1>11. ~(Owns(e, i) /\ s.info = "freed")
  BY <1>1, <1>5 DEF RecordAt
<1>12. RecordAt(e, i)'
  BY <1>1, <1>3, <1>4, <1>5, <1>10, <1>11 DEF RecordAt, SameLife, SameReader
<1> QED
  BY <1>9, <1>12

LEMMA CloseKeeps ==
  ASSUME StreamInv, NEW e \in Ends, NEW i \in IDs, CloseStream(e, i)
  PROVE  RecordAt(e, i)' /\ PipeAt(e, i)'
<1> DEFINE s == str[e][i]
           r == str'[e][i]
<1>1. /\ Typed /\ RecordAt(e, i) /\ PipeAt(e, i) /\ SamePipe(s, r) /\ SameReader(s, r)
      /\ r.info = s.info /\ r.local = s.local /\ s.user = "open" /\ r.user = "closed"
  BY CloseEffect DEF StreamInv, ToldInv, FlowInv
<1>2. /\ table' = table /\ active' = active /\ creates' = creates
      /\ closeReq' = IF HandsClose(e, i) THEN [closeReq EXCEPT ![e] = @ \cup {i}] ELSE closeReq
      /\ MayClose(e, i)
  BY DEF CloseStream
<1>3. s.info # "none" /\ s.local = Owns(e, i) /\ ~Handed(e, i)
  BY <1>1, NoStreamFields DEF RecordAt
<1>4. ~s.userClosed /\ ~r.userClosed
  BY <1>1, <1>3 DEF Handed, SamePipe
<1>5. i \in closeReq'[e] => HandsClose(e, i)
  BY <1>2, <1>3 DEF Handed
<1>6. Handed(e, i)' => HandsClose(e, i) /\ Owns(e, i)
  BY <1>3, <1>4, <1>5 DEF Handed, HandsClose
<1>7. RecordAt(e, i)'
  BY <1>1, <1>2, <1>3, <1>4, <1>6 DEF RecordAt, SamePipe, SameReader
<1>8. r \in Stream /\ s \in Stream
  <2>1. s \in Stream
    BY <1>1, StreamTypes
  <2>2. str' = [str EXCEPT ![e] = [str[e] EXCEPT ![i] = [s EXCEPT !.user = "closed"]]]
    BY DEF CloseStream
  <2>3. r = [s EXCEPT !.user = "closed"]
    BY <1>1, <2>2 DEF Typed
  <2> QED
    BY <2>1, <2>3 DEF Stream
<1>9. Final(e, i)' = Final(e, i) /\ Sent(e, i)' = Sent(e, i)
  BY <1>1, <1>8, SameValues DEF Final, Sent
<1>10. ASSUME CloseRule # "free", HandsClose(e, i) PROVE Sent(e, i) >= s.wrote
  <2>1. Flushed(e, i)
    BY <1>2, <1>10, PlexerAssumption DEF PlexerAssumption, HandsClose, MayClose, Settled, Answered
  <2>2. Len(s.down) = 0
    BY <2>1 DEF Flushed
  <2> QED
    BY <1>8, <2>2, RecordValues DEF Sent
<1>11. PipeAt(e, i)'
  BY <1>1, <1>6, <1>9, <1>10 DEF PipeAt, SamePipe
<1> QED
  BY <1>7, <1>11

LEMMA CloseItemKeeps ==
  ASSUME StreamInv, NEW e \in Ends, NEW i \in IDs, CloseItem(e, i)
  PROVE  RecordAt(e, i)' /\ PipeAt(e, i)' /\ Sent(e, i)' = Sent(e, i) /\ Owns(e, i) /\ ~str[e][i].userClosed
<1> DEFINE s == str[e][i]
           r == str'[e][i]
<1>1. /\ Typed /\ RecordAt(e, i) /\ PipeAt(e, i) /\ SameLife(s, r) /\ SameReader(s, r)
      /\ r.wrote = s.wrote /\ r.userClosed = TRUE /\ r.down = Append(s.down, Marker)
  BY CloseItemEffect DEF StreamInv, ToldInv, FlowInv
<1>2. /\ table' = table /\ active' = active /\ creates' = creates /\ i \in closeReq[e]
      /\ closeReq' = [closeReq EXCEPT ![e] = @ \ {i}]
  BY DEF CloseItem
<1>3. s.info # "none" /\ Handed(e, i) /\ Owns(e, i) /\ ~s.userClosed /\ s.user = "closed"
  BY <1>1, <1>2 DEF RecordAt, Handed
<1>4. i \notin closeReq'[e]
  BY <1>1, <1>2 DEF Typed
<1>5. RecordAt(e, i)'
  BY <1>1, <1>2, <1>3, <1>4 DEF RecordAt, SameLife, SameReader, Handed
<1>6. s \in Stream /\ s.down \in Seq(Bytes)
  BY <1>1, StreamTypes
<1>7. /\ s.wrote \in Nat /\ FinalOf(s) = s.wrote /\ SentOf(s) = s.wrote - Len(s.down)
      /\ Len(s.down) \in Nat /\ Len(s.down) <= s.wrote
  BY <1>1, <1>3, <1>6, RecordValues DEF PipeAt, Final
<1>8. PICK n \in Nat : n = Len(s.down)
  BY <1>7
<1>9. PICK w \in Nat : w = s.wrote
  BY <1>7
<1>10. /\ Len(r.down) = n + 1 /\ r.down[n + 1] = Marker
       /\ \A k \in 1..n : r.down[k] = s.down[k]
  BY <1>1, <1>6, <1>8, ByteFacts, AppendProperties
<1>11. FinalOf(r) = w + 1
  BY <1>1, <1>9 DEF FinalOf
<1>12. SentOf(r) = w - n
  <2>1. SentOf(r) = FinalOf(r) - Len(r.down)
    BY DEF SentOf
  <2>2. SentOf(r) = (w + 1) - (n + 1)
    BY <1>10, <1>11, <2>1
  <2>3. (w + 1) - (n + 1) = w - n
    OBVIOUS
  <2> QED
    BY <2>2, <2>3
<1>13. SentOf(s) = w - n
  BY <1>7, <1>8, <1>9
<1>14. n <= w
  BY <1>7, <1>8, <1>9
<1>15. ASSUME NEW k \in 1..n + 1
       PROVE  r.down[k] = IF (w - n) + k <= w THEN (w - n) + k ELSE Marker
  <2>1. CASE k = n + 1
    <3>1. ~((w - n) + k <= w)
      BY <1>14, <2>1
    <3> QED
      BY <1>10, <2>1, <3>1
  <2>2. CASE k # n + 1
    <3>1. k \in 1..n
      BY <2>2
    <3>2. s.down[k] = IF SentOf(s) + k <= s.wrote THEN SentOf(s) + k ELSE Marker
      BY <1>1, <1>8, <3>1 DEF PipeAt, Sent
    <3> QED
      BY <1>9, <1>10, <1>13, <3>1, <3>2
  <2> QED
    BY <2>1, <2>2
<1>16. Len(r.down) <= FinalOf(r)
  BY <1>10, <1>11, <1>14
<1>17. CloseRule # "free" => SentOf(r) >= r.wrote
  <2>1. CloseRule # "free" => SentOf(s) >= s.wrote
    BY <1>1, <1>3 DEF PipeAt, Sent
  <2>2. SentOf(r) = SentOf(s) /\ r.wrote = s.wrote
    BY <1>1, <1>12, <1>13
  <2> QED
    BY <2>1, <2>2
<1>18. PipeAt(e, i)'
  <2>1. \A k \in 1..Len(r.down) :
          r.down[k] = IF SentOf(r) + k <= r.wrote THEN SentOf(r) + k ELSE Marker
    <3> SUFFICES ASSUME NEW k \in 1..Len(r.down)
                 PROVE  r.down[k] = IF SentOf(r) + k <= r.wrote THEN SentOf(r) + k ELSE Marker
      OBVIOUS
    <3>1. k \in 1..n + 1
      BY <1>10
    <3>2. r.wrote = w
      BY <1>1, <1>9
    <3> QED
      BY <1>12, <1>15, <3>1, <3>2
  <2> QED
    BY <1>16, <1>17, <2>1 DEF PipeAt, Final, Sent
<1> QED
  BY <1>3, <1>5, <1>12, <1>13, <1>18 DEF Sent

LEMMA NextStream ==
  ASSUME Typed', NEW e \in Ends, NEW i \in IDs
  PROVE  str'[e][i] \in Stream
BY DEF Typed

LEMMA ServeKeeps ==
  ASSUME StreamInv, Typed', NEW e \in Ends, NEW i \in IDs, ServeDown(e, i)
  PROVE  /\ RecordAt(e, i)' /\ PipeAt(e, i)'
         /\ \E n \in Nat : /\ Sent(e, i)' = Sent(e, i) + n /\ Len(dn'[e].chunk) = n /\ 0 <= Sent(e, i)
                           /\ n <= ReadMax /\ n > 0
                           /\ \A k \in 1..n : dn'[e].chunk[k] = str[e][i].down[k]
                           /\ n <= Len(str[e][i].down)
                           /\ dn'[e].pc = IF str[e][i].userClosed /\ n = 1 /\ str[e][i].down[1] = Marker
                                          THEN "sendClose" ELSE "send"
<1> DEFINE s == str[e][i]
           r == str'[e][i]
<1>1. /\ Typed /\ RecordAt(e, i) /\ PipeAt(e, i) /\ SameLife(s, r) /\ SameReader(s, r)
      /\ r.wrote = s.wrote /\ r.userClosed = s.userClosed /\ s.down # <<>>
  BY ServeEffect DEF StreamInv, ToldInv, FlowInv
<1>2. PICK n \in 1..Len(s.down) :
        /\ n <= ReadMax /\ Len(r.down) = Len(s.down) - n
        /\ \A k \in 1..Len(s.down) - n : r.down[k] = s.down[k + n]
        /\ Len(dn'[e].chunk) = n /\ \A k \in 1..n : dn'[e].chunk[k] = s.down[k]
        /\ dn'[e].pc = IF s.userClosed /\ n = 1 /\ s.down[1] = Marker THEN "sendClose" ELSE "send"
  BY <1>1, ServeEffect
<1>3. /\ table' = table /\ active' = active /\ creates' = creates /\ closeReq' = closeReq
  BY DEF ServeDown
<1>4. s.info # "none" /\ ~(Owns(e, i) /\ s.info = "freed")
  BY <1>1, NoStreamFields DEF RecordAt
<1>5. RecordAt(e, i)'
  BY <1>1, <1>3, <1>4 DEF RecordAt, SameLife, SameReader, Handed
<1>6. /\ s \in Stream /\ r \in Stream
      /\ FinalOf(s) \in Nat /\ SentOf(s) = FinalOf(s) - Len(s.down) /\ Len(s.down) \in Nat
      /\ s.wrote \in Nat
  BY <1>1, StreamTypes, NextStream, RecordValues
<1>7. PICK l \in Nat : l = Len(s.down)
  BY <1>6
<1>8. PICK f \in Nat : f = FinalOf(s)
  BY <1>6
<1>9. l <= f /\ n \in 1..l
  BY <1>1, <1>2, <1>7, <1>8 DEF PipeAt, Final
<1>10. FinalOf(r) = f
  BY <1>1, <1>8 DEF FinalOf
<1>11. SentOf(r) = f - (l - n) /\ SentOf(s) = f - l /\ Len(r.down) = l - n
  BY <1>2, <1>6, <1>7, <1>8, <1>10 DEF SentOf
<1>12. f - (l - n) = (f - l) + n /\ 0 <= f - l /\ l - n <= f
  BY <1>9
<1>13. ASSUME NEW k \in 1..l - n
       PROVE  r.down[k] = IF SentOf(r) + k <= r.wrote THEN SentOf(r) + k ELSE Marker
  <2>1. k + n \in 1..l
    BY <1>9
  <2>2. r.down[k] = s.down[k + n]
    BY <1>2, <1>7
  <2>3. s.down[k + n] = IF SentOf(s) + (k + n) <= s.wrote THEN SentOf(s) + (k + n) ELSE Marker
    BY <1>1, <1>7, <2>1 DEF PipeAt, Sent
  <2>4. SentOf(s) + (k + n) = SentOf(r) + k
    BY <1>9, <1>11
  <2> QED
    BY <1>1, <2>2, <2>3, <2>4
<1>14. CloseRule # "free" /\ Handed(e, i) => SentOf(r) >= r.wrote
  <2>1. CloseRule # "free" /\ Handed(e, i) => f - l >= s.wrote
    BY <1>1, <1>11 DEF PipeAt, Sent
  <2>2. f - l >= s.wrote => (f - l) + n >= s.wrote
    BY <1>6, <1>9
  <2> QED
    BY <1>1, <1>11, <1>12, <2>1, <2>2
<1>15. PipeAt(e, i)'
  <2>1. \A k \in 1..Len(r.down) :
          r.down[k] = IF SentOf(r) + k <= r.wrote THEN SentOf(r) + k ELSE Marker
    BY <1>11, <1>13
  <2>2. Handed(e, i)' = Handed(e, i)
    BY <1>1, <1>3 DEF Handed
  <2> QED
    BY <1>10, <1>11, <1>12, <1>14, <2>1, <2>2 DEF PipeAt, Final, Sent
<1>16. /\ SentOf(r) = SentOf(s) + n /\ 0 <= SentOf(s) /\ n \in Nat /\ n > 0 /\ n <= Len(s.down)
  BY <1>7, <1>9, <1>11, <1>12
<1> QED
  BY <1>2, <1>5, <1>15, <1>16 DEF Sent

LEMMA DestroyKeeps ==
  ASSUME StreamInv, Typed', NEW e \in Ends, NEW i \in IDs, DestroySource(e, i)
  PROVE  RecordAt(e, i)' /\ PipeAt(e, i)'
<1> DEFINE s == str[e][i]
           r == str'[e][i]
<1>1. /\ Typed /\ RecordAt(e, i) /\ PipeAt(e, i) /\ SameLife(s, r) /\ SameReader(s, r)
      /\ SamePipe(s, r) /\ s.src = "doomed"
  BY DestroyEffect DEF StreamInv, ToldInv, FlowInv
<1>2. /\ table' = table /\ active' = active /\ creates' = creates /\ closeReq' = closeReq
  BY DEF DestroySource
<1>3. s.info # "none"
  BY <1>1, NoStreamFields DEF RecordAt
<1>4. RecordAt(e, i)'
  BY <1>1, <1>2, <1>3 DEF RecordAt, SameLife, SameReader, SamePipe, Handed
<1>5. s \in Stream /\ r \in Stream /\ (Handed(e, i)' => Handed(e, i))
  BY <1>1, <1>2, StreamTypes, NextStream DEF Handed, SamePipe
<1> QED
  BY <1>1, <1>4, <1>5, PipeFrame

LEMMA RetireKeeps ==
  ASSUME StreamInv, Typed', NEW e \in Ends, NEW i \in IDs, Retire(e, i),
         UNCHANGED <<active, creates, closeReq>>,
         Owns(e, i) => str[e][i].userClosed /\ str[e][i].down = <<>>,
         ~Owns(e, i) => str[e][i].eof
  PROVE  RecordAt(e, i)' /\ PipeAt(e, i)'
<1> DEFINE s == str[e][i]
           r == str'[e][i]
<1>1. /\ Typed /\ RecordAt(e, i) /\ PipeAt(e, i) /\ SamePipe(s, r) /\ SameReader(s, r)
      /\ r.local = s.local /\ r.user = s.user
      /\ r.info = IF i \in table[e] THEN "freed" ELSE s.info
      /\ table'[e] = table[e] \ {i}
  BY RetireEffect DEF StreamInv, ToldInv, FlowInv
<1>2. s.info # "none" /\ r.info # "none" /\ (r.info = "live" => s.info = "live" /\ i \notin table[e])
  BY <1>1, NoStreamFields DEF RecordAt
<1>3. i \notin table'[e]
  BY <1>1
<1>4. Handed(e, i)' <=> Handed(e, i)
  BY <1>1 DEF Handed, SamePipe
<1>5. RecordAt(e, i)'
  BY <1>1, <1>2, <1>3, <1>4 DEF RecordAt, SameReader, SamePipe
<1>6. s \in Stream /\ r \in Stream
  BY <1>1, StreamTypes, NextStream
<1> QED
  BY <1>1, <1>4, <1>5, <1>6, PipeFrame

LEMMA JoinedPipes ==
  ASSUME NEW a \in Seq(Bytes), NEW b \in Seq(Bytes)
  PROVE  /\ a \o b \in Seq(Bytes) /\ Len(a \o b) = Len(a) + Len(b)
         /\ \A k \in 1..Len(a) : (a \o b)[k] = a[k]
         /\ \A k \in 1..Len(b) : (a \o b)[Len(a) + k] = b[k]
         /\ a # <<>> \/ b # <<>> => a \o b # <<>>
<1>1. /\ a \o b \in Seq(Bytes) /\ Len(a \o b) = Len(a) + Len(b)
      /\ \A k \in 1..Len(a) : (a \o b)[k] = a[k]
      /\ \A k \in 1..Len(b) : (a \o b)[Len(a) + k] = b[k]
  OBVIOUS
<1>2. Len(a) \in Nat /\ Len(b) \in Nat /\ (a # <<>> => Len(a) > 0) /\ (b # <<>> => Len(b) > 0)
  BY EmptySeq
<1>3. a # <<>> \/ b # <<>> => Len(a) + Len(b) # 0
  BY <1>2
<1> QED
  BY <1>1, <1>3

LEMMA UseKeeps ==
  ASSUME StreamInv, Typed', NEW e \in Ends, NEW i \in IDs, i = ut[e].id, UseClose(e) \/ UseData(e)
  PROVE  RecordAt(e, i)' /\ PipeAt(e, i)'
<1> DEFINE s == str[e][i]
           r == str'[e][i]
<1>1. /\ Typed /\ RecordAt(e, i) /\ PipeAt(e, i) /\ UpAt(e) /\ ut[e].pc = "use"
  BY DEF StreamInv, ToldInv, FlowInv, UseClose, UseData
<1>2. /\ table' = table /\ active' = active /\ creates' = creates /\ closeReq' = closeReq
  BY DEF UseClose, UseData
<1>3. /\ SameLife(s, r) /\ SamePipe(s, r)
      /\ s.eof => r.eof
      /\ s.up # <<>> => r.up # <<>>
  <2>1. CASE UseClose(e)
    BY <1>1, <2>1, UseCloseEffect, Zenon
  <2>2. CASE UseData(e)
    <3>1. SameLife(s, r) /\ SamePipe(s, r) /\ r.eof = s.eof /\ r.up = s.up \o ut[e].chunk
      BY <1>1, <2>2, UseDataEffect
    <3>2. s.up \in Seq(Bytes) /\ ut[e].chunk \in Seq(Bytes)
      BY <1>1, StreamTypes, MessagesInHand
    <3>3. s.up # <<>> => s.up \o ut[e].chunk # <<>>
      BY <3>2, JoinedPipes
    <3> QED
      BY <3>1, <3>3, Zenon
  <2> QED
    BY <2>1, <2>2
<1>4. s.info # "none"
  BY <1>1 DEF UpAt
<1>5. Handed(e, i)' <=> Handed(e, i)
  BY <1>2, <1>3 DEF Handed, SamePipe
<1>6. RecordAt(e, i)'
  BY <1>1, <1>2, <1>3, <1>4, <1>5 DEF RecordAt, SameLife, SamePipe
<1>7. s \in Stream /\ r \in Stream
  BY <1>1, StreamTypes, NextStream
<1> QED
  BY <1>1, <1>3, <1>5, <1>6, <1>7, PipeFrame

(* The notification at the head of the event queue.                           *)
LEMMA HeadOfUp ==
  ASSUME StreamInv, NEW e \in Ends, NEW kind \in Opening \cup Closing, Running(e, kind)
  PROVE  /\ ev[e] # <<>> /\ Head(ev[e]).id = ut[e].id /\ ut[e].id \in IDs /\ ut[e].pc = "await"
         /\ kind \in Opening <=> ut[e].chunk # <<>>
         /\ kind \in Closing <=> ut[e].chunk = <<>>
         /\ ~Owns(e, ut[e].id)
         /\ \A k \in 2..Len(ev[e]) : ev[e][k].by # "up"
         /\ Head(ev[e]).by = "up" /\ ev[e][1].by = "up"
<1>1. Typed /\ EventsAt(e) /\ UpAt(e)
  BY DEF StreamInv, ToldInv, FlowInv
<1>2. ev[e] # <<>> /\ Head(ev[e]).kind = kind
  BY DEF Running
<1>3. Head(ev[e]) = ev[e][1] /\ 1 \in 1..Len(ev[e])
  BY <1>1, <1>2, HeadFacts
<1>4. ev[e][1].by = "up"
  BY <1>1, <1>2, <1>3 DEF EventsAt
<1>5. /\ ut[e].pc = "await" /\ ev[e][1].id = ut[e].id /\ (kind \in Opening <=> ut[e].chunk # <<>>)
      /\ \A l \in 1..Len(ev[e]) : ev[e][l].by = "up" => l = 1
  BY <1>1, <1>2, <1>3, <1>4 DEF EventsAt
<1>6. kind \in Closing <=> ~(kind \in Opening)
  BY DEF Opening, Closing
<1>7. ~Owns(e, ut[e].id) /\ ut[e].id \in IDs
  BY <1>1, <1>5, MessagesInHand DEF UpAt
<1>8. ASSUME NEW k \in 2..Len(ev[e]) PROVE ev[e][k].by # "up"
  <2>1. k \in 1..Len(ev[e]) /\ k # 1
    BY <1>8
  <2> QED
    BY <1>5, <2>1
<1> QED
  BY <1>2, <1>3, <1>4, <1>5, <1>6, <1>7, <1>8

LEMMA NotifyNone ==
  ASSUME StreamInv, NEW e \in Ends, NEW i \in IDs, i = Head(ev[e]).id, NotifyNewStream(e)
  PROVE  /\ i = ut[e].id /\ ut[e].pc = "await" /\ ut[e].chunk # <<>> /\ ~Owns(e, i)
         /\ str[e][i].user = "none" /\ str[e][i].up # <<>> /\ calls[e][i] = <<>>
<1>1. Running(e, "callNew") /\ "callNew" \in Opening
  BY DEF NotifyNewStream, Opening
<1>2. i = ut[e].id /\ ut[e].pc = "await" /\ ut[e].chunk # <<>> /\ ~Owns(e, i)
  BY <1>1, HeadOfUp
<1>3. str[e][i].user = "none" /\ str[e][i].up # <<>> /\ calls[e][i] = <<>>
  BY <1>2 DEF StreamInv, FlowInv, UpAt
<1> QED
  BY <1>2, <1>3

LEMMA NotifyKeeps ==
  ASSUME StreamInv, Typed', NEW e \in Ends, NEW i \in IDs, i = Head(ev[e]).id, NotifyNewStream(e)
  PROVE  RecordAt(e, i)' /\ PipeAt(e, i)'
<1> DEFINE s == str[e][i]
           r == str'[e][i]
<1>1. /\ Typed /\ RecordAt(e, i) /\ PipeAt(e, i) /\ SamePipe(s, r) /\ SameReader(s, r)
      /\ r.info = s.info /\ r.local = s.local /\ r.user = "open"
  BY NotifyEffect DEF StreamInv, ToldInv, FlowInv
<1>2. /\ table' = table /\ active' = active /\ creates' = creates /\ closeReq' = closeReq
  BY DEF NotifyNewStream
<1>4. ~Owns(e, i)
  BY NotifyNone
<1>5. s.user = "none" /\ s.up # <<>>
  BY NotifyNone
<1>6. s.info # "none" /\ ~Handed(e, i) /\ ~Handed(e, i)'
  BY <1>1, <1>2, <1>5, NoStreamFields, Zenon DEF RecordAt, Handed, SamePipe
<1>7. RecordAt(e, i)'
  BY <1>1, <1>2, <1>4, <1>5, <1>6, Zenon DEF RecordAt, SamePipe, SameReader, Handed
<1>8. s \in Stream /\ r \in Stream
  BY <1>1, StreamTypes, NextStream
<1> QED
  BY <1>1, <1>4, <1>5, <1>6, <1>7, <1>8, PipeFrame, Zenon

LEMMA HangUpKeeps ==
  ASSUME StreamInv, Typed', NEW e \in Ends, HangUp(e), NEW j \in IDs
  PROVE  RecordAt(e, j)' /\ PipeAt(e, j)' /\ ~active[e] /\ ~active'[e]
<1> DEFINE s == str[e][j]
           r == str'[e][j]
<1>1. /\ Typed /\ RecordAt(e, j) /\ PipeAt(e, j) /\ SameLife(s, r) /\ SamePipe(s, r)
      /\ r.up = s.up /\ (s.eof => r.eof) /\ (j \notin table[e] => r = s) /\ table'[e] = {}
  BY HangUpEffect DEF StreamInv, ToldInv, FlowInv
<1>2. /\ active' = active /\ creates' = creates /\ closeReq' = closeReq /\ intr[e].pc = "hangup"
  BY DEF HangUp, IntrStep
<1>3. ~active[e]
  BY <1>2 DEF StreamInv, ToldInv, OnceAt
<1>4. s.info = "none" => r = NoStream
  BY <1>1 DEF RecordAt
<1>5. Handed(e, j)' <=> Handed(e, j)
  BY <1>1, <1>2 DEF Handed, SamePipe
<1>6. RecordAt(e, j)'
  BY <1>1, <1>2, <1>3, <1>4, <1>5 DEF RecordAt, SameLife, SamePipe
<1>7. s \in Stream /\ r \in Stream
  BY <1>1, StreamTypes, NextStream
<1> QED
  BY <1>1, <1>2, <1>3, <1>5, <1>6, <1>7, PipeFrame

LEMMA NewKeeps ==
  ASSUME StreamInv, NEW e \in Ends, NEW i \in IDs, NEW b \in BOOLEAN,
         str[e][i] = NoStream, str'[e][i] = NewStream(b), b = Owns(e, i), i \in table'[e],
         closeReq' = closeReq, b => i < 2 * creates'[e] /\ e \in Creators
  PROVE  RecordAt(e, i)' /\ PipeAt(e, i)'
<1> DEFINE r == str'[e][i]
<1>1. RecordAt(e, i) /\ MaxReplies >= 0 /\ MaxReplies \in Nat
  BY ByteFacts DEF StreamInv, FlowInv
<1>2. i \notin closeReq[e]
  BY <1>1, NoStreamFields DEF RecordAt, Handed
<1>3. /\ r.info = "live" /\ r.local = b /\ r.userClosed = FALSE /\ r.down = <<>>
      /\ r.up = <<>> /\ r.eof = FALSE /\ r.wrote = 0
      /\ r.user = (IF b THEN "open" ELSE "none")
  BY NewStreamFields
<1>4. ~Handed(e, i)'
  BY <1>2, <1>3 DEF Handed
<1>5. RecordAt(e, i)'
  <2>1. 0 <= MaxReplies
    BY <1>1
  <2>2. CASE b
    BY <1>2, <1>3, <1>4, <2>1, <2>2 DEF RecordAt
  <2>3. CASE ~b
    BY <1>2, <1>3, <1>4, <2>1, <2>3 DEF RecordAt
  <2> QED
    BY <2>2, <2>3
<1>6. FinalOf(r) = 0 /\ Len(r.down) = 0
  BY <1>3 DEF FinalOf
<1>7. PipeAt(e, i)'
  BY <1>4, <1>6 DEF PipeAt, Final
<1> QED
  BY <1>5, <1>7

Records(x, j) == RecordAt(x, j) /\ PipeAt(x, j)

(* The record of one stream changes, and whether it is listed.                *)
LEMMA RecordOfOne ==
  ASSUME StreamInv, NEW e \in Ends, NEW i \in IDs, Records(e, i)', Only(e, i), Quieter,
         \A x \in Ends : creates[x] \in Nat /\ creates'[x] \in Nat /\ creates[x] <= creates'[x],
         \A x \in Ends : \A j \in IDs : x # e \/ j # i =>
            (j \in table'[x] <=> j \in table[x]) /\ (j \in closeReq'[x] <=> j \in closeReq[x])
  PROVE  \A x \in Ends : \A j \in IDs : Records(x, j)'
<1> SUFFICES ASSUME NEW x \in Ends, NEW j \in IDs PROVE Records(x, j)'
  OBVIOUS
<1>1. CASE x = e /\ j = i
  BY <1>1
<1>2. CASE x # e \/ j # i
  <2>1. /\ str'[x][j] = str[x][j] /\ (j \in table'[x] <=> j \in table[x])
        /\ (j \in closeReq'[x] <=> j \in closeReq[x]) /\ RecordAt(x, j) /\ PipeAt(x, j)
    BY <1>2 DEF Only, StreamInv, FlowInv
  <2>2. creates[x] \in Nat /\ creates'[x] \in Nat /\ creates[x] <= creates'[x]
    OBVIOUS
  <2>3. RecordAt(x, j)' /\ PipeAt(x, j)'
    BY <2>1, <2>2, RecordFrame
  <2> QED
    BY <2>3 DEF Records
<1> QED
  BY <1>1, <1>2

LEMMA CreatesGrow ==
  ASSUME Typed, creates' = creates
  PROVE  \A x \in Ends : creates[x] \in Nat /\ creates'[x] \in Nat /\ creates[x] <= creates'[x]
<1> SUFFICES ASSUME NEW x \in Ends PROVE creates[x] \in Nat /\ creates[x] <= creates[x]
  OBVIOUS
<1> QED
  BY ByteFacts DEF Typed

(* The dispatch that retires a stream the other end closed.                   *)
LEMMA RetiredRemote ==
  ASSUME StreamInv, NEW e \in Ends, Running(e, "closed"), NEW i, i = Head(ev[e]).id
  PROVE  i \in IDs /\ ~Owns(e, i) /\ str[e][i].eof /\ i = ut[e].id /\ ut[e].pc = "await" /\ ut[e].chunk = <<>>
<1>1. "closed" \in Closing
  BY DEF Closing
<1>2. i = ut[e].id /\ i \in IDs /\ ut[e].pc = "await" /\ ut[e].chunk = <<>> /\ ~Owns(e, i)
  BY <1>1, HeadOfUp
<1>3. UpAt(e)
  BY DEF StreamInv, FlowInv
<1>4. str[e][i].eof
  BY <1>2, <1>3 DEF UpAt
<1> QED
  BY <1>2, <1>4

LEMMA RetiredDown ==
  ASSUME StreamInv, NEW e \in Ends, dn[e].pc \in {"sendClose", "retire"}, NEW i, i = dn[e].id
  PROVE  /\ i \in IDs /\ Owns(e, i) /\ str[e][i].userClosed /\ str[e][i].down = <<>>
         /\ str[e][i].user = "closed"
<1>1. Typed /\ EndAt(e) /\ i \in IDs
  BY MessagesInHand DEF StreamInv, ToldInv, FlowInv
<1>2. str[e][i].userClosed /\ str[e][i].down = <<>>
  BY <1>1 DEF EndAt
<1>3. RecordAt(e, i) /\ Handed(e, i)
  BY <1>1, <1>2 DEF StreamInv, FlowInv, Handed
<1> QED
  BY <1>1, <1>2, <1>3 DEF RecordAt

LEMMA RecordStep ==
  ASSUME Disciplined, StreamInv, Typed', [Next]_vars
  PROVE  \A x \in Ends : \A j \in IDs : Records(x, j)'
<1>1. Typed
  BY DEF StreamInv, ToldInv
<1>2. ASSUME Still, Quieter PROVE \A x \in Ends : \A j \in IDs : Records(x, j)'
  <2> SUFFICES ASSUME NEW x \in Ends, NEW j \in IDs PROVE Records(x, j)'
    OBVIOUS
  <2>1. creates[x] \in Nat /\ creates'[x] \in Nat /\ creates[x] <= creates'[x]
    BY <1>1, <1>2, CreatesGrow DEF Still
  <2>2. /\ str'[x][j] = str[x][j] /\ (j \in table'[x] <=> j \in table[x])
        /\ (j \in closeReq'[x] <=> j \in closeReq[x]) /\ RecordAt(x, j) /\ PipeAt(x, j)
    BY <1>2 DEF Still, StreamInv, FlowInv
  <2> QED
    BY <1>2, <2>1, <2>2, RecordFrame DEF Records
<1>3. CASE UNCHANGED vars \/ LinkFails
  <2>1. Still /\ Quieter
    BY <1>3 DEF vars, LinkFails, Still, Quieter
  <2> QED
    BY <1>2, <2>1
<1>4. ASSUME NEW e \in Ends, StillStep(e) PROVE \A x \in Ends : \A j \in IDs : Records(x, j)'
  BY <1>1, <1>2, <1>4, StillEffect
<1>5. ASSUME NEW e \in Ends, NEW i \in IDs, RecordOp(e, i)
      PROVE  \A x \in Ends : \A j \in IDs : Records(x, j)'
  <2>1. Quieter /\ creates' = creates /\ table' = table
    BY <1>5 DEF RecordOp, WriteDown, CloseStream, CloseItem, ServeDown, DestroySource, Quieter
  <2>2. \A x \in Ends : \A j \in IDs : x # e \/ j # i => (j \in closeReq'[x] <=> j \in closeReq[x])
    <3>1. \/ closeReq' = closeReq
          \/ closeReq' = [closeReq EXCEPT ![e] = @ \cup {i}]
          \/ closeReq' = [closeReq EXCEPT ![e] = @ \ {i}]
      BY <1>5 DEF RecordOp, WriteDown, CloseStream, CloseItem, ServeDown, DestroySource
    <3>2. closeReq \in [Ends -> SUBSET IDs]
      BY <1>1 DEF Typed
    <3> SUFFICES ASSUME NEW x \in Ends, NEW j \in IDs, x # e \/ j # i
                 PROVE  j \in closeReq'[x] <=> j \in closeReq[x]
      OBVIOUS
    <3>3. CASE x # e
      <4>1. closeReq'[x] = closeReq[x]
        BY <3>1, <3>2, <3>3
      <4> QED
        BY <4>1
    <3>4. CASE x = e
      <4>1. \/ closeReq'[e] = closeReq[e] \/ closeReq'[e] = closeReq[e] \cup {i}
            \/ closeReq'[e] = closeReq[e] \ {i}
        BY <3>1, <3>2
      <4> QED
        BY <3>4, <4>1
    <3> QED
      BY <3>3, <3>4
  <2>3. Only(e, i)
    BY <1>1, <1>5, WriteEffect, CloseEffect, CloseItemEffect, ServeEffect, DestroyEffect DEF RecordOp
  <2>4. Records(e, i)'
    BY <1>5, WriteKeeps, CloseKeeps, CloseItemKeeps, ServeKeeps, DestroyKeeps DEF RecordOp, Records
  <2>5. \A x \in Ends : creates[x] \in Nat /\ creates'[x] \in Nat /\ creates[x] <= creates'[x]
    BY <1>1, <2>1, CreatesGrow
  <2> QED
    BY <2>1, <2>2, <2>3, <2>4, <2>5, RecordOfOne
<1>6. ASSUME NEW e \in Ends, StreamStep(e) PROVE \A x \in Ends : \A j \in IDs : Records(x, j)'
  <2>1. CASE CreateStream(e)
    <3>0. NextID(e) \in IDs
      BY <2>1, CreateEffect
    <3>00. PICK i \in IDs : i = NextID(e)
      BY <3>0
    <3>1. /\ i \in IDs /\ Owns(e, i) /\ e \in Creators /\ str[e][i] = NoStream
          /\ Only(e, i) /\ str'[e][i] = NewStream(TRUE)
          /\ table'[e] = table[e] \cup {i} /\ \A x \in Ends : x # e => table'[x] = table[x]
          /\ creates[e] \in Nat /\ creates'[e] = creates[e] + 1
          /\ \A x \in Ends : x # e => creates'[x] = creates[x]
          /\ i < 2 * (creates[e] + 1) /\ UNCHANGED <<active, intr, usr>>
      BY <2>1, <3>00, CreateEffect
    <3>2. closeReq' = closeReq /\ Quieter
      BY <2>1, <3>1 DEF CreateStream, Quieter
    <3>3. \A x \in Ends : creates[x] \in Nat /\ creates'[x] \in Nat /\ creates[x] <= creates'[x]
      <4> SUFFICES ASSUME NEW x \in Ends
                   PROVE  creates[x] \in Nat /\ creates'[x] \in Nat /\ creates[x] <= creates'[x]
        OBVIOUS
      <4>1. creates[x] \in Nat
        BY <1>1, ByteFacts DEF Typed
      <4> QED
        BY <3>1, <4>1
    <3>4. Records(e, i)'
      BY <3>1, <3>2, NewKeeps DEF Records
    <3> QED
      BY <3>1, <3>2, <3>3, <3>4, RecordOfOne
  <2>2. CASE ChooseStream(e)
    <3>0. PICK i \in IDs : i = ut[e].id
      BY <1>1, MessagesInHand
    <3>1. creates' = creates /\ closeReq' = closeReq /\ lastID' = lastID
      BY <2>2 DEF ChooseStream
    <3>2. Quieter
      BY <2>2, ChooseEffect
    <3>3. CASE str' = str /\ table' = table
      BY <1>2, <3>1, <3>2, <3>3 DEF Still
    <3>4. CASE ~(str' = str /\ table' = table)
      <4>1. /\ ~Owns(e, i) /\ Only(e, i) /\ str[e][i] = NoStream /\ str'[e][i] = NewStream(FALSE)
            /\ table'[e] = table[e] \cup {i} /\ \A x \in Ends : x # e => table'[x] = table[x]
        BY <2>2, <3>0, <3>4, ChooseEffect, Zenon
      <4>2. \A x \in Ends : creates[x] \in Nat /\ creates'[x] \in Nat /\ creates[x] <= creates'[x]
        BY <1>1, <3>1, CreatesGrow
      <4>3. Records(e, i)'
        <5>1. FALSE = Owns(e, i)
          BY <4>1 DEF Owns
        <5>2. i \in table'[e]
          BY <4>1
        <5> QED
          BY <3>1, <4>1, <5>1, <5>2, NewKeeps DEF Records
      <4> QED
        BY <3>1, <3>2, <4>1, <4>2, <4>3, RecordOfOne
    <3> QED
      BY <3>3, <3>4
  <2>3. CASE UseClose(e) \/ UseData(e)
    <3>0. PICK i \in IDs : i = ut[e].id
      BY <1>1, MessagesInHand
    <3>1. creates' = creates /\ closeReq' = closeReq /\ table' = table /\ Quieter
      BY <2>3 DEF UseClose, UseData, Quieter
    <3>2. Only(e, i)
      BY <1>1, <2>3, <3>0, UseCloseEffect, UseDataEffect
    <3>3. Records(e, i)'
      BY <2>3, <3>0, UseKeeps DEF Records
    <3>4. \A x \in Ends : creates[x] \in Nat /\ creates'[x] \in Nat /\ creates[x] <= creates'[x]
      BY <1>1, <3>1, CreatesGrow
    <3> QED
      BY <3>1, <3>2, <3>3, <3>4, RecordOfOne
  <2>4. CASE NotifyNewStream(e)
    <3>1. creates' = creates /\ closeReq' = closeReq /\ table' = table /\ Quieter
      BY <2>4 DEF NotifyNewStream, Quieter
    <3>0. Head(ev[e]).id \in IDs
      BY <1>1, <2>4, HeadFacts DEF NotifyNewStream, Running, Event
    <3>2. PICK i \in IDs : i = Head(ev[e]).id
      BY <3>0
    <3>3. Only(e, i) /\ Records(e, i)'
      BY <1>1, <2>4, <3>2, NotifyEffect, NotifyKeeps DEF Records
    <3>4. \A x \in Ends : creates[x] \in Nat /\ creates'[x] \in Nat /\ creates[x] <= creates'[x]
      BY <1>1, <3>1, CreatesGrow
    <3> QED
      BY <3>1, <3>2, <3>3, <3>4, RecordOfOne
  <2>5. ASSUME NEW i \in IDs, Retire(e, i), UNCHANGED <<active, creates, closeReq>>,
               Owns(e, i) => str[e][i].userClosed /\ str[e][i].down = <<>>,
               ~Owns(e, i) => str[e][i].eof
        PROVE  \A x \in Ends : \A j \in IDs : Records(x, j)'
    <3>1. /\ Only(e, i) /\ table'[e] = table[e] \ {i}
          /\ \A x \in Ends : x # e => table'[x] = table[x]
      BY <1>1, <2>5, RetireEffect
    <3>2. Records(e, i)'
      BY <2>5, RetireKeeps DEF Records
    <3>3. \A x \in Ends : creates[x] \in Nat /\ creates'[x] \in Nat /\ creates[x] <= creates'[x]
      BY <1>1, <2>5, CreatesGrow
    <3>4. Quieter
      BY <2>5 DEF Quieter
    <3> QED
      BY <2>5, <3>1, <3>2, <3>3, <3>4, RecordOfOne
  <2>6. CASE RetireDown(e)
    <3>1. /\ dn[e].pc = "retire" /\ Retire(e, dn[e].id) /\ UNCHANGED <<active, creates, closeReq>>
      BY <2>6 DEF RetireDown
    <3>2. /\ dn[e].id \in IDs /\ Owns(e, dn[e].id)
          /\ str[e][dn[e].id].userClosed /\ str[e][dn[e].id].down = <<>>
      BY <3>1, RetiredDown
    <3>3. PICK i \in IDs : i = dn[e].id
      BY <3>2
    <3> QED
      BY <2>5, <3>1, <3>2, <3>3
  <2>7. CASE RetireRemote(e)
    <3>1. /\ Running(e, "closed") /\ Retire(e, Head(ev[e]).id) /\ UNCHANGED <<active, creates, closeReq>>
      BY <2>7 DEF RetireRemote
    <3>2. Head(ev[e]).id \in IDs /\ ~Owns(e, Head(ev[e]).id) /\ str[e][Head(ev[e]).id].eof
      BY <3>1, RetiredRemote
    <3>3. PICK i \in IDs : i = Head(ev[e]).id
      BY <3>2
    <3> QED
      BY <2>5, <3>1, <3>2, <3>3
  <2>8. CASE HangUp(e)
    <3> SUFFICES ASSUME NEW x \in Ends, NEW j \in IDs PROVE Records(x, j)'
      OBVIOUS
    <3>1. CASE x = e
      BY <2>8, <3>1, HangUpKeeps DEF Records
    <3>2. CASE x # e
      <4>1. str'[x] = str[x] /\ table'[x] = table[x]
        BY <1>1, <2>8, <3>2, HangUpEffect
      <4>2. closeReq' = closeReq /\ creates' = creates /\ Quieter
        BY <2>8 DEF HangUp, Quieter
      <4>3. RecordAt(x, j) /\ PipeAt(x, j)
        BY DEF StreamInv, FlowInv
      <4>4. creates[x] \in Nat /\ creates'[x] \in Nat /\ creates[x] <= creates'[x]
        BY <1>1, <4>2, CreatesGrow
      <4> QED
        BY <4>1, <4>2, <4>3, <4>4, RecordFrame DEF Records
    <3> QED
      BY <3>1, <3>2
  <2> QED
    BY <1>6, <2>1, <2>2, <2>3, <2>4, <2>6, <2>7, <2>8 DEF StreamStep
<1> QED
  BY <1>3, <1>4, <1>5, <1>6, StepCases

(* What a step can do to a record.                                            *)
Change(x, j) ==
  LET s == str[x][j]
      r == str'[x][j]
  IN /\ s.wrote <= r.wrote /\ (r.wrote = s.wrote \/ WriteDown(x, j))
     /\ s.info # "none" => r.info # "none"
     /\ s.userClosed => r.userClosed
     /\ s.user = "closed" => r.user = "closed"
     /\ r.info # "none" => s.info # "none" \/ Owns(x, j) \/ str[Peer(x)][j].info # "none"
     /\ r.up = s.up \/ (UseData(x) /\ j = ut[x].id /\ r.up = s.up \o ut[x].chunk)
     /\ r.eof = s.eof \/ (UseClose(x) /\ j = ut[x].id /\ r.eof) \/ (HangUp(x) /\ ~active'[x])
     /\ SamePipe(s, r) \/ WriteDown(x, j) \/ CloseItem(x, j) \/ ServeDown(x, j)
     /\ s.eof => r.eof
     /\ \/ r.user = s.user \/ (s.user = "open" /\ r.user = "closed") \/ (Owns(x, j) /\ s = NoStream)
        \/ (NotifyNewStream(x) /\ j = Head(ev[x]).id)
     /\ Handed(x, j)' => Handed(x, j) \/ CloseStream(x, j)

LEMMA SameChange ==
  ASSUME Typed, NEW x \in Ends, NEW j \in IDs, str'[x][j] = str[x][j],
         j \in closeReq'[x] => j \in closeReq[x]
  PROVE  Change(x, j)
<1>1. str[x][j].wrote <= str[x][j].wrote
  BY StreamTypes
<1> QED
  BY <1>1 DEF Change, SamePipe, Handed

LEMMA NewChange ==
  ASSUME NEW x \in Ends, NEW j \in IDs, str[x][j] = NoStream, NEW b \in BOOLEAN,
         str'[x][j] = NewStream(b), closeReq' = closeReq, b => Owns(x, j),
         ~b => str[Peer(x)][j].info # "none"
  PROVE  Change(x, j)
<1> DEFINE s == str[x][j]
           r == str'[x][j]
<1>1. /\ r.info = "live" /\ r.userClosed = FALSE /\ r.down = <<>>
      /\ r.up = <<>> /\ r.eof = FALSE /\ r.wrote = 0
      /\ r.user = (IF b THEN "open" ELSE "none") /\ SamePipe(r, s)
  BY NewStreamFields
<1>2. /\ s.info = "none" /\ s.userClosed = FALSE /\ s.up = <<>> /\ s.eof = FALSE
      /\ s.user = "none" /\ s.wrote = 0
  BY NoStreamFields
<1>3. SamePipe(s, r) /\ s.wrote <= r.wrote
  BY <1>1, <1>2 DEF SamePipe
<1>4. r.user = s.user \/ (Owns(x, j) /\ s = NoStream)
  BY <1>1, <1>2
<1>5. Handed(x, j)' => Handed(x, j)
  BY <1>1, <1>2 DEF Handed
<1> QED
  BY <1>1, <1>2, <1>3, <1>4, <1>5 DEF Change

LEMMA RecordChange ==
  ASSUME Typed, NEW e \in Ends, NEW i \in IDs, RecordOp(e, i)
  PROVE  Change(e, i)
<1> DEFINE s == str[e][i]
           r == str'[e][i]
<1>1. s.wrote \in Nat
  BY StreamTypes
<1>2. CASE WriteDown(e, i)
  <2>1. /\ SameLife(s, r) /\ SameReader(s, r) /\ r.userClosed = s.userClosed /\ r.wrote = s.wrote + 1
    BY <1>2, WriteEffect
  <2>2. s.wrote <= r.wrote /\ closeReq' = closeReq
    BY <1>1, <1>2, <2>1 DEF WriteDown
  <2> QED
    BY <1>2, <2>1, <2>2 DEF Change, SameLife, SameReader, Handed
<1>3. CASE CloseStream(e, i)
  <2>1. /\ SamePipe(s, r) /\ SameReader(s, r) /\ r.info = s.info /\ r.user = "closed" /\ s.user = "open"
    BY <1>3, CloseEffect
  <2>2. s.wrote <= r.wrote
    BY <1>1, <2>1 DEF SamePipe
  <2> QED
    BY <1>3, <2>1, <2>2 DEF Change, SamePipe, SameReader
<1>4. CASE CloseItem(e, i)
  <2>1. /\ SameLife(s, r) /\ SameReader(s, r) /\ r.wrote = s.wrote /\ r.userClosed = TRUE
    BY <1>4, CloseItemEffect
  <2>2. s.wrote <= r.wrote /\ Handed(e, i)
    BY <1>1, <1>4, <2>1 DEF CloseItem, Handed
  <2> QED
    BY <1>4, <2>1, <2>2 DEF Change, SameLife, SameReader
<1>5. CASE ServeDown(e, i)
  <2>1. /\ SameLife(s, r) /\ SameReader(s, r) /\ r.wrote = s.wrote /\ r.userClosed = s.userClosed
    BY <1>5, ServeEffect
  <2>2. s.wrote <= r.wrote /\ closeReq' = closeReq
    BY <1>1, <1>5, <2>1 DEF ServeDown
  <2> QED
    BY <1>5, <2>1, <2>2 DEF Change, SameLife, SameReader, Handed
<1>6. CASE DestroySource(e, i)
  <2>1. /\ SameLife(s, r) /\ SameReader(s, r) /\ SamePipe(s, r)
    BY <1>6, DestroyEffect
  <2>2. s.wrote <= r.wrote /\ closeReq' = closeReq
    BY <1>1, <1>6, <2>1 DEF DestroySource, SamePipe
  <2> QED
    BY <1>6, <2>1, <2>2 DEF Change, SameLife, SamePipe, SameReader, Handed
<1> QED
  BY <1>2, <1>3, <1>4, <1>5, <1>6 DEF RecordOp

LEMMA ChangeStep ==
  ASSUME Disciplined, StreamInv, [Next]_vars
  PROVE  \A x \in Ends : \A j \in IDs : Change(x, j)
<1>1. Typed
  BY DEF StreamInv, ToldInv
<1>2. ASSUME Still PROVE \A x \in Ends : \A j \in IDs : Change(x, j)
  BY <1>1, <1>2, SameChange DEF Still
<1>3. CASE UNCHANGED vars \/ LinkFails
  BY <1>2, <1>3 DEF vars, LinkFails, Still
<1>4. ASSUME NEW e \in Ends, StillStep(e) PROVE \A x \in Ends : \A j \in IDs : Change(x, j)
  BY <1>1, <1>2, <1>4, StillEffect
<1>5. ASSUME NEW e \in Ends, NEW i \in IDs, Only(e, i), Change(e, i),
             \A x \in Ends : \A j \in IDs : x # e \/ j # i => (j \in closeReq'[x] => j \in closeReq[x])
      PROVE  \A x \in Ends : \A j \in IDs : Change(x, j)
  <2> SUFFICES ASSUME NEW x \in Ends, NEW j \in IDs PROVE Change(x, j)
    OBVIOUS
  <2>1. CASE x = e /\ j = i
    BY <1>5, <2>1
  <2>2. CASE x # e \/ j # i
    BY <1>1, <1>5, <2>2, SameChange DEF Only
  <2> QED
    BY <2>1, <2>2
<1>6. ASSUME NEW e \in Ends, NEW i \in IDs, RecordOp(e, i)
      PROVE  \A x \in Ends : \A j \in IDs : Change(x, j)
  <2>1. \A x \in Ends : \A j \in IDs : x # e \/ j # i => (j \in closeReq'[x] => j \in closeReq[x])
    <3>1. \/ closeReq' = closeReq
          \/ closeReq' = [closeReq EXCEPT ![e] = @ \cup {i}]
          \/ closeReq' = [closeReq EXCEPT ![e] = @ \ {i}]
      BY <1>6 DEF RecordOp, WriteDown, CloseStream, CloseItem, ServeDown, DestroySource
    <3>2. closeReq \in [Ends -> SUBSET IDs]
      BY <1>1 DEF Typed
    <3> SUFFICES ASSUME NEW x \in Ends, NEW j \in IDs, x # e \/ j # i
                 PROVE  j \in closeReq'[x] => j \in closeReq[x]
      OBVIOUS
    <3>3. CASE x # e
      <4>1. closeReq'[x] = closeReq[x]
        BY <3>1, <3>2, <3>3
      <4> QED
        BY <4>1
    <3>4. CASE x = e
      <4>1. \/ closeReq'[e] = closeReq[e] \/ closeReq'[e] = closeReq[e] \cup {i}
            \/ closeReq'[e] = closeReq[e] \ {i}
        BY <3>1, <3>2
      <4> QED
        BY <3>4, <4>1
    <3> QED
      BY <3>3, <3>4
  <2>2. Only(e, i)
    BY <1>1, <1>6, WriteEffect, CloseEffect, CloseItemEffect, ServeEffect, DestroyEffect DEF RecordOp
  <2>3. Change(e, i)
    BY <1>1, <1>6, RecordChange
  <2> QED
    BY <1>5, <2>1, <2>2, <2>3
<1>7. ASSUME NEW e \in Ends, NEW i \in IDs, closeReq' = closeReq, Only(e, i), Change(e, i)
      PROVE  \A x \in Ends : \A j \in IDs : Change(x, j)
  BY <1>5, <1>7
<1>8. ASSUME NEW e \in Ends, StreamStep(e) PROVE \A x \in Ends : \A j \in IDs : Change(x, j)
  <2>1. closeReq' = closeReq
    BY <1>8, Zenon DEF StreamStep, CreateStream, ChooseStream, UseClose, UseData, NotifyNewStream, RetireDown,
                RetireRemote, HangUp
  <2>2. CASE CreateStream(e)
    <3>0. NextID(e) \in IDs
      BY <2>2, CreateEffect
    <3>1. PICK i \in IDs : i = NextID(e)
      BY <3>0
    <3>2. /\ Owns(e, i) /\ str[e][i] = NoStream /\ Only(e, i) /\ str'[e][i] = NewStream(TRUE)
      BY <2>2, <3>1, CreateEffect
    <3> QED
      BY <1>7, <2>1, <3>2, NewChange
  <2>3. CASE ChooseStream(e)
    <3>1. PICK i \in IDs : i = ut[e].id
      BY <1>1, MessagesInHand
    <3>2. CASE str' = str
      BY <1>1, <2>1, <3>2, SameChange
    <3>3. CASE str' # str
      <4>1. /\ Only(e, i) /\ str[e][i] = NoStream /\ str'[e][i] = NewStream(FALSE)
            /\ str[Peer(e)][i].info # "none"
        BY <2>3, <3>1, <3>3, ChooseEffect, Zenon
      <4> QED
        BY <1>7, <2>1, <4>1, NewChange
    <3> QED
      BY <3>2, <3>3
  <2>4. CASE UseClose(e) \/ UseData(e)
    <3>1. PICK i \in IDs : i = ut[e].id
      BY <1>1, MessagesInHand
    <3> DEFINE s == str[e][i]
               r == str'[e][i]
    <3>2. /\ Only(e, i) /\ SameLife(s, r) /\ SamePipe(s, r)
          /\ \/ UseClose(e) /\ r.up = s.up /\ r.eof = TRUE
             \/ UseData(e) /\ r.up = s.up \o ut[e].chunk /\ r.eof = s.eof
      BY <1>1, <2>4, <3>1, UseCloseEffect, UseDataEffect, Zenon
    <3>3. s.wrote <= s.wrote
      BY <1>1, StreamTypes
    <3>4. Change(e, i)
      BY <2>1, <3>1, <3>2, <3>3, Zenon DEF Change, SameLife, SamePipe, Handed
    <3> QED
      BY <1>7, <2>1, <3>2, <3>4
  <2>5. CASE NotifyNewStream(e)
    <3>0. Head(ev[e]).id \in IDs
      BY <1>1, <2>5, HeadFacts DEF NotifyNewStream, Running, Event
    <3>1. PICK i \in IDs : i = Head(ev[e]).id
      BY <3>0
    <3> DEFINE s == str[e][i]
               r == str'[e][i]
    <3>2. Only(e, i) /\ SamePipe(s, r) /\ SameReader(s, r) /\ r.info = s.info
      BY <1>1, <2>5, <3>1, NotifyEffect
    <3>3. s.wrote <= s.wrote /\ s.user = "none"
      BY <1>1, <2>5, <3>1, StreamTypes, NotifyNone
    <3>4. Change(e, i)
      BY <2>1, <2>5, <3>1, <3>2, <3>3 DEF Change, SameReader, SamePipe, Handed
    <3> QED
      BY <1>7, <2>1, <3>2, <3>4
  <2>6. ASSUME NEW i \in IDs, Retire(e, i) PROVE \A x \in Ends : \A j \in IDs : Change(x, j)
    <3> DEFINE s == str[e][i]
               r == str'[e][i]
    <3>1. /\ Only(e, i) /\ SamePipe(s, r) /\ SameReader(s, r) /\ r.user = s.user
          /\ r.info = IF i \in table[e] THEN "freed" ELSE s.info
      BY <1>1, <2>6, RetireEffect
    <3>2. s.wrote <= s.wrote /\ RecordAt(e, i)
      BY <1>1, StreamTypes DEF StreamInv, FlowInv
    <3>3. Change(e, i)
      BY <2>1, <3>1, <3>2 DEF Change, SameReader, SamePipe, Handed, RecordAt
    <3> QED
      BY <1>7, <2>1, <3>1, <3>3
  <2>7. CASE RetireDown(e)
    <3>1. PICK i \in IDs : i = dn[e].id
      BY <1>1, MessagesInHand
    <3> QED
      BY <2>6, <2>7, <3>1 DEF RetireDown
  <2>8. CASE RetireRemote(e)
    <3>1. Head(ev[e]).id \in IDs
      BY <2>8, RetiredRemote DEF RetireRemote
    <3>2. PICK i \in IDs : i = Head(ev[e]).id
      BY <3>1
    <3> QED
      BY <2>6, <2>8, <3>2 DEF RetireRemote
  <2>9. CASE HangUp(e)
    <3> SUFFICES ASSUME NEW x \in Ends, NEW j \in IDs PROVE Change(x, j)
      OBVIOUS
    <3>1. CASE x # e
      BY <1>1, <2>1, <2>9, <3>1, HangUpEffect, SameChange
    <3>2. CASE x = e
      <4> DEFINE s == str[e][j]
                 r == str'[e][j]
      <4>1. SameLife(s, r) /\ SamePipe(s, r) /\ r.up = s.up /\ (s.eof => r.eof)
        BY <1>1, <2>9, HangUpEffect
      <4>2. s.wrote <= s.wrote /\ ~active'[e]
        BY <1>1, <2>9, StreamTypes DEF HangUp, IntrStep, StreamInv, ToldInv, OnceAt
      <4> QED
        BY <2>1, <2>9, <3>2, <4>1, <4>2 DEF Change, SameLife, SamePipe, Handed
    <3> QED
      BY <3>1, <3>2
  <2> QED
    BY <1>8, <2>2, <2>3, <2>4, <2>5, <2>7, <2>8, <2>9 DEF StreamStep
<1> QED
  BY <1>3, <1>4, <1>6, <1>8, StepCases

-----------------------------------------------------------------------------
(* A step is one end's: the rest of the other end is as it was.               *)
Acts(e) == StillStep(e) \/ StreamStep(e) \/ \E i \in IDs : RecordOp(e, i)
SameEnd(x) ==
  /\ active'[x] = active[x] /\ open'[x] = open[x] /\ lastID'[x] = lastID[x]
  /\ creates'[x] = creates[x] /\ dn'[x] = dn[x] /\ ut'[x] = ut[x] /\ ev'[x] = ev[x]
  /\ funcs'[x] = funcs[x] /\ table'[x] = table[x] /\ closeReq'[x] = closeReq[x]
  /\ calls'[x] = calls[x] /\ str'[x] = str[x]

LEMMA EndTypes ==
  ASSUME Typed
  PROVE  /\ active \in [Ends -> BOOLEAN] /\ open \in [Ends -> BOOLEAN] /\ lastID \in [Ends -> IDs]
         /\ creates \in [Ends -> 0..MaxCreates] /\ dn \in [Ends -> DownWork] /\ ut \in [Ends -> UpWork]
         /\ ev \in [Ends -> Seq(Event)] /\ funcs \in [Ends -> BOOLEAN] /\ table \in [Ends -> SUBSET IDs]
         /\ closeReq \in [Ends -> SUBSET IDs] /\ str \in [Ends -> [IDs -> Stream]]
         /\ calls = [x \in Ends |-> calls[x]] /\ wire \in [Ends -> Seq(Message)]
BY DEF Typed

LEMMA AnswerSame ==
  ASSUME Typed, NEW e \in Ends, NEW by, Answer(e, by), NEW x \in Ends, x # e
  PROVE  ut'[x] = ut[x] /\ ev'[x] = ev[x]
BY DEF Typed, Answer

LEMMA StillAlone ==
  ASSUME Typed, NEW e \in Ends, StillStep(e), NEW x \in Ends, x # e
  PROVE  SameEnd(x)
<1>0. Still
  BY StillEffect
<1>1. CASE StillUser(e)
  BY <1>0, <1>1, EndTypes, InterruptQuiets DEF StillUser, Stop, StopJoin, Still, SameEnd, Post, NoInterrupt
<1>2. CASE StillDown(e)
  BY <1>0, <1>2, EndTypes, InterruptQuiets
     DEF StillDown, SendChunk, SendClose, Still, SameEnd, InterruptIfInactive, NoInterrupt
<1>3. CASE StillUp(e)
  BY <1>0, <1>3, EndTypes, InterruptQuiets
     DEF StillUp, ReadHeader, ReadFails, UseFails, UseInactive, PostUp, Still, SameEnd, Post
<1>4. CASE StillEvent(e)
  BY <1>0, <1>4, EndTypes, AnswerSame
     DEF StillEvent, FindCallback, NoCallback, NotifyClosing, NotifyInterrupted, Join, Still, SameEnd, Proceed
<1>5. CASE StillIntr(e)
  BY <1>0, <1>5, EndTypes
     DEF StillIntr, CloseProvider, PostInterrupted, PostJoin, Still, SameEnd, Post
<1> QED
  BY <1>1, <1>2, <1>3, <1>4, <1>5 DEF StillStep

LEMMA StreamAlone ==
  ASSUME Disciplined, StreamInv, NEW e \in Ends, StreamStep(e), NEW x \in Ends, x # e
  PROVE  SameEnd(x)
<1>1. Typed
  BY DEF StreamInv, ToldInv
<1>2. CASE CreateStream(e)
  <2>1. str'[x] = str[x]
    BY <1>1, <1>2, EndTypes DEF CreateStream
  <2>2. table'[x] = table[x] /\ creates'[x] = creates[x] /\ lastID'[x] = lastID[x] /\ active' = active
    BY <1>2, CreateEffect
  <2> QED
    BY <1>2, <2>1, <2>2 DEF CreateStream, SameEnd
<1>3. CASE ChooseStream(e)
  <2>1. str'[x] = str[x] /\ table'[x] = table[x]
    BY <1>1, <1>3, EndTypes DEF ChooseStream
  <2>2. ut'[x] = ut[x] /\ active'[x] = active[x]
    BY <1>1, <1>3, EndTypes, InterruptQuiets DEF ChooseStream, NoInterrupt
  <2> QED
    BY <1>3, <2>1, <2>2 DEF ChooseStream, SameEnd
<1>4. CASE UseClose(e) \/ UseData(e)
  BY <1>1, <1>4, EndTypes DEF UseClose, UseData, SameEnd
<1>5. CASE NotifyNewStream(e)
  BY <1>1, <1>5, EndTypes, AnswerSame DEF NotifyNewStream, SameEnd
<1>6. CASE RetireDown(e)
  BY <1>1, <1>6, EndTypes DEF RetireDown, Retire, SameEnd
<1>7. CASE RetireRemote(e)
  BY <1>1, <1>7, EndTypes, AnswerSame, Zenon DEF RetireRemote, Retire, SameEnd
<1>8. CASE HangUp(e)
  BY <1>1, <1>8, EndTypes, HangUpEffect DEF HangUp, SameEnd
<1> QED
  BY <1>2, <1>3, <1>4, <1>5, <1>6, <1>7, <1>8 DEF StreamStep

LEMMA OpAlone ==
  ASSUME Typed, NEW e \in Ends, NEW i \in IDs, RecordOp(e, i), NEW x \in Ends, x # e
  PROVE  SameEnd(x)
<1>1. CASE WriteDown(e, i)
  BY <1>1, EndTypes DEF WriteDown, SameEnd, threadVars
<1>2. CASE CloseStream(e, i)
  BY <1>2, EndTypes DEF CloseStream, SameEnd, threadVars
<1>3. CASE CloseItem(e, i)
  BY <1>3, EndTypes DEF CloseItem, SameEnd, threadVars
<1>4. CASE ServeDown(e, i)
  BY <1>4, EndTypes DEF ServeDown, SameEnd
<1>5. CASE DestroySource(e, i)
  BY <1>5, EndTypes DEF DestroySource, SameEnd, threadVars
<1> QED
  BY <1>1, <1>2, <1>3, <1>4, <1>5 DEF RecordOp

LEMMA OneActs ==
  ASSUME Disciplined, StreamInv, [Next]_vars, NEW x \in Ends
  PROVE  Acts(x) \/ SameEnd(x)
<1>1. Typed
  BY DEF StreamInv, ToldInv
<1>2. CASE UNCHANGED vars \/ LinkFails
  BY <1>2 DEF vars, threadVars, LinkFails, SameEnd
<1>3. ASSUME NEW e \in Ends, Acts(e) PROVE Acts(x) \/ SameEnd(x)
  BY <1>1, <1>3, StillAlone, StreamAlone, OpAlone DEF Acts
<1> QED
  BY <1>2, <1>3, StepCases DEF Acts

(* A step of one end is not one of the other's.                               *)
LEMMA OthersWire ==
  ASSUME Disciplined, StreamInv, [Next]_vars, NEW x \in Ends
  PROVE  wire'[x] = wire[x] \/ SendChunk(x) \/ SendClose(x) \/ ReadHeader(Peer(x))
<1>1. Typed
  BY DEF StreamInv, ToldInv
<1>2. CASE UNCHANGED vars \/ LinkFails
  BY <1>2 DEF vars, LinkFails
<1>3. ASSUME NEW e \in Ends, StreamStep(e) \/ StillUser(e) \/ StillEvent(e) \/ StillIntr(e) PROVE wire' = wire
  BY <1>3, Zenon DEF StreamStep, CreateStream, ChooseStream, UseClose, UseData, NotifyNewStream, RetireDown,
       RetireRemote, HangUp, StillUser, Stop, StopJoin, StillEvent, FindCallback, NoCallback, NotifyClosing,
       NotifyInterrupted, Join, StillIntr, CloseProvider, PostInterrupted, PostJoin
<1>4. ASSUME NEW e \in Ends, NEW i \in IDs, RecordOp(e, i) PROVE wire' = wire
  BY <1>4 DEF RecordOp, WriteDown, CloseStream, CloseItem, ServeDown, DestroySource
<1>5. ASSUME NEW e \in Ends, ReadFails(e) \/ UseFails(e) \/ UseInactive(e) \/ PostUp(e) PROVE wire' = wire
  BY <1>5 DEF ReadFails, UseFails, UseInactive, PostUp
<1>6. ASSUME NEW e \in Ends, ReadHeader(e) PROVE wire'[x] = wire[x] \/ ReadHeader(Peer(x))
  <2>1. x = Peer(e) => e = Peer(x)
    BY PeerOfPeer
  <2>2. wire' = [wire EXCEPT ![Peer(e)] = Tail(@)]
    BY <1>6 DEF ReadHeader
  <2> QED
    BY <1>1, <1>6, <2>1, <2>2, EndTypes
<1>7. ASSUME NEW e \in Ends, SendChunk(e) \/ SendClose(e)
      PROVE  wire'[x] = wire[x] \/ SendChunk(x) \/ SendClose(x)
  <2>1. wire' = wire \/ \E m : wire' = [wire EXCEPT ![e] = Append(@, m)]
    BY <1>7 DEF SendChunk, SendClose, Send
  <2> QED
    BY <1>1, <1>7, <2>1, EndTypes
<1> QED
  BY <1>2, <1>3, <1>4, <1>5, <1>6, <1>7, StepCases DEF StillStep, StillDown, StillUp

LEMMA AllQuieter ==
  ASSUME Disciplined, StreamInv, [Next]_vars
  PROVE  Quieter
<1>1. Typed
  BY DEF StreamInv, ToldInv
<1>2. ASSUME NEW x \in Ends, Acts(x), active'[x] PROVE active[x]
  <2>1. CASE StillStep(x)
    BY <1>1, <1>2, <2>1, StillEffect DEF Quieter
  <2>2. CASE StreamStep(x)
    BY <1>2, <2>2, ChooseEffect, CreateEffect, Zenon
       DEF StreamStep, UseClose, UseData, NotifyNewStream, RetireDown, RetireRemote, HangUp, Quieter
  <2>3. ASSUME NEW i \in IDs, RecordOp(x, i) PROVE active' = active
    BY <2>3 DEF RecordOp, WriteDown, CloseStream, CloseItem, ServeDown, DestroySource
  <2> QED
    BY <1>2, <2>1, <2>2, <2>3 DEF Acts
<1> QED
  BY <1>2, OneActs DEF Quieter, SameEnd

-----------------------------------------------------------------------------
(* Each step keeps what a reader has got, and what a closed stream keeps.     *)
LEMMA NoMoreAfterClose ==
  ASSUME StreamInv, NEW e \in Ends, NEW i \in IDs
  PROVE  /\ Handed(e, i) => ~WriteDown(e, i) /\ ~CloseStream(e, i)
         /\ ~Owns(e, i) => ~Handed(e, i) /\ ~CloseItem(e, i) /\ ~str[e][i].userClosed
<1>1. RecordAt(e, i)
  BY DEF StreamInv, FlowInv
<1>2. Handed(e, i) => str[e][i].user = "closed" /\ Owns(e, i)
  BY <1>1 DEF RecordAt
<1>3. CloseItem(e, i) => Handed(e, i)
  BY DEF CloseItem, Handed
<1> QED
  BY <1>2, <1>3 DEF WriteDown, CloseStream, Handed

LEMMA ReaderStep ==
  ASSUME Disciplined, StreamInv, [Next]_vars, NEW x \in Ends, NEW j \in IDs
  PROVE  ReaderAt(x, j)'
<1> DEFINE s == str[x][j]
           r == str'[x][j]
           q == str[Peer(x)][j]
           t == str'[Peer(x)][j]
<1>1. Typed /\ Peer(x) \in Ends /\ ReaderAt(x, j) /\ Change(x, j) /\ Change(Peer(x), j)
  BY PeerOfPeer, ChangeStep DEF StreamInv, ToldInv, FlowInv
<1>2. /\ q.wrote \in Nat /\ t.wrote \in Nat /\ q.wrote <= t.wrote /\ s.up \in Seq(Bytes)
      /\ Len(s.up) \in Nat
  <2>1. Typed'
    BY <1>1, TypeStep
  <2>2. t \in Stream
    BY <1>1, <2>1, NextStream
  <2>3. t.wrote \in Nat
    BY <2>2, RecordValues
  <2> QED
    BY <1>1, <2>3, StreamTypes, Zenon DEF Change
<1>3. Len(r.up) <= t.wrote /\ \A k \in 1..Len(r.up) : r.up[k] = k
  <2>1. CASE r.up = s.up
    BY <1>1, <1>2, <2>1 DEF ReaderAt
  <2>2. CASE UseData(x) /\ j = ut[x].id /\ r.up = s.up \o ut[x].chunk
    <3>1. active[x] /\ Reading(x) /\ ut[x].chunk # <<>> /\ j = ut[x].id
      BY <2>2, Zenon DEF UseData, Reading
    <3>2. /\ Len(s.up) + Len(ut[x].chunk) <= q.wrote
          /\ \A k \in 1..Len(ut[x].chunk) : ut[x].chunk[k] = Len(s.up) + k
      BY <3>1, InHandFacts, Zenon
    <3>3. ut[x].chunk \in Seq(Bytes) /\ Len(ut[x].chunk) \in Nat
      BY <1>1, MessagesInHand
    <3>4. PICK n \in Nat : n = Len(s.up)
      BY <1>2
    <3>5. PICK m \in Nat : m = Len(ut[x].chunk)
      BY <3>3
    <3>6. /\ Len(r.up) = n + m /\ \A k \in 1..n : r.up[k] = s.up[k]
          /\ \A k \in 1..m : r.up[n + k] = ut[x].chunk[k]
      <4>1. PICK c \in Seq(Bytes) : c = ut[x].chunk
        BY <3>3
      <4>2. /\ Len(s.up \o c) = Len(s.up) + Len(c)
            /\ \A k \in 1..Len(s.up) : (s.up \o c)[k] = s.up[k]
            /\ \A k \in 1..Len(c) : (s.up \o c)[Len(s.up) + k] = c[k]
        BY <1>2, JoinedPipes
      <4>3. r.up = s.up \o c
        BY <2>2, <4>1, Zenon
      <4> QED
        BY <3>4, <3>5, <4>1, <4>2, <4>3
    <3>7. n + m <= q.wrote
      BY <3>2, <3>4, <3>5
    <3>8. Len(r.up) <= t.wrote
      BY <1>2, <3>6, <3>7
    <3>9. ASSUME NEW k \in 1..n + m PROVE r.up[k] = k
      <4>1. CASE k <= n
        BY <1>1, <3>4, <3>6, <4>1 DEF ReaderAt
      <4>2. CASE ~(k <= n)
        <5>1. PICK l \in 1..m : k = n + l
          <6>1. k - n \in 1..m /\ k = n + (k - n)
            BY <4>2
          <6> QED
            BY <6>1
        <5> QED
          BY <3>2, <3>4, <3>5, <3>6, <5>1
      <4> QED
        BY <4>1, <4>2
    <3> QED
      BY <3>6, <3>8, <3>9
  <2> QED
    BY <1>1, <2>1, <2>2, Zenon DEF Change
<1>4. ~Owns(x, j) /\ r.info # "none" => t.info # "none"
  BY <1>1, Zenon DEF Change, ReaderAt
<1> QED
  BY <1>3, <1>4 DEF ReaderAt

LEMMA SettledKept ==
  ASSUME Disciplined, StreamInv, [Next]_vars, NEW x \in Ends, NEW j \in IDs, Owns(x, j),
         SettledAt(x, j), Handed(x, j)
  PROVE  SettledAt(x, j)'
<1> DEFINE p == Peer(x)
           s == str[x][j]
           r == str'[x][j]
           q == str[p][j]
           t == str'[p][j]
<1>1. Typed /\ p \in Ends /\ Change(x, j) /\ Change(p, j) /\ ~Owns(p, j) /\ Peer(p) = x
      /\ RecordAt(p, j) /\ ReaderAt(p, j)
  BY PeerOfPeer, ChangeStep DEF StreamInv, ToldInv, FlowInv
<1>2. /\ Len(s.up) = q.wrote /\ q.down = <<>>
      /\ s.wrote = 0 \/ q.user = "closed" \/ q.wrote = MaxReplies
  BY DEF SettledAt
<1>3. ~WriteDown(x, j) /\ ~CloseItem(p, j) /\ ~ServeDown(p, j)
  BY <1>1, <1>2, NoMoreAfterClose DEF ServeDown
<1>4. s.wrote = 0 => q.up = <<>> /\ q.user = "none"
  <2>1. q.up \in Seq(Bytes) /\ Len(q.up) \in Nat
    BY <1>1, StreamTypes
  <2>2. s.wrote = 0 => Len(q.up) = 0
    BY <1>1, <2>1 DEF ReaderAt
  <2>3. s.wrote = 0 => q.up = <<>>
    BY <2>1, <2>2, EmptySeq
  <2> QED
    BY <1>1, <2>3 DEF RecordAt
<1>5. ~WriteDown(p, j)
  <2>1. q.wrote \in Nat /\ MaxReplies \in Nat
    BY <1>1, StreamTypes, PlexerAssumption DEF PlexerAssumption
  <2>2. q.user = "open" => ~q.local
    BY <1>1 DEF RecordAt, NoStream
  <2> QED
    BY <1>2, <1>4, <2>1, <2>2 DEF WriteDown
<1>6. t.wrote = q.wrote /\ t.down = <<>>
  BY <1>1, <1>2, <1>3, <1>5, Zenon DEF Change, SamePipe
<1>7. ~(UseData(x) /\ j = ut[x].id)
  <2>1. SUFFICES ASSUME UseData(x), j = ut[x].id PROVE FALSE
    OBVIOUS
  <2>2. active[x] /\ Reading(x) /\ ut[x].chunk # <<>>
    BY <2>1 DEF UseData, Reading
  <2>3. Len(s.up) < q.wrote
    BY <2>1, <2>2, InHandFacts, Zenon
  <2>4. q.wrote \in Nat
    BY <1>1, StreamTypes
  <2> QED
    BY <1>2, <2>3, <2>4
<1>8. r.up = s.up /\ r.wrote = s.wrote
  BY <1>1, <1>3, <1>7, Zenon DEF Change
<1>9. r.wrote = 0 \/ t.user = "closed" \/ t.wrote = MaxReplies
  BY <1>1, <1>2, <1>6, <1>8, Zenon DEF Change
<1> QED
  BY <1>2, <1>6, <1>8, <1>9 DEF SettledAt

LEMMA SettledAtClose ==
  ASSUME StreamInv, ClosesSettled, NEW x \in Ends, NEW j \in IDs, Owns(x, j), ~Handed(x, j), Handed(x, j)',
         CloseStream(x, j)
  PROVE  SettledAt(x, j)'
<1> DEFINE p == Peer(x)
           s == str[x][j]
           r == str'[x][j]
           q == str[p][j]
           t == str'[p][j]
<1>1. Typed /\ p \in Ends /\ ~Owns(p, j) /\ Peer(p) = x /\ p # x /\ PathAt(p, j)
  BY PeerOfPeer DEF StreamInv, ToldInv, FlowInv
<1>2. /\ Only(x, j) /\ SamePipe(s, r) /\ SameReader(s, r)
  BY <1>1, CloseEffect
<1>3. t = q
  BY <1>1, <1>2 DEF Only
<1>4. HandsClose(x, j) /\ MayClose(x, j)
  <2>1. /\ closeReq' = IF HandsClose(x, j) THEN [closeReq EXCEPT ![x] = @ \cup {j}] ELSE closeReq
        /\ MayClose(x, j)
    BY DEF CloseStream
  <2>2. ~HandsClose(x, j) => (Handed(x, j)' <=> Handed(x, j))
    BY <1>2, <2>1 DEF Handed, SamePipe
  <2> QED
    BY <2>1, <2>2
<1>5. Settled(x, j)
  BY <1>4 DEF HandsClose, MayClose, ClosesSettled
<1>6. /\ Len(s.up) = q.wrote /\ s.wrote \in Nat
      /\ s.wrote > 0 => q.user = "closed" \/ q.wrote = MaxReplies
  BY <1>1, <1>5, StreamTypes DEF Settled, Answered
<1>7. q.down = <<>>
  <2>1. \E a, b, d \in Positions : Path(p, j, a, b, d)
    BY <1>1, <1>4 DEF PathAt, HandsClose
  <2>2. Got(x, j) <= Sent(p, j)
    <3>1. PICK a \in Positions, b \in Positions, d \in Positions : Path(p, j, a, b, d)
      BY <2>1
    <3>2. Got(x, j) <= a /\ a <= b /\ b <= d /\ d <= Sent(p, j)
      BY <1>1, <3>1, PathOrder
    <3> QED
      BY <1>1, <3>2, PositionFacts, PositionValues
  <2>3. s \in Stream /\ q \in Stream /\ ~q.userClosed
    BY <1>1, StreamTypes, NoMoreAfterClose
  <2>4. /\ FinalOf(q) = q.wrote /\ SentOf(q) = FinalOf(q) - Len(q.down) /\ q.wrote \in Nat
        /\ Len(q.down) \in Nat /\ GotOf(s) >= Len(s.up) /\ GotOf(s) \in Nat
    BY <2>3, RecordValues
  <2>5. Len(q.down) = 0
    <3>1. PICK l \in Nat : l = Len(q.down)
      BY <2>4
    <3>2. PICK w \in Nat : w = q.wrote
      BY <2>4
    <3>3. w <= GotOf(s) /\ GotOf(s) <= w - l /\ GotOf(s) \in Nat
      BY <1>6, <2>2, <2>4, <3>1, <3>2 DEF Got, Sent
    <3>4. l = 0
      BY <3>3
    <3> QED
      BY <3>1, <3>4
  <2> QED
    BY <1>1, <2>5, EmptySeq, StreamTypes
<1> QED
  BY <1>2, <1>3, <1>6, <1>7 DEF SettledAt, SamePipe, SameReader

LEMMA SettledStep ==
  ASSUME Disciplined, StreamInv, [Next]_vars
  PROVE  SettledInv'
<1> SUFFICES ASSUME ClosesSettled, NEW x \in Ends, NEW j \in IDs, Owns(x, j) PROVE SettledAt(x, j)'
  BY DEF SettledInv
<1>1. SettledAt(x, j) /\ Change(x, j)
  BY ChangeStep DEF StreamInv, SettledInv
<1>2. CASE Handed(x, j)
  BY <1>1, <1>2, SettledKept
<1>3. CASE ~Handed(x, j) /\ Handed(x, j)'
  BY <1>1, <1>3, SettledAtClose DEF Change
<1>4. CASE ~Handed(x, j)'
  BY <1>4 DEF SettledAt
<1> QED
  BY <1>2, <1>3, <1>4

-----------------------------------------------------------------------------
(* Each step keeps an end's own counters and its down thread's stream.        *)
LEMMA WhoServes ==
  ASSUME Disciplined, StreamInv, [Next]_vars, NEW x \in Ends
  PROVE  /\ \/ dn'[x] = dn[x] \/ SendChunk(x) \/ SendClose(x) \/ RetireDown(x)
            \/ \E i \in IDs : ServeDown(x, i)
         /\ open'[x] = open[x] \/ CloseProvider(x)
         /\ (lastID'[x] = lastID[x] /\ creates'[x] = creates[x]) \/ CreateStream(x)
<1>1. CASE SameEnd(x)
  BY <1>1 DEF SameEnd
<1>2. CASE StillUser(x) \/ StillUp(x) \/ StillEvent(x) \/ PostInterrupted(x) \/ PostJoin(x)
  BY <1>2 DEF StillUser, StillUp, StillEvent, Stop, StopJoin, ReadHeader, ReadFails,
     UseFails, UseInactive, PostUp, FindCallback, NoCallback, NotifyClosing, NotifyInterrupted, Join,
     PostInterrupted, PostJoin
<1>3. CASE CloseProvider(x)
  BY <1>3, Zenon DEF CloseProvider
<1>4. CASE SendChunk(x) \/ SendClose(x)
  BY <1>4 DEF SendChunk, SendClose
<1>5. CASE StreamStep(x)
  BY <1>5, Zenon DEF StreamStep, CreateStream, ChooseStream, UseClose, UseData, NotifyNewStream, RetireDown,
       RetireRemote, HangUp
<1>6. ASSUME NEW i \in IDs, RecordOp(x, i)
      PROVE  /\ dn'[x] = dn[x] \/ ServeDown(x, i)
             /\ open'[x] = open[x] /\ lastID'[x] = lastID[x] /\ creates'[x] = creates[x]
  BY <1>6, Zenon DEF RecordOp, WriteDown, CloseStream, CloseItem, ServeDown, DestroySource, threadVars
<1> QED
  BY <1>1, <1>2, <1>3, <1>4, <1>5, <1>6, OneActs DEF Acts, StillStep, StillDown, StillIntr

(* The marker alone in a pipe is its end.                                     *)
LEMMA MarkerIsLast ==
  ASSUME StreamInv, Typed', NEW e \in Ends, NEW i \in IDs, ServeDown(e, i), dn'[e].pc # "send"
  PROVE  str'[e][i].userClosed /\ str'[e][i].down = <<>> /\ dn'[e].pc = "sendClose"
         /\ Sent(e, i)' = Final(e, i)' /\ Sent(e, i) = str[e][i].wrote
<1> DEFINE s == str[e][i]
           r == str'[e][i]
<1>1. Typed /\ PipeAt(e, i) /\ r.userClosed = s.userClosed /\ r.wrote = s.wrote /\ PipeAt(e, i)'
  BY ServeEffect, ServeKeeps DEF StreamInv, ToldInv, FlowInv
<1>2. PICK n \in Nat : /\ SentOf(r) = SentOf(s) + n /\ 0 <= SentOf(s) /\ n <= Len(s.down)
                       /\ dn'[e].pc = IF s.userClosed /\ n = 1 /\ s.down[1] = Marker THEN "sendClose" ELSE "send"
  BY ServeKeeps DEF Sent
<1>3. s.userClosed /\ n = 1 /\ s.down[1] = Marker /\ dn'[e].pc = "sendClose"
  BY <1>2
<1>4. s \in Stream /\ r \in Stream
  BY <1>1, StreamTypes, NextStream
<1>5. /\ s.wrote \in Nat /\ SentOf(s) \in Int /\ SentOf(s) <= FinalOf(s) /\ FinalOf(s) = s.wrote + 1
      /\ Len(s.down) \in Nat /\ FinalOf(r) = r.wrote + 1 /\ SentOf(r) = FinalOf(r) - Len(r.down)
      /\ SentOf(r) <= FinalOf(r) /\ Len(r.down) \in Nat
  BY <1>1, <1>3, <1>4, RecordValues
<1>6. ~(SentOf(s) + 1 <= s.wrote)
  <2>1. 1 \in 1..Len(s.down)
    BY <1>2, <1>3, <1>5
  <2>2. s.down[1] = IF SentOf(s) + 1 <= s.wrote THEN SentOf(s) + 1 ELSE Marker
    BY <1>1, <2>1 DEF PipeAt, Sent
  <2>3. SentOf(s) + 1 # 0
    BY <1>2, <1>5
  <2> QED
    BY <1>3, <2>2, <2>3 DEF Marker
<1>7. PICK w \in Nat : w = s.wrote
  BY <1>5
<1>8. PICK z \in Int : z = SentOf(s)
  BY <1>5
<1>9. PICK l \in Nat : l = Len(r.down)
  BY <1>5
<1>10. z + 1 = (w + 1) - l /\ ~(z + 1 <= w) /\ z <= w + 1
  BY <1>1, <1>2, <1>3, <1>5, <1>6, <1>7, <1>8, <1>9
<1>11. l = 0 /\ z = w
  BY <1>10
<1>12. r.down = <<>>
  <2>1. r.down \in Seq(Bytes)
    BY <1>4 DEF Stream
  <2> QED
    BY <1>9, <1>11, <2>1, EmptySeq
<1>13. SentOf(r) = FinalOf(r) /\ SentOf(s) = s.wrote
  BY <1>1, <1>2, <1>3, <1>5, <1>7, <1>8, <1>11
<1> QED
  BY <1>1, <1>3, <1>12, <1>13 DEF Sent, Final

LEMMA EndStep ==
  ASSUME Disciplined, StreamInv, [Next]_vars, NEW x \in Ends
  PROVE  EndAt(x)'
<1>1. Typed /\ Typed' /\ EndAt(x) /\ Quieter
  BY TypeStep, AllQuieter DEF StreamInv, ToldInv, FlowInv
<1>2. active'[x] => open'[x]
  <2>1. CloseProvider(x) => ~active[x]
    BY DEF CloseProvider, IntrStep, StreamInv, ToldInv, OnceAt
  <2> QED
    BY <1>1, <2>1, WhoServes DEF EndAt, Quieter
<1>3. lastID'[x] = IF creates'[x] = 0 THEN MaxID - (IF MyStreamsEven(x) THEN 1 ELSE 0)
                   ELSE 2 * creates'[x] - (IF MyStreamsEven(x) THEN 2 ELSE 1)
  <2>1. CASE lastID'[x] = lastID[x] /\ creates'[x] = creates[x]
    BY <1>1, <2>1 DEF EndAt
  <2>2. CASE CreateStream(x)
    <3>1. /\ creates[x] \in Nat /\ creates'[x] = creates[x] + 1
          /\ lastID'[x] = 2 * (creates[x] + 1) - (IF MyStreamsEven(x) THEN 2 ELSE 1)
      BY <2>2, CreateEffect
    <3>2. creates'[x] # 0
      BY <3>1
    <3> QED
      BY <3>1, <3>2
  <2> QED
    BY <2>1, <2>2, WhoServes
<1>4. SUFFICES ASSUME dn'[x].pc \in {"sendClose", "retire"}
               PROVE  str'[x][dn'[x].id].userClosed /\ str'[x][dn'[x].id].down = <<>>
  BY <1>2, <1>3 DEF EndAt
<1>5. ASSUME NEW i \in IDs, i = dn[x].id, dn[x].pc \in {"sendClose", "retire"}
      PROVE  str'[x][i].userClosed /\ str'[x][i].down = <<>>
  <2>1. Handed(x, i) /\ str[x][i].userClosed /\ str[x][i].down = <<>>
    BY <1>5, RetiredDown DEF Handed
  <2>2. ~WriteDown(x, i) /\ ~CloseItem(x, i) /\ ~ServeDown(x, i)
    BY <1>5, <2>1, NoMoreAfterClose DEF CloseItem, ServeDown
  <2>3. Change(x, i)
    BY ChangeStep
  <2> QED
    BY <2>1, <2>2, <2>3 DEF Change, SamePipe
<1>6. PICK i \in IDs : i = dn[x].id
  BY <1>1, MessagesInHand
<1>7. CASE dn'[x] = dn[x]
  BY <1>4, <1>5, <1>6, <1>7
<1>8. CASE SendChunk(x) \/ RetireDown(x)
  <2>1. dn'[x] = Idle
    BY <1>1, <1>8, EndTypes DEF SendChunk, RetireDown
  <2> QED
    BY <1>4, <2>1 DEF Idle
<1>9. CASE SendClose(x)
  <2>1. dn[x].pc = "sendClose" /\ dn' = [dn EXCEPT ![x].pc = "retire"]
    BY <1>9 DEF SendClose
  <2>2. dn'[x].id = i
    BY <1>1, <1>6, <2>1 DEF Typed, DownWork
  <2> QED
    BY <1>5, <1>6, <2>1, <2>2
<1>10. ASSUME NEW k \in IDs, ServeDown(x, k) PROVE str'[x][dn'[x].id].userClosed /\ str'[x][dn'[x].id].down = <<>>
  <2>1. dn'[x].id = k
    BY <1>1, <1>10, ServeEffect
  <2> QED
    BY <1>1, <1>4, <1>10, <2>1, MarkerIsLast
<1> QED
  BY <1>7, <1>8, <1>9, <1>10, WhoServes
=============================================================================
