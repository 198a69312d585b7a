--------------------------- MODULE PlexerFlowProofs ----------------------------
(***************************************************************************)
(* The streams of Plexer, for any number of streams and writes and every   *)
(* failure: what is written at one end arrives at the other in order, end  *)
(* of file comes last, the user is called back in order, no stream's user  *)
(* info is used after it was freed, and nobody is interrupted without a    *)
(* cause.  PlexerStreamProofs says what is asked of the users for that.    *)
(***************************************************************************)
EXTENDS PlexerStreamProofs

-----------------------------------------------------------------------------
(* Each step keeps the path from one end's pipe to the other's reader.        *)
LEMMA WhoReads ==
  ASSUME Disciplined, StreamInv, [Next]_vars, NEW p \in Ends, active'[p]
  PROVE  \/ ut'[p] = ut[p] \/ (~Reading(p) /\ ~Reading(p)')
         \/ ChooseStream(p) \/ ReadHeader(p) \/ UseClose(p) \/ UseData(p)
<1>1. Typed
  BY DEF StreamInv, ToldInv
<1>2. CASE SameEnd(p)
  BY <1>2 DEF SameEnd
<1>3. CASE \/ StillUser(p) \/ StillDown(p) \/ StillIntr(p) \/ ReadFails(p)
           \/ FindCallback(p) \/ NotifyClosing(p) \/ NotifyInterrupted(p)
  BY <1>3 DEF StillUser, Stop, StopJoin, StillDown, SendChunk, SendClose, StillIntr, CloseProvider,
     PostInterrupted, PostJoin, ReadFails, FindCallback, NotifyClosing, NotifyInterrupted, Answer
<1>4. CASE UseFails(p) \/ UseInactive(p)
  BY <1>1, <1>4 DEF UseFails, UseInactive, Interrupt, Typed
<1>5. CASE PostUp(p)
  <2>1. ut'[p].pc = "await" /\ ut[p].pc = "post"
    BY <1>1, <1>5 DEF PostUp, Typed, UpWork
  <2> QED
    BY <2>1 DEF Reading
<1>6. CASE NoCallback(p) \/ Join(p) \/ RetireRemote(p) \/ NotifyNewStream(p)
  <2>1. ev[p] # <<>>
    BY <1>6, Zenon DEF NoCallback, Join, RetireRemote, NotifyNewStream, Running
  <2>2. Head(ev[p]) = ev[p][1] /\ 1 \in 1..Len(ev[p])
    BY <1>1, <2>1, HeadFacts
  <2>3. Head(ev[p]).by = "up" => ut[p].pc = "await"
    BY <2>2 DEF StreamInv, FlowInv, EventsAt
  <2>4. \/ ut' = ut
        \/ /\ ut' = [ut EXCEPT ![p] = Idle]
           /\ Head(ev[p]).by = "up" \/ RetireRemote(p) \/ NotifyNewStream(p)
    BY <1>6, Zenon DEF NoCallback, Join, RetireRemote, NotifyNewStream, Answer
  <2>5. RetireRemote(p) \/ NotifyNewStream(p) => ut[p].pc = "await"
    BY HeadOfUp, Zenon DEF RetireRemote, NotifyNewStream, Opening, Closing
  <2>6. CASE ut' = ut
    BY <2>6
  <2>7. CASE ut' = [ut EXCEPT ![p] = Idle] /\ ut[p].pc = "await"
    <3>1. ut'[p].pc = "idle"
      BY <1>1, <2>7 DEF Typed, Idle
    <3> QED
      BY <2>7, <3>1 DEF Reading
  <2> QED
    BY <2>3, <2>4, <2>5, <2>6, <2>7
<1>7. CASE CreateStream(p) \/ RetireDown(p) \/ HangUp(p)
  <2>1. ut' = ut
    BY <1>7, Zenon DEF CreateStream, RetireDown, HangUp
  <2> QED
    BY <2>1
<1>8. ASSUME NEW i \in IDs, RecordOp(p, i) PROVE ut'[p] = ut[p]
  BY <1>8 DEF RecordOp, WriteDown, CloseStream, CloseItem, ServeDown, DestroySource, threadVars
<1> QED
  BY <1>2, <1>3, <1>4, <1>5, <1>6, <1>7, <1>8, OneActs
     DEF Acts, StillStep, StillUp, StillEvent, StreamStep

(* What it takes for a path to be there after a step.                         *)
LEMMA PathMade ==
  ASSUME NEW x \in Ends, NEW j \in IDs, NEW p, p = Peer(x), NEW last, last = str'[x][j].wrote,
         NEW g, g = Got(p, j)', NEW z, z = Sent(x, j)',
         NEW a \in Positions, NEW b \in Positions, NEW d \in Positions,
         Hand(p, j, last, g, a)', Flow(wire'[x], j, last, a, b), Out(x, j, last, b, d)',
         d <= z, active'[x] => d = z, str'[p][j].eof => Len(str'[p][j].up) = last
  PROVE  PathAt(x, j)'
<1>1. Path(x, j, a, b, d)'
  BY DEF Path
<1> QED
  BY <1>1 DEF PathAt

(* ... and what there was before it.                                          *)
LEMMA PathThere ==
  ASSUME StreamInv, NEW x \in Ends, NEW j \in IDs, NEW p, p = Peer(x), active[p]
  PROVE  /\ str[p][j].eof => Len(str[p][j].up) = str[x][j].wrote
         /\ \E a, b, d \in Positions :
              /\ Hand(p, j, str[x][j].wrote, Got(p, j), a)
              /\ Flow(wire[x], j, str[x][j].wrote, a, b)
              /\ Out(x, j, str[x][j].wrote, b, d)
              /\ d <= Sent(x, j) /\ (active[x] => d = Sent(x, j))
BY DEF StreamInv, FlowInv, PathAt, Path

SameHand(p) == (Reading(p)' <=> Reading(p)) /\ (Reading(p) => InHand(p)' = InHand(p))
SameOut(x) == (Holding(x)' <=> Holding(x)) /\ (Holding(x) => Outgoing(x)' = Outgoing(x))

LEMMA HandOutKept ==
  ASSUME NEW x, NEW j, NEW last, NEW a, NEW b
  PROVE  /\ SameHand(x) => (Hand(x, j, last, a, b)' <=> Hand(x, j, last, a, b))
         /\ SameOut(x) => (Out(x, j, last, a, b)' <=> Out(x, j, last, a, b))
         /\ ut'[x] = ut[x] => SameHand(x)
         /\ dn'[x] = dn[x] => SameOut(x)
BY DEF SameHand, SameOut, Hand, Out, Reading, Holding, InHand, Outgoing

LEMMA PathFrame ==
  ASSUME StreamInv, Quieter, NEW x \in Ends, NEW j \in IDs, NEW p, p = Peer(x), active'[p],
         wire'[x] = wire[x], str'[x][j].wrote = str[x][j].wrote, Sent(x, j)' = Sent(x, j),
         SameReader(str[p][j], str'[p][j]), SameHand(p), SameOut(x)
  PROVE  PathAt(x, j)'
<1>1. active[p] /\ (active'[x] => active[x])
  BY PeerOfPeer DEF Quieter
<1>2. /\ str[p][j].eof => Len(str[p][j].up) = str[x][j].wrote
      /\ \E a, b, d \in Positions :
              /\ Hand(p, j, str[x][j].wrote, Got(p, j), a)
              /\ Flow(wire[x], j, str[x][j].wrote, a, b)
              /\ Out(x, j, str[x][j].wrote, b, d)
              /\ d <= Sent(x, j) /\ (active[x] => d = Sent(x, j))
  BY <1>1, PathThere
<1>3. PICK last : last = str[x][j].wrote
  OBVIOUS
<1>4. PICK g : g = Got(p, j)
  OBVIOUS
<1>5. PICK z : z = Sent(x, j)
  OBVIOUS
<1>6. PICK a \in Positions, b \in Positions, d \in Positions :
              /\ Hand(p, j, last, g, a) /\ Flow(wire[x], j, last, a, b)
              /\ Out(x, j, last, b, d) /\ d <= z /\ (active[x] => d = z)
  BY <1>2, <1>3, <1>4, <1>5
<1>7. g = Got(p, j)'
  BY <1>4 DEF Got, GotOf, SameReader
<1>8. Hand(p, j, last, g, a)' /\ Out(x, j, last, b, d)'
  BY <1>6, HandOutKept
<1> QED
  BY <1>1, <1>2, <1>3, <1>5, <1>6, <1>7, <1>8, PathMade DEF SameReader

(* A message written joins the wire behind the others, or is lost with the    *)
(* reader.                                                                    *)
LEMMA PathSend ==
  ASSUME StreamInv, Typed', Quieter, NEW x \in Ends, NEW j \in IDs, NEW p, p = Peer(x), active'[p],
         SendChunk(x) \/ SendClose(x)
  PROVE  PathAt(x, j)'
<1>1. active[p] /\ p \in Ends /\ Peer(p) = x /\ p # x /\ Typed /\ EndAt(p)
  BY PeerOfPeer DEF Quieter, StreamInv, ToldInv, FlowInv
<1>2. /\ str[p][j].eof => Len(str[p][j].up) = str[x][j].wrote
      /\ \E a, b, d \in Positions :
              /\ Hand(p, j, str[x][j].wrote, Got(p, j), a)
              /\ Flow(wire[x], j, str[x][j].wrote, a, b)
              /\ Out(x, j, str[x][j].wrote, b, d)
              /\ d <= Sent(x, j) /\ (active[x] => d = Sent(x, j))
  BY <1>1, PathThere
<1>3. str' = str /\ ut' = ut /\ open' = open
  BY DEF SendChunk, SendClose
<1>4. PICK last \in Nat : last = str[x][j].wrote
  BY <1>1, StreamTypes
<1>5. PICK g : g = Got(p, j)
  OBVIOUS
<1>6. PICK z \in Int : z = Sent(x, j)
  BY <1>1, PositionValues
<1>7. PICK a \in Positions, b \in Positions, d \in Positions :
              /\ Hand(p, j, last, g, a) /\ Flow(wire[x], j, last, a, b)
              /\ Out(x, j, last, b, d) /\ d <= z /\ (active[x] => d = z)
  BY <1>2, <1>4, <1>5, <1>6
<1>8. /\ g = Got(p, j)' /\ z = Sent(x, j)' /\ last = str'[x][j].wrote
      /\ str'[p][j].eof => Len(str'[p][j].up) = last
  BY <1>2, <1>3, <1>4, <1>5, <1>6 DEF Got, Sent
<1>9. Hand(p, j, last, g, a)'
  BY <1>3, <1>7, HandOutKept
<1>10. Carries(Outgoing(x), j, last, b, d) /\ Outgoing(x) \in Message /\ wire[x] \in Seq(Message)
  BY <1>1, <1>7, MessagesInHand, StreamTypes DEF Out, Holding, SendChunk, SendClose
<1>11. ~Holding(x)' /\ Outgoing(x) = [id |-> dn[x].id, chunk |-> IF SendChunk(x) THEN dn[x].chunk ELSE <<>>]
  <2>1. CASE SendChunk(x)
    <3>1. dn'[x] = Idle /\ dn[x].pc = "send"
      BY <1>1, <2>1 DEF SendChunk, Typed
    <3> QED
      BY <2>1, <3>1 DEF Holding, Outgoing, Idle
  <2>2. CASE SendClose(x)
    <3>1. dn'[x].pc = "retire" /\ dn[x].pc = "sendClose"
      BY <1>1, <2>2 DEF SendClose, Typed, DownWork
    <3>2. ~SendChunk(x)
      BY <3>1 DEF SendChunk
    <3> QED
      BY <3>1, <3>2 DEF Holding, Outgoing
  <2> QED
    BY <2>1, <2>2
<1>12. (wire' = wire /\ ~active'[x]) \/ wire'[x] = Append(wire[x], Outgoing(x))
  <2>1. open[p]
    BY <1>1 DEF EndAt
  <2>2. CASE SendChunk(x)
    <3>1. dn[x].pc = "send" /\ Outgoing(x) = [id |-> dn[x].id, chunk |-> dn[x].chunk]
      BY <1>11, <2>2 DEF SendChunk
    <3>2. \/ ~active[x] /\ wire' = wire /\ active' = active
          \/ WriteFails(x) /\ wire' = wire /\ Interrupt(x, "down")
          \/ wire' = [wire EXCEPT ![x] = Append(@, Outgoing(x))]
      BY <1>1, <2>1, <2>2, <3>1 DEF SendChunk, Send, NoInterrupt
    <3> QED
      BY <1>1, <3>2 DEF Interrupt, Typed
  <2>3. CASE SendClose(x)
    <3>1. Outgoing(x) = CloseMessage(dn[x].id)
      BY <1>11, <2>3 DEF SendClose, SendChunk, CloseMessage
    <3>2. \/ WriteFails(x) /\ wire' = wire /\ Interrupt(x, "down")
          \/ wire' = [wire EXCEPT ![x] = Append(@, Outgoing(x))]
      BY <1>1, <2>1, <2>3, <3>1 DEF SendClose, Send
    <3> QED
      BY <1>1, <3>2 DEF Interrupt, Typed
  <2> QED
    BY <2>2, <2>3
<1>13. active'[x] => active[x]
  BY DEF Quieter
<1>14. CASE wire' = wire /\ ~active'[x]
  <2>1. Out(x, j, last, b, b)'
    BY <1>11 DEF Out
  <2>2. b <= z
    <3>0. b \in Nat /\ d \in Nat /\ d <= z
      BY <1>7, PositionFacts
    <3>1. b <= d
      BY <1>4, <1>10, <3>0, CarriesOrder
    <3> QED
      BY <3>0, <3>1
  <2> QED
    BY <1>7, <1>8, <1>9, <1>14, <2>1, <2>2, PathMade
<1>15. CASE wire'[x] = Append(wire[x], Outgoing(x))
  <2>1. Flow(wire'[x], j, last, a, d)
    BY <1>4, <1>7, <1>10, <1>15, FlowAppend
  <2>2. Out(x, j, last, d, d)'
    BY <1>11 DEF Out
  <2> QED
    BY <1>7, <1>8, <1>9, <1>13, <2>1, <2>2, PathMade
<1> QED
  BY <1>12, <1>14, <1>15

(* The header read moves the first message into the up thread's hand.         *)
LEMMA PathRead ==
  ASSUME StreamInv, Typed', Quieter, NEW x \in Ends, NEW j \in IDs, NEW p, p = Peer(x), active'[p],
         ReadHeader(p)
  PROVE  PathAt(x, j)'
<1>1. active[p] /\ p \in Ends /\ Peer(p) = x /\ p # x /\ Typed
  BY PeerOfPeer DEF Quieter, StreamInv, ToldInv, FlowInv
<1>2. /\ str[p][j].eof => Len(str[p][j].up) = str[x][j].wrote
      /\ \E a, b, d \in Positions :
              /\ Hand(p, j, str[x][j].wrote, Got(p, j), a)
              /\ Flow(wire[x], j, str[x][j].wrote, a, b)
              /\ Out(x, j, str[x][j].wrote, b, d)
              /\ d <= Sent(x, j) /\ (active[x] => d = Sent(x, j))
  BY <1>1, PathThere
<1>3. str' = str /\ dn' = dn /\ active' = active /\ wire[x] # <<>> /\ ut[p].pc = "idle"
      /\ wire'[x] = Tail(wire[x])
      /\ ut'[p] = [Idle EXCEPT !.pc = "choose", !.id = Head(wire[x]).id, !.chunk = Head(wire[x]).chunk]
  BY <1>1 DEF ReadHeader, Typed
<1>4. PICK last \in Nat : last = str[x][j].wrote
  BY <1>1, StreamTypes
<1>5. PICK g : g = Got(p, j)
  OBVIOUS
<1>6. PICK z \in Int : z = Sent(x, j)
  BY <1>1, PositionValues
<1>7. PICK a \in Positions, b \in Positions, d \in Positions :
              /\ Hand(p, j, last, g, a) /\ Flow(wire[x], j, last, a, b)
              /\ Out(x, j, last, b, d) /\ d <= z /\ (active[x] => d = z)
  BY <1>2, <1>4, <1>5, <1>6
<1>8. /\ g = Got(p, j)' /\ z = Sent(x, j)' /\ last = str'[x][j].wrote
      /\ str'[p][j].eof => Len(str'[p][j].up) = last
  BY <1>2, <1>3, <1>4, <1>5, <1>6 DEF Got, Sent
<1>9. Out(x, j, last, b, d)'
  BY <1>3, <1>7, HandOutKept
<1>10. wire[x] \in Seq(Message)
  BY <1>1, StreamTypes
<1>11. PICK s \in Positions : Carries(Head(wire[x]), j, last, a, s) /\ Flow(Tail(wire[x]), j, last, s, b)
  BY <1>3, <1>7, <1>10, FlowTail
<1>12. a = g
  BY <1>3, <1>7 DEF Hand, Reading
<1>13. Reading(p)' /\ InHand(p)' = Head(wire[x])
  <2>1. Head(wire[x]) \in Message
    BY <1>3, <1>10, HeadTailProperties
  <2>2. ut'[p].pc = "choose" /\ ut'[p].id = Head(wire[x]).id /\ ut'[p].chunk = Head(wire[x]).chunk
    BY <1>3 DEF Idle
  <2> QED
    BY <2>1, <2>2 DEF Reading, InHand, Message
<1>14. Hand(p, j, last, g, s)'
  BY <1>11, <1>12, <1>13 DEF Hand
<1> QED
  BY <1>3, <1>7, <1>8, <1>9, <1>11, <1>14, PathMade

(* What the up thread had in hand is what the reader gets.                    *)
LEMMA PathUse ==
  ASSUME StreamInv, Typed', Quieter, NEW x \in Ends, NEW j \in IDs, NEW p, p = Peer(x), active'[p],
         UseData(p) \/ UseClose(p)
  PROVE  PathAt(x, j)'
<1>1. active[p] /\ p \in Ends /\ Peer(p) = x /\ p # x /\ Typed
  BY PeerOfPeer DEF Quieter, StreamInv, ToldInv, FlowInv
<1>2. /\ str[p][j].eof => Len(str[p][j].up) = str[x][j].wrote
      /\ \E a, b, d \in Positions :
              /\ Hand(p, j, str[x][j].wrote, Got(p, j), a)
              /\ Flow(wire[x], j, str[x][j].wrote, a, b)
              /\ Out(x, j, str[x][j].wrote, b, d)
              /\ d <= Sent(x, j) /\ (active[x] => d = Sent(x, j))
  BY <1>1, PathThere
<1>3. dn' = dn /\ active' = active /\ wire' = wire /\ Reading(p) /\ (UseClose(p) <=> ut[p].chunk = <<>>)
  BY DEF UseData, UseClose, Reading
<1>4. ~Reading(p)'
  <2>1. ut' = [ut EXCEPT ![p] = Idle] \/ ut' = [ut EXCEPT ![p] = [ut[p] EXCEPT !.pc = "post"]]
    BY DEF UseData, UseClose
  <2>2. Idle.pc = "idle" /\ [ut[p] EXCEPT !.pc = "post"].pc = "post"
    BY <1>1 DEF Idle, Typed, UpWork
  <2>3. ut'[p].pc \in {"idle", "post"}
    BY <1>1, <2>1, <2>2 DEF Typed
  <2> QED
    BY <2>3 DEF Reading
<1>5. PICK i \in IDs : i = ut[p].id
  BY <1>1, MessagesInHand
<1>6. Only(p, i)
  BY <1>1, <1>5, UseDataEffect, UseCloseEffect
<1>7. PICK last \in Nat : last = str[x][j].wrote
  BY <1>1, StreamTypes
<1>8. PICK g \in Nat : g = Got(p, j)
  BY <1>1, PositionValues
<1>9. PICK z \in Int : z = Sent(x, j)
  BY <1>1, PositionValues
<1>10. PICK a \in Positions, b \in Positions, d \in Positions :
              /\ Hand(p, j, last, g, a) /\ Flow(wire[x], j, last, a, b)
              /\ Out(x, j, last, b, d) /\ d <= z /\ (active[x] => d = z)
  BY <1>2, <1>7, <1>8, <1>9
<1>11. str'[x][j] = str[x][j]
  BY <1>1, <1>6 DEF Only
<1>12. z = Sent(x, j)' /\ last = str'[x][j].wrote /\ Out(x, j, last, b, d)'
       /\ Flow(wire'[x], j, last, a, b)
  BY <1>3, <1>7, <1>9, <1>10, <1>11, HandOutKept DEF Sent
<1>13. /\ Carries(InHand(p), j, last, g, a) /\ InHand(p) \in Message
       /\ InHand(p).id = i /\ InHand(p).chunk = ut[p].chunk
  BY <1>1, <1>3, <1>5, <1>10, MessagesInHand DEF Hand
<1>14. Got(p, j)' = a /\ (str'[p][j].eof => Len(str'[p][j].up) = last)
  <2>1. CASE j # i
    <3>1. str'[p][j] = str[p][j]
      BY <1>1, <1>6, <2>1 DEF Only
    <3>2. a = g
      BY <1>13, <2>1 DEF Carries
    <3> QED
      BY <1>2, <1>7, <1>8, <3>1, <3>2 DEF Got
  <2>2. CASE j = i
    <3> DEFINE s == str[p][j]
               r == str'[p][j]
    <3>1. s \in Stream /\ r \in Stream /\ s.up \in Seq(Bytes) /\ ut[p].chunk \in Seq(Bytes)
      BY <1>1, StreamTypes, NextStream, MessagesInHand
    <3>2. /\ ~s.eof /\ GotOf(s) = Len(s.up) /\ GotOf(s) = g
          /\ ut[p].chunk = <<>> => Len(s.up) = last
      <4>1. ~s.eof /\ (ut[p].chunk = <<>> => Len(s.up) = last)
        <5>1. ~str[p][i].eof /\ (ut[p].chunk = <<>> => Len(str[p][i].up) = str[Peer(p)][i].wrote)
          BY <1>1, <1>3, <1>5, InHandFacts, Zenon
        <5> QED
          BY <1>1, <1>7, <2>2, <5>1
      <4>2. GotOf(s) = Len(s.up)
        BY <3>1, <4>1, RecordValues
      <4> QED
        BY <1>8, <4>1, <4>2 DEF Got
    <3>3. CASE UseClose(p)
      <4>1. r.up = s.up /\ r.eof
        BY <1>1, <1>5, <2>2, <3>3, UseCloseEffect
      <4>2. GotOf(r) = Len(r.up) + 1
        BY <3>1, <4>1, RecordValues
      <4>3. a = last + 1 /\ Len(s.up) = last
        BY <1>3, <1>13, <2>2, <3>2, <3>3 DEF Carries, IsClose
      <4> QED
        BY <4>1, <4>2, <4>3 DEF Got
    <3>4. CASE UseData(p)
      <4>1. r.up = s.up \o ut[p].chunk /\ r.eof = s.eof /\ ut[p].chunk # <<>>
        <5>1. r.up = s.up \o ut[p].chunk /\ r.eof = s.eof
          BY <1>1, <1>5, <2>2, <3>4, UseDataEffect
        <5> QED
          BY <3>4, <5>1, Zenon DEF UseData
      <4>2. Len(r.up) = Len(s.up) + Len(ut[p].chunk)
        <5>1. PICK c \in Seq(Bytes) : c = ut[p].chunk
          BY <3>1
        <5>2. Len(s.up \o c) = Len(s.up) + Len(c)
          BY <3>1, JoinedPipes
        <5> QED
          BY <4>1, <5>1, <5>2
      <4>3. GotOf(r) = Len(r.up) /\ ~r.eof
        BY <3>1, <3>2, <4>1, RecordValues
      <4>4. a = g + Len(ut[p].chunk)
        BY <1>13, <2>2, <4>1 DEF Carries, IsClose
      <4> QED
        BY <3>2, <4>2, <4>3, <4>4, Zenon DEF Got
    <3> QED
      BY <3>3, <3>4
  <2> QED
    BY <2>1, <2>2
<1>15. Hand(p, j, last, a, a)'
  BY <1>4 DEF Hand
<1> QED
  BY <1>3, <1>10, <1>12, <1>14, <1>15, PathMade

(* What one read takes from the down pipe is the next message of its stream.  *)
LEMMA ServedCarries ==
  ASSUME Disciplined, StreamInv, Typed', NEW x \in Ends, NEW i \in IDs, ServeDown(x, i),
         NEW last, last = str[x][i].wrote, NEW z, z = Sent(x, i), NEW y, y = Sent(x, i)'
  PROVE  /\ Carries(Outgoing(x)', i, last, z, y) /\ y \in Positions /\ last = str'[x][i].wrote
         /\ Holding(x)' /\ Outgoing(x)'.id = i
<1> DEFINE s == str[x][i]
<1>1. Typed /\ PipeAt(x, i) /\ RecordAt(x, i) /\ s \in Stream /\ dn'[x].id = i /\ str'[x][i].wrote = s.wrote
      /\ dn'[x].pc \in {"send", "sendClose"}
  BY ServeEffect, StreamTypes DEF StreamInv, ToldInv, FlowInv
<1>2. PICK n \in Nat : /\ y = z + n /\ Len(dn'[x].chunk) = n /\ 0 <= z
                       /\ n <= ReadMax /\ n > 0
                       /\ \A k \in 1..n : dn'[x].chunk[k] = s.down[k]
                       /\ n <= Len(s.down)
                       /\ dn'[x].pc = IF s.userClosed /\ n = 1 /\ s.down[1] = Marker
                                          THEN "sendClose" ELSE "send"
  BY ServeKeeps
<1>3. /\ s.userClosed => FinalOf(s) = s.wrote + 1
      /\ ~s.userClosed => FinalOf(s) = s.wrote
      /\ z = FinalOf(s) - Len(s.down) /\ z \in Int
      /\ FinalOf(s) \in Nat /\ Len(s.down) \in Nat
  BY <1>1, RecordValues DEF Sent
<1>4. last \in 0..MaxWrites /\ last \in Nat
  BY <1>1, StreamTypes
<1>5. \A k \in 1..Len(s.down) : s.down[k] = IF z + k <= last THEN z + k ELSE Marker
  BY <1>1 DEF PipeAt
<1>6. CASE dn'[x].pc = "send"
  <2>1. z + n <= last
    <3>1. SUFFICES ASSUME ~(z + n <= last) PROVE FALSE
      OBVIOUS
    <3>2. PICK l \in Nat : l = Len(s.down)
      BY <1>3
    <3>3. PICK f \in Nat : f = FinalOf(s)
      BY <1>3
    <3>4. z = f - l /\ n <= l
      BY <1>2, <1>3, <3>2, <3>3
    <3>5. s.userClosed
      <4>1. SUFFICES ASSUME ~s.userClosed PROVE FALSE
        OBVIOUS
      <4>2. f = last
        BY <1>3, <3>3, <4>1
      <4> QED
        BY <1>3, <1>4, <3>1, <3>4, <4>2
    <3>6. f = last + 1
      BY <1>3, <3>3, <3>5
    <3>7. n = 1
      <4>1. CASE CloseRule = "free"
        <5>1. ReadMax = 1
          BY <4>1 DEF Disciplined, MarkerAlone
        <5> QED
          BY <1>2, <5>1
      <4>2. CASE CloseRule # "free"
        <5>1. z >= last
          BY <1>1, <3>5, <4>2 DEF PipeAt, Handed
        <5>2. z = f - l /\ n <= l /\ n > 0
          BY <1>2, <3>4
        <5> QED
          BY <1>4, <3>6, <5>1, <5>2
      <4> QED
        BY <4>1, <4>2
    <3>8. s.down[1] = Marker
      <4>1. 1 \in 1..Len(s.down) /\ ~(z + 1 <= last)
        BY <1>2, <1>3, <3>1, <3>7
      <4> QED
        BY <1>5, <4>1
    <3> QED
      BY <1>2, <1>6, <3>5, <3>7, <3>8
  <2>2. Outgoing(x)' = [id |-> i, chunk |-> dn'[x].chunk] /\ Holding(x)'
    BY <1>1, <1>6 DEF Outgoing, Holding
  <2>3. dn'[x].chunk # <<>>
    BY <1>2
  <2>4. \A k \in 1..Len(dn'[x].chunk) : dn'[x].chunk[k] = z + k
    <3> SUFFICES ASSUME NEW k \in 1..n PROVE dn'[x].chunk[k] = z + k
      BY <1>2
    <3>1. k \in 1..Len(s.down) /\ z + k <= last
      BY <1>2, <1>3, <1>4, <2>1
    <3> QED
      BY <1>2, <1>5, <3>1
  <2>5. Carries(Outgoing(x)', i, last, z, y)
    BY <1>2, <2>1, <2>2, <2>3, <2>4 DEF Carries, IsClose
  <2>6. y \in Positions
    <3>0. y = z + n /\ z \in Int /\ 0 <= z
      BY <1>2, <1>3
    <3>1. y \in 0..MaxWrites
      BY <1>4, <2>1, <3>0, ByteFacts
    <3> QED
      BY <3>1, PositionFacts
  <2> QED
    BY <1>1, <2>2, <2>5, <2>6
<1>7. CASE dn'[x].pc = "sendClose"
  <2>1. z = last /\ n = 1
    BY <1>1, <1>2, <1>7, MarkerIsLast
  <2>2. y = last + 1
    BY <1>2, <2>1
  <2>3. Outgoing(x)' = [id |-> i, chunk |-> <<>>] /\ Holding(x)'
    BY <1>1, <1>7 DEF Outgoing, Holding
  <2>4. Carries(Outgoing(x)', i, last, z, y)
    BY <2>1, <2>2, <2>3 DEF Carries, IsClose
  <2> QED
    BY <1>1, <1>4, <2>2, <2>3, <2>4, PositionFacts
<1> QED
  BY <1>1, <1>6, <1>7

LEMMA PathServe ==
  ASSUME Disciplined, StreamInv, Typed', Quieter, NEW x \in Ends, NEW j \in IDs, NEW p, p = Peer(x),
         active'[p], NEW i \in IDs, ServeDown(x, i)
  PROVE  PathAt(x, j)'
<1>1. active[p] /\ p \in Ends /\ Peer(p) = x /\ p # x /\ Typed
  BY PeerOfPeer DEF Quieter, StreamInv, ToldInv, FlowInv
<1>2. /\ str[p][j].eof => Len(str[p][j].up) = str[x][j].wrote
      /\ \E a, b, d \in Positions :
              /\ Hand(p, j, str[x][j].wrote, Got(p, j), a)
              /\ Flow(wire[x], j, str[x][j].wrote, a, b)
              /\ Out(x, j, str[x][j].wrote, b, d)
              /\ d <= Sent(x, j) /\ (active[x] => d = Sent(x, j))
  BY <1>1, PathThere
<1>3. ut' = ut /\ active' = active /\ wire' = wire /\ active[x] /\ ~Holding(x) /\ Only(x, i)
  BY <1>1, ServeEffect, Zenon DEF ServeDown, Holding
<1>4. PICK last \in Nat : last = str[x][j].wrote
  BY <1>1, StreamTypes
<1>5. PICK g : g = Got(p, j)
  OBVIOUS
<1>6. PICK z \in Int : z = Sent(x, j)
  BY <1>1, PositionValues
<1>7. PICK a \in Positions, b \in Positions, d \in Positions :
              /\ Hand(p, j, last, g, a) /\ Flow(wire[x], j, last, a, b)
              /\ Out(x, j, last, b, d) /\ d <= z /\ (active[x] => d = z)
  BY <1>2, <1>4, <1>5, <1>6
<1>8. b = z
  BY <1>3, <1>7 DEF Out
<1>9. str'[p][j] = str[p][j]
  BY <1>1, <1>3 DEF Only
<1>10. /\ g = Got(p, j)' /\ Hand(p, j, last, g, a)' /\ Flow(wire'[x], j, last, a, b)
       /\ str'[p][j].eof => Len(str'[p][j].up) = last
  BY <1>2, <1>3, <1>4, <1>5, <1>7, <1>9, HandOutKept DEF Got
<1>11. PICK y : y = Sent(x, j)'
  OBVIOUS
<1>12. CASE j = i
  <2>1. /\ Carries(Outgoing(x)', j, last, z, y) /\ y \in Positions /\ last = str'[x][j].wrote
        /\ Holding(x)'
    BY <1>4, <1>6, <1>11, <1>12, ServedCarries
  <2>2. Out(x, j, last, b, y)'
    BY <1>8, <2>1 DEF Out
  <2>3. y <= y
    BY <2>1, PositionFacts
  <2> QED
    BY <1>7, <1>10, <1>11, <2>1, <2>2, <2>3, PathMade
<1>13. CASE j # i
  <2>1. str'[x][j] = str[x][j]
    BY <1>3, <1>13 DEF Only
  <2>2. y = z /\ last = str'[x][j].wrote
    BY <1>4, <1>6, <1>11, <2>1 DEF Sent
  <2>3. Holding(x)' /\ Outgoing(x)'.id = i
    BY ServedCarries
  <2>4. Out(x, j, last, b, b)'
    BY <1>13, <2>3 DEF Out, Carries
  <2>5. b <= y
    BY <1>8, <2>2
  <2> QED
    BY <1>7, <1>8, <1>10, <1>11, <2>2, <2>4, <2>5, PathMade
<1> QED
  BY <1>12, <1>13

(* A write goes behind all that is on the path.                               *)
LEMMA PathWrite ==
  ASSUME StreamInv, Typed', Quieter, NEW x \in Ends, NEW j \in IDs, NEW p, p = Peer(x), active'[p],
         WriteDown(x, j)
  PROVE  PathAt(x, j)'
<1>1. active[p] /\ p \in Ends /\ Peer(p) = x /\ p # x /\ Typed
  BY PeerOfPeer DEF Quieter, StreamInv, ToldInv, FlowInv
<1> DEFINE s == str[x][j]
           r == str'[x][j]
<1>2. \E a, b, d \in Positions :
              /\ Hand(p, j, str[x][j].wrote, Got(p, j), a)
              /\ Flow(wire[x], j, str[x][j].wrote, a, b)
              /\ Out(x, j, str[x][j].wrote, b, d)
              /\ d <= Sent(x, j) /\ (active[x] => d = Sent(x, j))
  BY <1>1, PathThere
<1>3. ut' = ut /\ dn' = dn /\ active' = active /\ wire' = wire
  BY DEF WriteDown, threadVars
<1>4. /\ Only(x, j) /\ r.userClosed = s.userClosed /\ r.wrote = s.wrote + 1
      /\ r.down = Append(s.down, s.wrote + 1) /\ s.wrote \in 0..MaxWrites /\ s.wrote < MaxWrites
      /\ s.down \in Seq(Bytes)
  BY <1>1, WriteEffect, StreamTypes
<1>5. ~s.userClosed
  BY NoMoreAfterClose DEF Handed
<1>6. PICK last \in Nat : last = s.wrote
  BY <1>4
<1>7. PICK g \in Nat : g = Got(p, j)
  BY <1>1, PositionValues
<1>8. PICK z \in Int : z = Sent(x, j) /\ z <= last
  BY <1>1, <1>5, <1>6, PositionValues
<1>9. PICK a \in Positions, b \in Positions, d \in Positions :
              /\ Hand(p, j, last, g, a) /\ Flow(wire[x], j, last, a, b)
              /\ Out(x, j, last, b, d) /\ d <= z /\ (active[x] => d = z)
  BY <1>2, <1>6, <1>7, <1>8
<1>10. Sent(x, j)' = z
  <2>1. s \in Stream /\ r \in Stream
    BY <1>1, StreamTypes, NextStream
  <2>2. FinalOf(s) = s.wrote /\ SentOf(s) = FinalOf(s) - Len(s.down) /\ Len(s.down) \in Nat
        /\ FinalOf(r) = r.wrote /\ SentOf(r) = FinalOf(r) - Len(r.down)
    BY <1>4, <1>5, <2>1, RecordValues
  <2>3. Len(r.down) = Len(s.down) + 1
    <3>1. s.wrote + 1 \in Bytes
      BY <1>4, ByteFacts
    <3> QED
      BY <1>4, <3>1, AppendProperties
  <2>4. PICK l \in Nat : l = Len(s.down)
    BY <2>2
  <2>5. SentOf(s) = last - l /\ SentOf(r) = (last + 1) - (l + 1)
    BY <1>4, <1>6, <2>2, <2>3, <2>4
  <2> QED
    BY <1>8, <2>5 DEF Sent
<1>11. str'[p][j] = str[p][j] /\ Got(p, j)' = g /\ ~str[p][j].eof
  <2>1. str'[p][j] = str[p][j]
    BY <1>1, <1>4 DEF Only
  <2>2. ~str[p][j].eof
    BY <1>1, <1>5, EofFacts
  <2> QED
    BY <1>7, <2>1, <2>2 DEF Got
<1>12. a \in Nat /\ b \in Nat /\ d \in Nat /\ wire[x] \in Seq(Message) /\ InHand(p) \in Message
       /\ Outgoing(x) \in Message
  BY <1>1, PositionFacts, StreamTypes, MessagesInHand
<1>13. a <= b /\ b <= d /\ d <= last
  <2>1. a <= b
    BY <1>9, <1>12, FlowOrder
  <2>2. b <= d
    BY <1>6, <1>9, <1>12, CarriesOrder DEF Out
  <2>3. d <= last
    BY <1>6, <1>8, <1>9, <1>12
  <2> QED
    BY <2>1, <2>2, <2>3
<1>14. a <= last /\ b <= last
  BY <1>6, <1>12, <1>13
<1>15. Hand(p, j, last + 1, g, a)
  BY <1>6, <1>7, <1>9, <1>12, <1>14, CarriesGrow DEF Hand
<1>16. Out(x, j, last + 1, b, d)
  BY <1>6, <1>9, <1>12, <1>13, CarriesGrow DEF Out
<1>17. Flow(wire'[x], j, last + 1, a, b)
  BY <1>3, <1>6, <1>9, <1>12, <1>14, FlowGrow
<1>18. Hand(p, j, last + 1, g, a)' /\ Out(x, j, last + 1, b, d)'
  BY <1>3, <1>15, <1>16, HandOutKept
<1>19. last + 1 = r.wrote
  BY <1>4, <1>6
<1> QED
  BY <1>3, <1>9, <1>10, <1>11, <1>17, <1>18, <1>19, PathMade

LEMMA PathStep ==
  ASSUME Disciplined, StreamInv, [Next]_vars, NEW x \in Ends, NEW j \in IDs
  PROVE  PathAt(x, j)'
<1>1. PICK p \in Ends : p = Peer(x) /\ Peer(p) = x /\ p # x
  BY PeerOfPeer
<1>2. SUFFICES ASSUME active'[p] PROVE PathAt(x, j)'
  BY <1>1 DEF PathAt
<1>3. Typed /\ Typed' /\ Quieter /\ Change(x, j) /\ Change(p, j)
  BY TypeStep, AllQuieter, ChangeStep DEF StreamInv, ToldInv
<1>4. CASE SendChunk(x) \/ SendClose(x)
  BY <1>1, <1>2, <1>3, <1>4, PathSend
<1>5. CASE ReadHeader(p)
  BY <1>1, <1>2, <1>3, <1>5, PathRead
<1>6. CASE UseData(p) \/ UseClose(p)
  BY <1>1, <1>2, <1>3, <1>6, PathUse
<1>7. CASE \E i \in IDs : ServeDown(x, i)
  BY <1>1, <1>2, <1>3, <1>7, PathServe
<1>8. CASE WriteDown(x, j)
  BY <1>1, <1>2, <1>3, <1>8, PathWrite
<1>9. CASE /\ ~SendChunk(x) /\ ~SendClose(x) /\ ~ReadHeader(p) /\ ~UseData(p) /\ ~UseClose(p)
           /\ ~WriteDown(x, j) /\ \A i \in IDs : ~ServeDown(x, i)
  <2>1. wire'[x] = wire[x]
    BY <1>1, <1>9, OthersWire
  <2>2. str'[x][j].wrote = str[x][j].wrote /\ Sent(x, j)' = Sent(x, j)
    <3>1. CASE SamePipe(str[x][j], str'[x][j])
      <4>1. str[x][j] \in Stream /\ str'[x][j] \in Stream
        BY <1>3, StreamTypes, NextStream
      <4> QED
        BY <3>1, <4>1, SameValues DEF Sent, SamePipe
    <3>2. CASE CloseItem(x, j)
      BY <1>3, <3>2, CloseItemKeeps, CloseItemEffect, Zenon
    <3> QED
      BY <1>3, <1>9, <3>1, <3>2, Zenon DEF Change
  <2>3. SameReader(str[p][j], str'[p][j])
    BY <1>2, <1>3, <1>9, Zenon DEF Change, SameReader
  <2>4. SameOut(x)
    <3>1. CASE dn'[x] = dn[x]
      BY <3>1, HandOutKept
    <3>2. CASE RetireDown(x)
      <4>1. dn[x].pc = "retire" /\ dn'[x].pc = "idle"
        BY <1>3, <3>2 DEF RetireDown, Typed, Idle
      <4> QED
        BY <4>1 DEF SameOut, Holding
    <3> QED
      BY <1>9, <3>1, <3>2, WhoServes
  <2>5. SameHand(p)
    <3>1. CASE ut'[p] = ut[p]
      BY <3>1, HandOutKept
    <3>2. CASE ~Reading(p) /\ ~Reading(p)'
      BY <3>2 DEF SameHand
    <3>3. CASE ChooseStream(p)
      <4>0. PICK i : i = ut[p].id
        OBVIOUS
      <4>1. Reading(p) /\ (~active'[p] \/ (ut'[p].pc = "use" /\ ut'[p].id = i /\ ut'[p].chunk = ut[p].chunk))
        BY <3>3, <4>0, ChooseEffect, ZenonT(60)
      <4> QED
        BY <1>2, <4>0, <4>1 DEF SameHand, Reading, InHand
    <3> QED
      BY <1>2, <1>9, <3>1, <3>2, <3>3, WhoReads
  <2> QED
    BY <1>1, <1>2, <1>3, <2>1, <2>2, <2>3, <2>4, <2>5, PathFrame
<1> QED
  BY <1>4, <1>5, <1>6, <1>7, <1>8, <1>9

-----------------------------------------------------------------------------
(* Each step keeps what the user hears in order.                              *)
LEMMA ClosedPeerStays ==
  ASSUME Disciplined, StreamInv, [Next]_vars, NEW x \in Ends, NEW j \in IDs, str[x][j].userClosed
  PROVE  str'[x][j].userClosed /\ str'[x][j].wrote = str[x][j].wrote
<1>1. Change(x, j) /\ ~WriteDown(x, j)
  BY ChangeStep, NoMoreAfterClose DEF Handed
<1> QED
  BY <1>1 DEF Change

(* What the invariant says of one end's up thread, queue and user.            *)
LEMMA HeardThere ==
  ASSUME StreamInv, NEW x \in Ends
  PROVE  /\ Typed /\ UpAt(x) /\ EventsAt(x) /\ EndAt(x) /\ QuietAt(x) /\ OnceAt(x) /\ ut[x].id \in IDs
         /\ \A j \in IDs : HeardAt(x, j) /\ RecordAt(x, j) /\ ReaderAt(x, j)
         /\ Peer(x) \in Ends /\ Peer(Peer(x)) = x
         /\ \A j \in IDs : Owns(x, j) <=> ~Owns(Peer(x), j)
BY PeerOfPeer, MessagesInHand DEF StreamInv, ToldInv, FlowInv

LEMMA UpFrame ==
  ASSUME Disciplined, StreamInv, [Next]_vars, NEW x \in Ends, ut'[x] = ut[x], calls'[x] = calls[x],
         ~NotifyNewStream(x), ~UseData(x)
  PROVE  UpAt(x)'
<1>1. PICK i \in IDs : i = ut[x].id
  BY HeardThere
<1>2. UpAt(x) /\ Change(x, i) /\ Peer(x) \in Ends /\ (Owns(x, i) <=> ~Owns(Peer(x), i))
  BY HeardThere, ChangeStep
<1>3. str[Peer(x)][i].userClosed =>
        str'[Peer(x)][i].userClosed /\ str'[Peer(x)][i].wrote = str[Peer(x)][i].wrote
  BY <1>2, ClosedPeerStays
<1> DEFINE s == str[x][i]
           r == str'[x][i]
<1>4. r.up = s.up /\ (s.eof => r.eof) /\ (s.info # "none" => r.info # "none")
      /\ (s.user = "none" /\ ~Owns(x, i) => r.user = "none")
  BY <1>2 DEF Change
<1> QED
  BY <1>1, <1>2, <1>3, <1>4 DEF UpAt

LEMMA EventsFrame ==
  ASSUME Disciplined, StreamInv, [Next]_vars, NEW x \in Ends, ev'[x] = ev[x], calls'[x] = calls[x],
         (ut'[x] = ut[x] /\ ~UseData(x)) \/ ut[x].pc # "await"
  PROVE  EventsAt(x)'
<1>1. EventsAt(x) /\ Typed
  BY HeardThere
<1> SUFFICES ASSUME NEW k \in 1..Len(ev[x])
             PROVE  /\ ev[x][k].kind \in Opening \cup Closing <=> ev[x][k].by = "up"
                    /\ ev[x][k].by = "up" =>
                         /\ ut'[x].pc = "await" /\ ev[x][k].id = ut'[x].id
                         /\ ev[x][k].kind \in Opening <=> ut'[x].chunk # <<>>
                         /\ \A l \in 1..Len(ev[x]) : ev[x][l].by = "up" => l = k
                    /\ ev[x][k].kind \in {"closing", "callClosing"} => calls[x][ev[x][k].id] \in {<<>>, <<"new">>}
                    /\ ev[x][k].kind = "callClosing" /\ calls[x][ev[x][k].id] = <<>> =>
                         str'[x][ev[x][k].id].up = <<>>
  BY DEF EventsAt
<1>2. CASE ev[x][k].by # "up"
  BY <1>1, <1>2 DEF EventsAt, Opening, Closing
<1>3. CASE ev[x][k].by = "up"
  <2>1. ut[x].pc = "await" /\ ut'[x] = ut[x] /\ ~UseData(x) /\ ev[x][k].id = ut[x].id
    BY <1>1, <1>3 DEF EventsAt
  <2>2. PICK i \in IDs : i = ut[x].id
    BY HeardThere
  <2>3. str'[x][i].up = str[x][i].up
    BY <2>1, ChangeStep DEF Change
  <2> QED
    BY <1>1, <1>3, <2>1, <2>2, <2>3 DEF EventsAt
<1> QED
  BY <1>2, <1>3

LEMMA HeardFrame ==
  ASSUME Disciplined, StreamInv, [Next]_vars, NEW x \in Ends, NEW j \in IDs, calls'[x][j] = calls[x][j],
         funcs'[x] => funcs[x], str'[x][j].up = str[x][j].up,
         Announcing(x, j) => Announcing(x, j)' \/ ~funcs'[x],
         Making(x, j) => Making(x, j)' \/ ~active'[x],
         j \in table'[x] => j \in table[x] \/ Owns(x, j) \/ Making(x, j)'
  PROVE  HeardAt(x, j)'
<1>1. HeardAt(x, j) /\ Change(x, j) /\ Peer(x) \in Ends /\ (active'[x] => active[x])
  BY HeardThere, ChangeStep, AllQuieter DEF Quieter
<1>2. str[Peer(x)][j].userClosed =>
        str'[Peer(x)][j].userClosed /\ str'[Peer(x)][j].wrote = str[Peer(x)][j].wrote
  BY <1>1, ClosedPeerStays
<1>3. /\ str[x][j].info # "none" => str'[x][j].info # "none"
      /\ str[x][j].eof => str'[x][j].eof
  BY <1>1 DEF Change
<1>4. (calls[x][j] # <<>> => ~Owns(x, j) /\ str'[x][j].info # "none")
      /\ (calls[x][j] \in {<<"new", "closing">>, <<"closing">>} => str'[x][j].eof)
      /\ (calls[x][j] = <<"closing">> => str'[Peer(x)][j].wrote = 0 /\ str'[Peer(x)][j].userClosed)
  BY <1>1, <1>2, <1>3 DEF HeardAt
<1>5. /\ ~Owns(x, j) /\ funcs'[x] /\ str'[x][j].up # <<>> => calls[x][j] # <<>> \/ Announcing(x, j)'
      /\ ~Owns(x, j) /\ j \in table'[x] /\ active'[x] => str'[x][j].up # <<>> \/ str'[x][j].eof \/ Making(x, j)'
  BY <1>1, <1>3 DEF HeardAt
<1> QED
  BY <1>1, <1>4, <1>5 DEF HeardAt

HearsAt(x) == UpAt(x) /\ EventsAt(x) /\ \A j \in IDs : HeardAt(x, j)

LEMMA UsesMove ==
  ASSUME StreamInv, NEW x \in Ends, ut'[x] = ut[x]
  PROVE  ~UseData(x) /\ ~UseClose(x) /\ ~NotifyNewStream(x)
<1>1. Typed
  BY HeardThere
<1>2. UseData(x) \/ UseClose(x) => ut[x].pc = "use" /\ (ut'[x] = Idle \/ ut'[x] = [ut[x] EXCEPT !.pc = "post"])
  BY <1>1 DEF UseData, UseClose, Typed
<1>3. Idle.pc = "idle" /\ [ut[x] EXCEPT !.pc = "post"].pc = "post"
  BY <1>1 DEF Idle, Typed, UpWork
<1>4. NotifyNewStream(x) => ut'[x] = Idle /\ ut[x].pc = "await"
  BY <1>1, HeadOfUp DEF NotifyNewStream, Answer, Typed, Opening
<1> QED
  BY <1>2, <1>3, <1>4

LEMMA UpIdle ==
  ASSUME NEW x, ut'[x].pc \notin {"use", "post", "await"}
  PROVE  UpAt(x)'
BY DEF UpAt

(* The reader's pipe only grows in the up thread's hands.                     *)
LEMMA ReaderKept ==
  ASSUME Disciplined, StreamInv, [Next]_vars, NEW x \in Ends, NEW j \in IDs,
         ~UseData(x) \/ j # ut[x].id
  PROVE  str'[x][j].up = str[x][j].up
BY ChangeStep DEF Change

LEMMA CalmHeard ==
  ASSUME Disciplined, StreamInv, [Next]_vars, NEW x \in Ends, ut'[x] = ut[x], calls'[x] = calls[x],
         funcs'[x] => funcs[x], \A j \in IDs : j \in table'[x] => j \in table[x] \/ Owns(x, j)
  PROVE  /\ UpAt(x)' /\ \A j \in IDs : HeardAt(x, j)'
         /\ ev'[x] = ev[x] => EventsAt(x)'
<1>1. ~UseData(x) /\ ~NotifyNewStream(x)
  BY UsesMove
<1>2. UpAt(x)'
  BY <1>1, UpFrame
<1>3. ASSUME NEW j \in IDs PROVE HeardAt(x, j)'
  <2>1. str'[x][j].up = str[x][j].up
    BY <1>1, ReaderKept
  <2>2. (Announcing(x, j)' <=> Announcing(x, j)) /\ (Making(x, j)' <=> Making(x, j))
    BY DEF Announcing, Making
  <2> QED
    BY <2>1, <2>2, HeardFrame
<1>4. ev'[x] = ev[x] => EventsAt(x)'
  BY <1>1, EventsFrame
<1> QED
  BY <1>2, <1>3, <1>4

(* What the user or the interruption posts is none of the up thread's.        *)
LEMMA EventsPosted ==
  ASSUME Disciplined, StreamInv, [Next]_vars, NEW x \in Ends, ut'[x] = ut[x], calls'[x] = calls[x],
         NEW kind \in {"join", "interrupted"}, NEW who \in {"intr", "user"}, Post(x, kind, 0, who)
  PROVE  EventsAt(x)'
<1> DEFINE r == [kind |-> kind, id |-> 0, by |-> who]
<1>1. Typed /\ EventsAt(x) /\ ~UseData(x)
  BY HeardThere, UsesMove
<1>2. r \in Event /\ r.by # "up" /\ r.kind \notin Opening \cup Closing /\ r.kind = kind
  BY IDFacts DEF Event, EventKind, Opening, Closing
<1>3. ev' = [ev EXCEPT ![x] = Append(@, r)]
  BY DEF Post
<1> HIDE DEF r
<1>4. /\ Len(ev'[x]) = Len(ev[x]) + 1 /\ Len(ev[x]) \in Nat
      /\ \A k \in 1..Len(ev[x]) : ev'[x][k] = ev[x][k]
      /\ ev'[x][Len(ev[x]) + 1] = r
  BY <1>1, <1>2, <1>3, AppendFacts, ToldTypes
<1>5. PICK n \in Nat : n = Len(ev[x])
  BY <1>4
<1>6. /\ Len(ev'[x]) = n + 1 /\ (\A k \in 1..n : ev'[x][k] = ev[x][k]) /\ ev'[x][n + 1] = r
      /\ \A k \in 1..n + 1 : k = n + 1 \/ k \in 1..n
  BY <1>4, <1>5
<1>7. \A i \in IDs : str'[x][i].up = str[x][i].up
  BY <1>1, ReaderKept
<1>8. \A k \in 1..n : ev[x][k].id \in IDs
  <2>1. ev[x] \in Seq(Event)
    BY <1>1 DEF Typed
  <2>2. \A k \in 1..n : ev[x][k] \in Event
    BY <1>5, <2>1, ElementOfSeq
  <2> QED
    BY <2>2 DEF Event
<1> SUFFICES ASSUME NEW k \in 1..n + 1
             PROVE  /\ ev'[x][k].kind \in Opening \cup Closing <=> ev'[x][k].by = "up"
                    /\ ev'[x][k].by = "up" =>
                         /\ ut'[x].pc = "await" /\ ev'[x][k].id = ut'[x].id
                         /\ ev'[x][k].kind \in Opening <=> ut'[x].chunk # <<>>
                         /\ \A l \in 1..n + 1 : ev'[x][l].by = "up" => l = k
                    /\ ev'[x][k].kind \in {"closing", "callClosing"} =>
                         calls'[x][ev'[x][k].id] \in {<<>>, <<"new">>}
                    /\ ev'[x][k].kind = "callClosing" /\ calls'[x][ev'[x][k].id] = <<>> =>
                         str'[x][ev'[x][k].id].up = <<>>
  BY <1>6 DEF EventsAt
<1>9. CASE k = n + 1
  BY <1>2, <1>6, <1>9
<1>10. CASE k \in 1..n
  <2>1. ev'[x][k] = ev[x][k] /\ ev[x][k].id \in IDs
    BY <1>6, <1>8, <1>10
  <2>2. ASSUME ev[x][k].by = "up", NEW l \in 1..n + 1, ev'[x][l].by = "up" PROVE l = k
    <3>1. l \in 1..n /\ ev[x][l].by = "up"
      BY <1>2, <1>6, <2>2
    <3> QED
      BY <1>1, <1>5, <1>10, <2>2, <3>1 DEF EventsAt
  <2>3. str'[x][ev[x][k].id].up = str[x][ev[x][k].id].up
    BY <1>7, <2>1
  <2> QED
    BY <1>1, <1>5, <1>10, <2>1, <2>2, <2>3 DEF EventsAt
<1> QED
  BY <1>6, <1>9, <1>10

(* What is left in the queue when its head is done.                           *)
LEMMA EventsAnswered ==
  ASSUME Disciplined, StreamInv, [Next]_vars, NEW x \in Ends, ev[x] # <<>>,
         ev' = [ev EXCEPT ![x] = Tail(@)],
         ev[x][1].by = "up" \/ (ut'[x] = ut[x] /\ calls'[x] = calls[x])
  PROVE  EventsAt(x)'
<1>1. Typed /\ EventsAt(x) /\ 1 \in 1..Len(ev[x])
  BY HeardThere, HeadFacts
<1>2. /\ Len(ev'[x]) = Len(ev[x]) - 1 /\ Len(ev[x]) \in Nat
      /\ \A k \in 1..Len(ev'[x]) : ev'[x][k] = ev[x][k + 1] /\ k + 1 \in 1..Len(ev[x])
  BY <1>1, AnswerFacts, ToldTypes
<1>3. PICK n \in Nat : n = Len(ev[x]) - 1 /\ n = Len(ev'[x]) /\ Len(ev[x]) = n + 1
  BY <1>1, <1>2
<1>4. \A k \in 1..n : ev'[x][k] = ev[x][k + 1] /\ k + 1 \in 1..n + 1 /\ k + 1 # 1
  BY <1>2, <1>3
<1> SUFFICES ASSUME NEW k \in 1..n
             PROVE  /\ ev'[x][k].kind \in Opening \cup Closing <=> ev'[x][k].by = "up"
                    /\ ev'[x][k].by = "up" =>
                         /\ ut'[x].pc = "await" /\ ev'[x][k].id = ut'[x].id
                         /\ ev'[x][k].kind \in Opening <=> ut'[x].chunk # <<>>
                         /\ \A l \in 1..n : ev'[x][l].by = "up" => l = k
                    /\ ev'[x][k].kind \in {"closing", "callClosing"} =>
                         calls'[x][ev'[x][k].id] \in {<<>>, <<"new">>}
                    /\ ev'[x][k].kind = "callClosing" /\ calls'[x][ev'[x][k].id] = <<>> =>
                         str'[x][ev'[x][k].id].up = <<>>
  BY <1>3 DEF EventsAt
<1>5. PICK h \in 1..n + 1 : h = k + 1 /\ h # 1 /\ ev'[x][k] = ev[x][h]
  BY <1>4
<1>6. CASE ev[x][h].by # "up"
  BY <1>1, <1>3, <1>5, <1>6 DEF EventsAt, Opening, Closing
<1>7. CASE ev[x][h].by = "up"
  <2>1. /\ ut[x].pc = "await" /\ ev[x][h].id = ut[x].id
        /\ \A l \in 1..n + 1 : ev[x][l].by = "up" => l = h
    BY <1>1, <1>3, <1>7 DEF EventsAt
  <2>2. ev[x][1].by # "up"
    BY <1>1, <1>3, <1>5, <2>1
  <2>3. ASSUME NEW l \in 1..n, ev'[x][l].by = "up" PROVE l = k
    <3>1. l + 1 \in 1..n + 1 /\ ev[x][l + 1].by = "up"
      BY <1>4, <2>3
    <3>2. l + 1 = h
      BY <2>1, <3>1
    <3> QED
      BY <1>5, <3>2
  <2>4. PICK i \in IDs : i = ut[x].id
    BY HeardThere
  <2>5. str'[x][i].up = str[x][i].up
    BY <2>2, ReaderKept, UsesMove
  <2> QED
    BY <1>1, <1>3, <1>5, <1>7, <2>1, <2>2, <2>3, <2>4, <2>5 DEF EventsAt
<1> QED
  BY <1>6, <1>7

(* The head of the queue goes one step on.                                    *)
LEMMA EventsProceeded ==
  ASSUME Disciplined, StreamInv, [Next]_vars, NEW x \in Ends, ev[x] # <<>>, NEW kind \in EventKind,
         Proceed(x, kind), ut'[x] = ut[x],
         kind \in Opening <=> ev[x][1].kind \in Opening, kind \in Closing <=> ev[x][1].kind \in Closing,
         kind \in {"closing", "callClosing"} => calls'[x][ev[x][1].id] \in {<<>>, <<"new">>},
         kind = "callClosing" /\ calls'[x][ev[x][1].id] = <<>> => str'[x][ev[x][1].id].up = <<>>,
         ev[x][1].by = "up" \/ calls'[x] = calls[x]
  PROVE  EventsAt(x)'
<1>1. Typed /\ EventsAt(x) /\ 1 \in 1..Len(ev[x]) /\ ev[x][1] \in Event
  BY HeardThere, HeadFacts
<1>2. /\ Len(ev'[x]) = Len(ev[x]) /\ Len(ev[x]) \in Nat
      /\ ev'[x][1] = [ev[x][1] EXCEPT !.kind = kind]
      /\ \A k \in 2..Len(ev[x]) : ev'[x][k] = ev[x][k]
  BY <1>1, ProceedFacts, ToldTypes
<1>3. ev'[x][1].kind = kind /\ ev'[x][1].id = ev[x][1].id /\ ev'[x][1].by = ev[x][1].by
  BY <1>1, <1>2 DEF Event
<1>4. PICK n \in Nat : n = Len(ev[x]) /\ n = Len(ev'[x]) /\ 1 \in 1..n
  BY <1>1, <1>2
<1>5. \A k \in 1..n : k = 1 \/ (k \in 2..n /\ ev'[x][k] = ev[x][k])
  BY <1>2, <1>4
<1>6. \A k \in 1..n : ev'[x][k].by = ev[x][k].by
  BY <1>3, <1>5
<1>7. /\ ev[x][1].kind \in Opening \cup Closing <=> ev[x][1].by = "up"
      /\ ev[x][1].by = "up" =>
           /\ ut[x].pc = "await" /\ ev[x][1].id = ut[x].id
           /\ ev[x][1].kind \in Opening <=> ut[x].chunk # <<>>
           /\ \A l \in 1..n : ev[x][l].by = "up" => l = 1
  BY <1>1, <1>4 DEF EventsAt
<1> SUFFICES ASSUME NEW k \in 1..n
             PROVE  /\ ev'[x][k].kind \in Opening \cup Closing <=> ev'[x][k].by = "up"
                    /\ ev'[x][k].by = "up" =>
                         /\ ut'[x].pc = "await" /\ ev'[x][k].id = ut'[x].id
                         /\ ev'[x][k].kind \in Opening <=> ut'[x].chunk # <<>>
                         /\ \A l \in 1..n : ev'[x][l].by = "up" => l = k
                    /\ ev'[x][k].kind \in {"closing", "callClosing"} =>
                         calls'[x][ev'[x][k].id] \in {<<>>, <<"new">>}
                    /\ ev'[x][k].kind = "callClosing" /\ calls'[x][ev'[x][k].id] = <<>> =>
                         str'[x][ev'[x][k].id].up = <<>>
  BY <1>4 DEF EventsAt
<1>8. CASE k = 1
  <2>1. /\ ev'[x][k].kind \in Opening \cup Closing <=> ev'[x][k].by = "up"
        /\ ev'[x][k].by = "up" =>
             /\ ut'[x].pc = "await" /\ ev'[x][k].id = ut'[x].id
             /\ ev'[x][k].kind \in Opening <=> ut'[x].chunk # <<>>
             /\ \A l \in 1..n : ev'[x][l].by = "up" => l = k
    BY <1>3, <1>6, <1>7, <1>8
  <2> QED
    BY <1>3, <1>8, <2>1
<1>9. CASE k # 1
  <2>1. ev'[x][k] = ev[x][k]
    BY <1>5, <1>9
  <2>2. CASE ev[x][k].by # "up"
    BY <1>1, <1>4, <2>1, <2>2 DEF EventsAt, Opening, Closing
  <2>3. CASE ev[x][k].by = "up"
    <3>1. /\ ut[x].pc = "await" /\ ev[x][k].id = ut[x].id
          /\ \A l \in 1..n : ev[x][l].by = "up" => l = k
      BY <1>1, <1>4, <2>3 DEF EventsAt
    <3>2. calls'[x] = calls[x]
      BY <1>4, <1>9, <3>1
    <3>3. \A l \in 1..n : ev'[x][l].by = "up" => l = k
      BY <1>6, <3>1
    <3>4. PICK i \in IDs : i = ut[x].id
      BY HeardThere
    <3>5. str'[x][i].up = str[x][i].up
      BY ReaderKept, UsesMove
    <3> QED
      BY <1>1, <1>4, <2>1, <2>3, <3>1, <3>2, <3>3, <3>4, <3>5 DEF EventsAt
  <2> QED
    BY <2>2, <2>3
<1> QED
  BY <1>8, <1>9

(* What the event queue does, notification by notification.                   *)
LEMMA FoundHeard ==
  ASSUME Disciplined, StreamInv, [Next]_vars, NEW x \in Ends,
         FindCallback(x) \/ (NoCallback(x) /\ Running(x, "closing"))
  PROVE  HearsAt(x)'
<1>1. ut' = ut /\ calls' = calls /\ funcs' = funcs /\ table' = table
  BY DEF FindCallback, NoCallback, Running
<1>2. UpAt(x)' /\ \A j \in IDs : HeardAt(x, j)'
  BY <1>1, CalmHeard
<1>3. ev[x] # <<>> /\ Head(ev[x]) = ev[x][1] /\ 1 \in 1..Len(ev[x])
  <2>1. ev[x] # <<>>
    BY DEF FindCallback, NoCallback, Running
  <2> QED
    BY <2>1, HeardThere, HeadFacts
<1>4. PICK kind \in {"callNew", "callClosing", "callInterrupted", "closed"} :
        /\ Proceed(x, kind)
        /\ kind = "callNew" => Running(x, "new")
        /\ kind = "callInterrupted" => Running(x, "interrupted")
        /\ kind = "callClosing" => Running(x, "closing") /\ funcs[x]
        /\ kind = "closed" => Running(x, "closing")
  BY DEF FindCallback, NoCallback, Running
<1>5. /\ kind \in EventKind
      /\ kind \in Opening <=> ev[x][1].kind \in Opening
      /\ kind \in Closing <=> ev[x][1].kind \in Closing
  BY <1>3, <1>4 DEF EventKind, Opening, Closing, Running
<1>6. ASSUME kind = "callClosing"
      PROVE  /\ calls[x][ev[x][1].id] \in {<<>>, <<"new">>}
             /\ calls[x][ev[x][1].id] = <<>> => str'[x][ev[x][1].id].up = <<>>
  <2>1. Running(x, "closing") /\ funcs[x] /\ "closing" \in Opening \cup Closing /\ "closing" \in Closing
    BY <1>4, <1>6 DEF Closing
  <2>2. ev[x][1].id = ut[x].id /\ ut[x].pc = "await" /\ ut[x].chunk = <<>> /\ ~Owns(x, ut[x].id)
    BY <1>3, <2>1, HeadOfUp
  <2>3. calls[x][ev[x][1].id] \in {<<>>, <<"new">>}
    BY <1>3, <2>1, HeardThere DEF EventsAt, Running
  <2>4. PICK i \in IDs : i = ut[x].id
    BY HeardThere
  <2>5. ~Announcing(x, i) /\ HeardAt(x, i)
    BY <2>2, HeardThere DEF Announcing
  <2>6. calls[x][i] = <<>> => str[x][i].up = <<>>
    BY <2>1, <2>2, <2>4, <2>5 DEF HeardAt
  <2>7. str'[x][i].up = str[x][i].up
    BY <1>1, ReaderKept, UsesMove
  <2> QED
    BY <2>2, <2>3, <2>4, <2>6, <2>7
<1>7. EventsAt(x)'
  BY <1>1, <1>3, <1>4, <1>5, <1>6, EventsProceeded
<1> QED
  BY <1>2, <1>7 DEF HearsAt

LEMMA AnsweredHeard ==
  ASSUME Disciplined, StreamInv, [Next]_vars, NEW x \in Ends,
         \/ NoCallback(x) /\ ~Running(x, "closing")
         \/ Join(x) \/ NotifyInterrupted(x) \/ RetireRemote(x)
  PROVE  HearsAt(x)'
<1>1. Typed /\ ev[x] # <<>> /\ Head(ev[x]) = ev[x][1] /\ 1 \in 1..Len(ev[x]) /\ ev[x][1] \in Event
  <2>1. ev[x] # <<>>
    BY DEF NoCallback, Join, NotifyInterrupted, RetireRemote, Running
  <2> QED
    BY <2>1, HeardThere, HeadFacts
<1>2. calls' = calls /\ funcs' = funcs
  BY DEF NoCallback, Join, NotifyInterrupted, RetireRemote
<1>3. PICK by : /\ Answer(x, by)
                /\ by = ev[x][1].by \/ (by = "intr" /\ NotifyInterrupted(x)) \/ (by = "up" /\ RetireRemote(x))
  BY <1>1, Zenon DEF NoCallback, Join, NotifyInterrupted, RetireRemote
<1>4. RetireRemote(x) => ev[x][1].by = "up" /\ ut[x].chunk = <<>> /\ ut[x].pc = "await"
  BY HeadOfUp DEF RetireRemote, Closing
<1>5. NotifyInterrupted(x) => ev[x][1].by # "up"
  <2>1. NotifyInterrupted(x) => ev[x][1].kind = "callInterrupted"
    BY <1>1 DEF NotifyInterrupted, Running
  <2> QED
    BY <1>1, <2>1, HeardThere DEF EventsAt, Opening, Closing
<1>6. by = "up" <=> ev[x][1].by = "up"
  BY <1>3, <1>4, <1>5
<1>7. ev' = [ev EXCEPT ![x] = Tail(@)] /\ ut' = IF by = "up" THEN [ut EXCEPT ![x] = Idle] ELSE ut
  BY <1>3 DEF Answer
<1>8. EventsAt(x)'
  BY <1>1, <1>2, <1>6, <1>7, EventsAnswered
<1>9. \A j \in IDs : j \in table'[x] => j \in table[x]
  <2>1. table' = table \/ table' = [table EXCEPT ![x] = @ \ {Head(ev[x]).id}]
    BY Zenon DEF NoCallback, Join, NotifyInterrupted, RetireRemote, Retire
  <2> QED
    BY <1>1, <2>1, EndTypes
<1>10. CASE by # "up"
  <2>1. ut' = ut
    BY <1>7, <1>10
  <2> QED
    BY <1>2, <1>8, <1>9, <2>1, CalmHeard DEF HearsAt
<1>11. CASE by = "up"
  <2>1. ut[x].pc = "await" /\ ut'[x] = Idle /\ ut'[x].pc = "idle"
    <3>1. ut[x].pc = "await"
      BY <1>1, <1>6, <1>11, HeardThere DEF EventsAt
    <3> QED
      BY <1>1, <1>7, <1>11, <3>1 DEF Typed, Idle
  <2>2. UpAt(x)'
    BY <2>1, UpIdle
  <2>3. ~UseData(x)
    BY <2>1 DEF UseData
  <2>4. ASSUME NEW j \in IDs PROVE HeardAt(x, j)'
    <3>1. str'[x][j].up = str[x][j].up
      BY <2>3, ReaderKept
    <3>2. ~Making(x, j)
      BY <2>1 DEF Making
    <3>3. Announcing(x, j) => ~funcs'[x]
      <4>1. SUFFICES ASSUME Announcing(x, j) PROVE ~funcs[x]
        BY <1>2
      <4>2. ~RetireRemote(x)
        BY <1>4, <4>1 DEF Announcing
      <4>3. ~NotifyInterrupted(x)
        BY <1>5, <1>6, <1>11
      <4>4. ~Join(x)
        <5>1. Join(x) => ev[x][1].kind = "join"
          BY <1>1 DEF Join, Running
        <5> QED
          BY <1>1, <1>6, <1>11, <5>1, HeardThere DEF EventsAt, Opening, Closing
      <4> QED
        BY <4>2, <4>3, <4>4 DEF NoCallback
    <3> QED
      BY <1>2, <1>9, <3>1, <3>2, <3>3, HeardFrame
  <2> QED
    BY <1>8, <2>2, <2>4 DEF HearsAt
<1> QED
  BY <1>10, <1>11

LEMMA TwoCalls ==
  /\ Append(<<>>, "new") = <<"new">> /\ Append(<<>>, "closing") = <<"closing">>
  /\ Append(<<"new">>, "closing") = <<"new", "closing">>
<1>1. Append(<<>>, "new") = <<"new">> /\ Append(<<>>, "closing") = <<"closing">>
  OBVIOUS
<1>2. Append(<<"new">>, "closing") = <<"new", "closing">>
  <2> DEFINE a == Append(<<"new">>, "closing")
             b == <<"new", "closing">>
  <2>1. <<"new">> \in Seq({"new", "closing"}) /\ "closing" \in {"new", "closing"} /\ Len(<<"new">>) = 1 /\ <<"new">>[1] = "new"
    BY SMT
  <2>2. a \in Seq({"new", "closing"}) /\ Len(a) = 2 /\ a[1] = "new" /\ a[2] = "closing"
    BY <2>1, AppendProperties
  <2>3. b \in Seq({"new", "closing"}) /\ Len(b) = 2 /\ b[1] = "new" /\ b[2] = "closing"
    OBVIOUS
  <2> HIDE DEF a, b
  <2>4. \A k \in 1..2 : a[k] = b[k]
    <3>1. \A k \in 1..2 : k = 1 \/ k = 2
      OBVIOUS
    <3> QED
      BY <2>2, <2>3, <3>1
  <2>5. a = b
    BY <2>2, <2>3, <2>4, SeqEqual
  <2> QED
    BY <2>5 DEF a, b
<1> QED
  BY <1>1, <1>2

(* The calls on the end's other streams.                                      *)
LEMMA OneCall ==
  ASSUME StreamInv, NEW x \in Ends, NEW i \in IDs, NEW c \in {"new", "closing"},
         calls' = [calls EXCEPT ![x][i] = Append(@, c)]
  PROVE  /\ calls'[x][i] = Append(calls[x][i], c)
         /\ \A j \in IDs : j # i => calls'[x][j] = calls[x][j]
BY DEF StreamInv, FlowInv

LEMMA NewHeard ==
  ASSUME Disciplined, StreamInv, [Next]_vars, NEW x \in Ends, NotifyNewStream(x)
  PROVE  HearsAt(x)'
<1>1. Typed /\ ev[x] # <<>> /\ Head(ev[x]) = ev[x][1] /\ Running(x, "callNew") /\ "callNew" \in Opening
  BY HeardThere, HeadFacts DEF NotifyNewStream, Running, Opening
<1>2. /\ Head(ev[x]).id = ut[x].id /\ ut[x].id \in IDs /\ ut[x].pc = "await" /\ ev[x][1].by = "up"
  BY <1>1, HeadOfUp
<1>3. PICK i \in IDs : i = ut[x].id /\ i = Head(ev[x]).id
  BY <1>2
<1>4. ~Owns(x, i) /\ str[x][i].user = "none" /\ str[x][i].up # <<>> /\ calls[x][i] = <<>>
  BY <1>3, NotifyNone
<1>5. /\ calls' = [calls EXCEPT ![x][i] = Append(@, "new")] /\ funcs' = funcs /\ table' = table
      /\ ev' = [ev EXCEPT ![x] = Tail(@)] /\ ut' = [ut EXCEPT ![x] = Idle]
  BY <1>3 DEF NotifyNewStream, Answer
<1>6. EventsAt(x)'
  BY <1>1, <1>2, <1>5, EventsAnswered
<1>7. ut'[x] = Idle /\ ut'[x].pc = "idle"
  BY <1>1, <1>5 DEF Typed, Idle
<1>8. UpAt(x)'
  BY <1>7, UpIdle
<1>9. ASSUME NEW j \in IDs PROVE HeardAt(x, j)'
  <2>1. str'[x][j].up = str[x][j].up
    BY <1>2, ReaderKept DEF UseData
  <2>2. ~Making(x, j)
    BY <1>2 DEF Making
  <2>3. CASE j # i
    <3>1. calls'[x][j] = calls[x][j] /\ ~Announcing(x, j)
      BY <1>3, <1>5, <2>3, OneCall, Zenon DEF Announcing
    <3> QED
      BY <1>5, <2>1, <2>2, <3>1, HeardFrame
  <2>4. CASE j = i
    <3>1. calls'[x][i] = <<"new">>
      BY <1>4, <1>5, OneCall, TwoCalls
    <3>2. HeardAt(x, i) /\ RecordAt(x, i) /\ Change(x, i)
      BY HeardThere, ChangeStep
    <3>3. str[x][i].info # "none"
      BY <1>4, <3>2, NoStreamFields DEF RecordAt
    <3>4. str'[x][i].info # "none" /\ (str[x][i].eof => str'[x][i].eof)
      BY <3>2, <3>3 DEF Change
    <3>5. <<"new">> # <<>> /\ <<"new">> # <<"closing">> /\ <<"new">> # <<"new", "closing">>
      OBVIOUS
    <3> QED
      BY <1>4, <1>5, <2>1, <2>4, <3>1, <3>2, <3>4, <3>5 DEF HeardAt
  <2> QED
    BY <2>3, <2>4
<1> QED
  BY <1>6, <1>8, <1>9 DEF HearsAt

LEMMA ClosingHeard ==
  ASSUME Disciplined, StreamInv, [Next]_vars, NEW x \in Ends, NotifyClosing(x)
  PROVE  HearsAt(x)'
<1>1. /\ Typed /\ ev[x] # <<>> /\ Head(ev[x]) = ev[x][1] /\ 1 \in 1..Len(ev[x])
      /\ Running(x, "callClosing") /\ "callClosing" \in Closing /\ ev[x][1].kind = "callClosing"
  BY HeardThere, HeadFacts DEF NotifyClosing, Running, Closing
<1>2. /\ Head(ev[x]).id = ut[x].id /\ ut[x].id \in IDs /\ ut[x].pc = "await" /\ ev[x][1].by = "up"
      /\ ut[x].chunk = <<>> /\ ~Owns(x, ut[x].id)
  BY <1>1, HeadOfUp
<1>3. PICK i \in IDs : i = ut[x].id /\ i = Head(ev[x]).id /\ ev[x][1].id = i
  BY <1>1, <1>2
<1>4. /\ calls' = [calls EXCEPT ![x][i] = Append(@, "closing")] /\ funcs' = funcs /\ table' = table
      /\ Proceed(x, "closed") /\ ut' = ut /\ str' = str
  BY <1>3 DEF NotifyClosing
<1>5. EventsAt(x)'
  <2>1. "closed" \in EventKind /\ "closed" \notin Opening /\ "closed" \in Closing /\ "callClosing" \notin Opening
    BY DEF EventKind, Opening, Closing
  <2> QED
    BY <1>1, <1>2, <1>4, <2>1, EventsProceeded
<1>6. UpAt(x)'
  BY <1>2, <1>3, <1>4, HeardThere DEF UpAt
<1>7. ASSUME NEW j \in IDs PROVE HeardAt(x, j)'
  <2>1. ~Making(x, j) /\ ~Announcing(x, j)
    BY <1>2 DEF Making, Announcing
  <2>2. CASE j # i
    <3>1. calls'[x][j] = calls[x][j]
      BY <1>4, <2>2, OneCall
    <3> QED
      BY <1>4, <2>1, <3>1, HeardFrame
  <2>3. CASE j = i
    <3>1. HeardAt(x, i) /\ RecordAt(x, i) /\ EventsAt(x) /\ UpAt(x) /\ Peer(x) \in Ends
      BY HeardThere
    <3>2. /\ str[x][i].eof /\ Len(str[x][i].up) = str[Peer(x)][i].wrote /\ str[Peer(x)][i].userClosed
      BY <1>2, <1>3, <3>1 DEF UpAt
    <3>3. /\ calls[x][i] \in {<<>>, <<"new">>}
          /\ calls[x][i] = <<>> => str[x][i].up = <<>>
      BY <1>1, <1>3, <3>1 DEF EventsAt
    <3>4. calls[x][i] = <<>> => str[Peer(x)][i].wrote = 0
      BY <3>2, <3>3
    <3>5. \/ calls[x][i] = <<>> /\ calls'[x][i] = <<"closing">>
          \/ calls[x][i] = <<"new">> /\ calls'[x][i] = <<"new", "closing">>
      BY <1>4, <3>3, OneCall, TwoCalls
    <3>6. <<"closing">> # <<>> /\ <<"new", "closing">> # <<>> /\ <<"new", "closing">> # <<"closing">>
      OBVIOUS
    <3>7. str[x][i].info # "none"
      BY <3>1, <3>2, NoStreamFields DEF RecordAt
    <3> QED
      BY <1>2, <1>3, <1>4, <2>3, <3>2, <3>4, <3>5, <3>6, <3>7, Zenon DEF HeardAt
  <2> QED
    BY <2>2, <2>3
<1> QED
  BY <1>5, <1>6, <1>7 DEF HearsAt

(* What the up thread does.                                                   *)
LEMMA ReadHeard ==
  ASSUME Disciplined, StreamInv, [Next]_vars, NEW x \in Ends,
         ReadHeader(x) \/ UseFails(x) \/ UseInactive(x)
  PROVE  HearsAt(x)'
<1>1. Typed
  BY HeardThere
<1>2. /\ ev' = ev /\ calls' = calls /\ funcs' = funcs /\ table' = table /\ str' = str
      /\ ut[x].pc \in {"idle", "choose", "use"}
  BY DEF ReadHeader, UseFails, UseInactive
<1>3. ut'[x].pc \in {"idle", "choose"} /\ (~ReadHeader(x) => ~active'[x])
  <2>1. CASE ReadHeader(x)
    <3>1. ut'[x] = [Idle EXCEPT !.pc = "choose", !.id = Head(wire[Peer(x)]).id,
                                !.chunk = Head(wire[Peer(x)]).chunk]
      BY <1>1, <2>1 DEF ReadHeader, Typed
    <3> QED
      BY <2>1, <3>1 DEF Idle
  <2>2. CASE UseFails(x) \/ UseInactive(x)
    BY <1>1, <2>2 DEF UseFails, UseInactive, Interrupt, Typed, Idle
  <2> QED
    BY <2>1, <2>2
<1>4. UpAt(x)' /\ EventsAt(x)'
  BY <1>2, <1>3, UpIdle, EventsFrame
<1>5. ASSUME NEW j \in IDs PROVE HeardAt(x, j)'
  <2>1. ~Announcing(x, j) /\ (Making(x, j) => ~active'[x])
    BY <1>2, <1>3 DEF Announcing, Making, ReadHeader
  <2> QED
    BY <1>2, <2>1, HeardFrame
<1> QED
  BY <1>4, <1>5 DEF HearsAt

LEMMA ChooseHeard ==
  ASSUME Disciplined, StreamInv, [Next]_vars, NEW x \in Ends, ChooseStream(x)
  PROVE  HearsAt(x)'
<1>1. PICK i \in IDs : i = ut[x].id
  BY HeardThere
<1>2. Typed /\ ut[x].pc = "choose" /\ ev' = ev /\ calls' = calls /\ funcs' = funcs /\ ~UseData(x)
  BY HeardThere DEF ChooseStream, UseData
<1>3. \/ ~active'[x] /\ str' = str /\ table' = table /\ ut'[x] = Idle
      \/ /\ ut'[x].pc = "use" /\ ut'[x].id = i
         /\ \/ i \in table[x] /\ ~ut'[x].new /\ str' = str /\ table' = table
            \/ /\ ut'[x].new /\ ~Owns(x, i) /\ Only(x, i)
               /\ str[x][i] = NoStream /\ str'[x][i] = NewStream(FALSE)
               /\ table'[x] = table[x] \cup {i}
  <2>1. \/ ~active'[x] /\ str' = str /\ table' = table /\ ut'[x] = Idle
            /\ i \notin table[x] /\ Refuses(x, i)
        \/ /\ active' = active /\ intr' = intr /\ ut'[x].pc = "use" /\ ut'[x].id = i
           /\ ut'[x].chunk = ut[x].chunk
           /\ \/ i \in table[x] /\ ~ut'[x].new /\ str' = str /\ table' = table
              \/ /\ i \notin table[x] /\ ut'[x].new /\ ~Owns(x, i)
                 /\ Only(x, i) /\ str[x][i] = NoStream /\ str'[x][i] = NewStream(FALSE)
                 /\ str[Peer(x)][i].info # "none"
                 /\ table'[x] = table[x] \cup {i} /\ \A y \in Ends : y # x => table'[y] = table[y]
    BY <1>1, ChooseEffect, ZenonT(60)
  <2> QED
    BY <2>1, Zenon
<1>4. EventsAt(x)'
  BY <1>2, EventsFrame
<1>5. RecordAt(x, i) /\ HeardAt(x, i)
  BY HeardThere
<1>6. UpAt(x)'
  <2>1. CASE ut'[x] = Idle
    <3>1. ut'[x].pc = "idle"
      BY <2>1 DEF Idle
    <3> QED
      BY <3>1, UpIdle
  <2>2. CASE ut'[x].pc = "use" /\ ut'[x].id = i /\ i \in table[x] /\ ~ut'[x].new /\ str' = str
    <3>1. str'[x][i].info # "none"
      BY <1>5, <2>2 DEF RecordAt
    <3> QED
      BY <2>2, <3>1 DEF UpAt
  <2>3. CASE ut'[x].pc = "use" /\ ut'[x].id = i /\ ut'[x].new /\ ~Owns(x, i) /\ str[x][i] = NoStream
             /\ str'[x][i] = NewStream(FALSE)
    <3>1. str'[x][i].info = "live" /\ str'[x][i].user = "none"
      BY <2>3, NewStreamFields
    <3>2. calls'[x][i] = <<>>
      BY <1>2, <1>5, <2>3, NoStreamFields DEF HeardAt
    <3> QED
      BY <2>3, <3>1, <3>2 DEF UpAt
  <2> QED
    BY <1>3, <2>1, <2>2, <2>3
<1>7. ASSUME NEW j \in IDs PROVE HeardAt(x, j)'
  <2>1. ~Announcing(x, j) /\ ~Making(x, j)
    BY <1>2 DEF Announcing, Making
  <2>2. j \in table'[x] => j \in table[x] \/ Making(x, j)'
    BY <1>3 DEF Making
  <2> QED
    BY <1>2, <2>1, <2>2, ReaderKept, HeardFrame
<1> QED
  BY <1>4, <1>6, <1>7 DEF HearsAt

LEMMA UseHeard ==
  ASSUME Disciplined, StreamInv, [Next]_vars, NEW x \in Ends, UseData(x) \/ UseClose(x)
  PROVE  HearsAt(x)'
<1>1. PICK i \in IDs : i = ut[x].id
  BY HeardThere
<1>2. /\ Typed /\ ut[x].pc = "use" /\ ev' = ev /\ calls' = calls /\ funcs' = funcs /\ table' = table
      /\ active[x] /\ active' = active /\ Reading(x) /\ (UseData(x) <=> ut[x].chunk # <<>>)
  BY HeardThere DEF UseData, UseClose, Reading
<1>3. /\ RecordAt(x, i) /\ HeardAt(x, i) /\ UpAt(x) /\ Change(x, i) /\ Peer(x) \in Ends
      /\ RecordAt(Peer(x), i) /\ (Owns(x, i) <=> ~Owns(Peer(x), i))
  BY HeardThere, ChangeStep
<1> DEFINE s == str[x][i]
           r == str'[x][i]
           q == str[Peer(x)][i]
           t == str'[Peer(x)][i]
<1>4. ~s.eof /\ (ut[x].chunk = <<>> => Len(s.up) = q.wrote /\ q.userClosed)
  <2>1. active[x] /\ Reading(x) /\ i = ut[x].id
    BY <1>1, <1>2
  <2>2. ~s.eof
    BY <2>1, InHandFacts, Zenon
  <2>3. ut[x].chunk = <<>> => Len(s.up) = q.wrote
    <3>1. ut[x].chunk # <<>> \/ Len(str[x][ut[x].id].up) = str[Peer(x)][ut[x].id].wrote
      BY <2>1, InHandFacts, ZenonT(60)
    <3> QED
      BY <2>1, <3>1
  <2>4. ut[x].chunk = <<>> => q.userClosed
    BY <2>1, InHandFacts, Zenon
  <2> QED
    BY <2>2, <2>3, <2>4
<1>5. s.info = "live" \/ Owns(x, i)
  <2>1. s.info # "none" /\ s.info \in {"none", "live", "freed"}
    BY <1>1, <1>2, <1>3, StreamTypes DEF UpAt
  <2> QED
    BY <1>3, <1>4, <2>1 DEF RecordAt
<1>6. ~Owns(x, i) => s.up # <<>> \/ ut[x].new
  BY <1>1, <1>2, <1>3, <1>4, <1>5 DEF RecordAt, HeardAt, Making
<1>7. \A j \in IDs : ~Announcing(x, j) /\ (Making(x, j) => j = i)
  BY <1>1, <1>2 DEF Announcing, Making
<1>8. \/ ut'[x] = Idle \/ ut'[x] = [ut[x] EXCEPT !.pc = "post"]
  BY <1>2 DEF UseData, UseClose, Typed
<1>9. /\ ut'[x].pc = "idle" \/ (ut'[x].pc = "post" /\ ut'[x].id = i /\ ut'[x].chunk = ut[x].chunk)
      /\ UseData(x) => (ut'[x].pc = "post" <=> ut[x].new /\ funcs[x])
  <2>1. Idle.pc = "idle"
    BY DEF Idle
  <2>2. [ut[x] EXCEPT !.pc = "post"].pc = "post" /\ [ut[x] EXCEPT !.pc = "post"].id = i
        /\ [ut[x] EXCEPT !.pc = "post"].chunk = ut[x].chunk
    BY <1>1, <1>2 DEF Typed, UpWork
  <2>3. UseData(x) => ut'[x] = IF ut[x].new /\ funcs[x] THEN [ut[x] EXCEPT !.pc = "post"] ELSE Idle
    BY <1>2 DEF UseData, Announces, Typed
  <2> QED
    BY <1>8, <2>1, <2>2, <2>3
<1>10. EventsAt(x)'
  BY <1>2, EventsFrame
<1>11. CASE UseData(x)
  <2>1. r.up = s.up \o ut[x].chunk /\ r.up # <<>> /\ r.user = s.user
    <3>1. r.up = s.up \o ut[x].chunk /\ SameLife(s, r)
      BY <1>1, <1>2, <1>11, UseDataEffect
    <3>2. s.up \in Seq(Bytes) /\ ut[x].chunk \in Seq(Bytes) /\ ut[x].chunk # <<>>
      BY <1>2, <1>11, StreamTypes, MessagesInHand
    <3>3. s.up \o ut[x].chunk # <<>>
      BY <3>2, JoinedPipes
    <3> QED
      BY <3>1, <3>3 DEF SameLife
  <2>2. UpAt(x)'
    <3>1. CASE ut'[x].pc = "idle"
      BY <3>1, UpIdle
    <3>2. CASE ut'[x].pc = "post" /\ ut'[x].id = i /\ ut'[x].chunk = ut[x].chunk
      <4>1. ut[x].new
        BY <1>9, <1>11, <3>2
      <4>2. ~Owns(x, i) /\ s.user = "none" /\ calls[x][i] = <<>>
        BY <1>1, <1>2, <1>3, <4>1 DEF UpAt
      <4> QED
        BY <1>2, <1>11, <2>1, <3>2, <4>2 DEF UpAt
    <3> QED
      BY <1>9, <3>1, <3>2
  <2>3. HeardAt(x, i)'
    <3>1. ~Owns(x, i) /\ funcs'[x] => calls[x][i] # <<>> \/ Announcing(x, i)'
      <4>1. CASE ut[x].new /\ funcs[x]
        <5>1. ut'[x].pc = "post" /\ ut'[x].id = i /\ ut'[x].chunk # <<>>
          BY <1>2, <1>9, <1>11, <4>1
        <5> QED
          BY <5>1 DEF Announcing
      <4>2. CASE ~(ut[x].new /\ funcs[x])
        BY <1>2, <1>3, <1>6, <1>7, <4>2 DEF HeardAt
      <4> QED
        BY <4>1, <4>2
    <3>2. /\ q.userClosed => t.userClosed /\ t.wrote = q.wrote
      BY <1>3, ClosedPeerStays
    <3>3. (s.info # "none" => r.info # "none") /\ (s.eof => r.eof)
      BY <1>3 DEF Change
    <3> QED
      BY <1>2, <1>3, <2>1, <3>1, <3>2, <3>3 DEF HeardAt
  <2>4. ASSUME NEW j \in IDs, j # i PROVE HeardAt(x, j)'
    <3>1. str'[x][j].up = str[x][j].up
      BY <1>1, <2>4, ReaderKept
    <3> QED
      BY <1>2, <1>7, <2>4, <3>1, HeardFrame
  <2> QED
    BY <1>10, <2>2, <2>3, <2>4 DEF HearsAt
<1>12. CASE UseClose(x)
  <2>1. r.up = s.up /\ r.eof /\ ut[x].chunk = <<>>
    <3>1. r.up = s.up /\ r.eof
      BY <1>1, <1>2, <1>12, UseCloseEffect
    <3> QED
      BY <1>12, <3>1 DEF UseClose
  <2>2. q.userClosed /\ Len(s.up) = q.wrote /\ t.userClosed /\ t.wrote = q.wrote
    BY <1>3, <1>4, <2>1, ClosedPeerStays
  <2>3. ~Owns(x, i)
    BY <1>3, <2>2 DEF RecordAt, Handed
  <2>4. calls[x][i] \in {<<>>, <<"new">>}
    BY <1>3, <1>4 DEF HeardAt
  <2>5. UpAt(x)'
    <3>1. CASE ut'[x].pc = "idle"
      BY <3>1, UpIdle
    <3>2. CASE ut'[x].pc = "post" /\ ut'[x].id = i /\ ut'[x].chunk = ut[x].chunk
      BY <1>2, <2>1, <2>2, <2>3, <2>4, <3>2 DEF UpAt
    <3> QED
      BY <1>9, <3>1, <3>2
  <2>6. HeardAt(x, i)'
    <3>1. s.info # "none" => r.info # "none"
      BY <1>3 DEF Change
    <3> QED
      BY <1>2, <1>3, <1>7, <2>1, <2>2, <3>1 DEF HeardAt
  <2>7. ASSUME NEW j \in IDs, j # i PROVE HeardAt(x, j)'
    <3>1. str'[x][j].up = str[x][j].up
      BY <1>1, <2>7, ReaderKept
    <3> QED
      BY <1>2, <1>7, <2>7, <3>1, HeardFrame
  <2> QED
    BY <1>10, <2>5, <2>6, <2>7 DEF HearsAt
<1> QED
  BY <1>11, <1>12

LEMMA PostHeard ==
  ASSUME Disciplined, StreamInv, [Next]_vars, NEW x \in Ends, PostUp(x)
  PROVE  HearsAt(x)'
<1> DEFINE kind == IF ut[x].chunk = <<>> THEN "closing" ELSE "new"
           r == [kind |-> kind, id |-> ut[x].id, by |-> "up"]
<1>1. /\ Typed /\ UpAt(x) /\ EventsAt(x) /\ ut[x].id \in IDs /\ ut[x].pc = "post"
      /\ calls' = calls /\ funcs' = funcs /\ table' = table /\ str' = str
      /\ ev' = [ev EXCEPT ![x] = Append(@, r)]
  BY HeardThere DEF PostUp, Post
<1>2. ut'[x].pc = "await" /\ ut'[x].id = ut[x].id /\ ut'[x].chunk = ut[x].chunk
  BY <1>1 DEF PostUp, Typed, UpWork
<1>3. r \in Event /\ r.by = "up" /\ r.id = ut[x].id /\ r.kind = kind
  BY <1>1 DEF Event, EventKind
<1>4. /\ ut[x].chunk = <<>> => kind = "closing"
      /\ ut[x].chunk # <<>> => kind = "new"
      /\ kind \in {"new", "closing"}
  OBVIOUS
<1> HIDE DEF kind, r
<1>5. /\ Len(ev'[x]) = Len(ev[x]) + 1 /\ Len(ev[x]) \in Nat
      /\ \A k \in 1..Len(ev[x]) : ev'[x][k] = ev[x][k]
      /\ ev'[x][Len(ev[x]) + 1] = r
  BY <1>1, <1>3, AppendFacts, ToldTypes
<1>6. PICK n \in Nat : n = Len(ev[x])
  BY <1>5
<1>7. /\ Len(ev'[x]) = n + 1 /\ ev'[x][n + 1] = r
      /\ \A k \in 1..n + 1 : k = n + 1 \/ (k \in 1..n /\ ev'[x][k] = ev[x][k])
  BY <1>5, <1>6
<1>8. \A k \in 1..n : ev[x][k].by # "up" /\ ev[x][k].kind \notin Opening \cup Closing
  BY <1>1, <1>6 DEF EventsAt
<1>9. EventsAt(x)'
  <2> SUFFICES ASSUME NEW k \in 1..n + 1
             PROVE  /\ ev'[x][k].kind \in Opening \cup Closing <=> ev'[x][k].by = "up"
                    /\ ev'[x][k].by = "up" =>
                         /\ ut'[x].pc = "await" /\ ev'[x][k].id = ut'[x].id
                         /\ ev'[x][k].kind \in Opening <=> ut'[x].chunk # <<>>
                         /\ \A l \in 1..n + 1 : ev'[x][l].by = "up" => l = k
                    /\ ev'[x][k].kind \in {"closing", "callClosing"} =>
                         calls'[x][ev'[x][k].id] \in {<<>>, <<"new">>}
                    /\ ev'[x][k].kind = "callClosing" /\ calls'[x][ev'[x][k].id] = <<>> =>
                         str'[x][ev'[x][k].id].up = <<>>
    BY <1>7 DEF EventsAt
  <2>1. CASE k = n + 1
    <3>1. /\ ev'[x][k].kind \in Opening \cup Closing /\ ev'[x][k].by = "up"
          /\ ev'[x][k].id = ut'[x].id /\ ev'[x][k].kind # "callClosing"
          /\ ev'[x][k].kind \in Opening <=> ut'[x].chunk # <<>>
      BY <1>2, <1>3, <1>4, <1>7, <2>1 DEF Opening, Closing
    <3>2. \A l \in 1..n + 1 : ev'[x][l].by = "up" => l = k
      BY <1>7, <1>8, <2>1
    <3>3. ev'[x][k].kind \in {"closing", "callClosing"} => calls'[x][ev'[x][k].id] \in {<<>>, <<"new">>}
      BY <1>1, <1>3, <1>4, <1>7, <2>1 DEF UpAt
    <3> QED
      BY <1>2, <3>1, <3>2, <3>3
  <2>2. CASE k # n + 1
    <3>1. k \in 1..n /\ ev'[x][k] = ev[x][k]
      BY <1>7, <2>2
    <3> QED
      BY <1>8, <3>1 DEF Opening, Closing
  <2> QED
    BY <2>1, <2>2
<1>10. UpAt(x)'
  BY <1>1, <1>2 DEF UpAt
<1>11. ASSUME NEW j \in IDs PROVE HeardAt(x, j)'
  <2>1. ~Making(x, j) /\ (Announcing(x, j) => Announcing(x, j)')
    BY <1>1, <1>2 DEF Announcing, Making
  <2> QED
    BY <1>1, <2>1, HeardFrame
<1> QED
  BY <1>9, <1>10, <1>11 DEF HearsAt

(* Whatever the step, the end's user has heard what it should have.           *)
LEMMA HeardStep ==
  ASSUME Disciplined, StreamInv, [Next]_vars, NEW x \in Ends
  PROVE  HearsAt(x)'
<1>1. Typed
  BY HeardThere, EndTypes
<1>2. CASE SameEnd(x)
  BY <1>2, CalmHeard DEF SameEnd, HearsAt
<1>3. CASE StillStep(x)
  <2>1. table' = table
    BY <1>1, <1>3, StillEffect DEF Still
  <2>2. CASE StillUser(x)
    <3>1. ut' = ut /\ calls' = calls /\ (funcs'[x] => funcs[x])
      BY <1>1, <2>2, EndTypes DEF StillUser, Stop, StopJoin
    <3>2. ev' = ev \/ Post(x, "join", 0, "user")
      BY <2>2 DEF StillUser, Stop, StopJoin
    <3>3. EventsAt(x)'
      BY <2>1, <3>1, <3>2, CalmHeard, EventsPosted
    <3> QED
      BY <2>1, <3>1, <3>3, CalmHeard DEF HearsAt
  <2>3. CASE StillDown(x)
    <3>1. ut' = ut /\ calls' = calls /\ funcs' = funcs /\ ev' = ev
      BY <2>3 DEF StillDown, SendChunk, SendClose
    <3> QED
      BY <2>1, <3>1, CalmHeard DEF HearsAt
  <2>4. CASE StillUp(x)
    <3>1. CASE ReadFails(x)
      <4>1. ut' = ut /\ calls' = calls /\ funcs' = funcs /\ ev' = ev
        BY <3>1 DEF ReadFails
      <4> QED
        BY <2>1, <4>1, CalmHeard DEF HearsAt
    <3> QED
      BY <2>4, <3>1, ReadHeard, PostHeard DEF StillUp
  <2>5. CASE StillEvent(x)
    BY <2>5, FoundHeard, AnsweredHeard, ClosingHeard DEF StillEvent
  <2>6. CASE StillIntr(x)
    <3>1. ut' = ut /\ calls' = calls /\ funcs' = funcs
      BY <2>6 DEF StillIntr, CloseProvider, PostInterrupted, PostJoin
    <3>2. ev' = ev \/ Post(x, "join", 0, "intr") \/ Post(x, "interrupted", 0, "intr")
      BY <2>6 DEF StillIntr, CloseProvider, PostInterrupted, PostJoin
    <3>3. EventsAt(x)'
      BY <2>1, <3>1, <3>2, CalmHeard, EventsPosted
    <3> QED
      BY <2>1, <3>1, <3>3, CalmHeard DEF HearsAt
  <2> QED
    BY <1>3, <2>2, <2>3, <2>4, <2>5, <2>6 DEF StillStep
<1>4. CASE StreamStep(x)
  <2>1. CASE CreateStream(x)
    <3>1. PICK i : i = NextID(x)
      OBVIOUS
    <3>2. Owns(x, i) /\ table'[x] = table[x] \cup {i}
      BY <2>1, <3>1, CreateEffect
    <3>3. ut' = ut /\ calls' = calls /\ funcs' = funcs /\ ev' = ev
      BY <2>1 DEF CreateStream
    <3> QED
      BY <3>2, <3>3, CalmHeard DEF HearsAt
  <2>2. CASE RetireDown(x)
    <3>1. table'[x] \subseteq table[x]
      BY <1>1, <2>2, EndTypes DEF RetireDown, Retire
    <3>2. ut' = ut /\ calls' = calls /\ funcs' = funcs /\ ev' = ev
      BY <2>2 DEF RetireDown
    <3> QED
      BY <3>1, <3>2, CalmHeard DEF HearsAt
  <2>3. CASE HangUp(x)
    <3>1. table'[x] = {}
      BY <1>1, <2>3, EndTypes DEF HangUp
    <3>2. ut' = ut /\ calls' = calls /\ funcs' = funcs /\ ev' = ev
      BY <2>3 DEF HangUp
    <3> QED
      BY <3>1, <3>2, CalmHeard DEF HearsAt
  <2> QED
    BY <1>4, <2>1, <2>2, <2>3, ChooseHeard, UseHeard, NewHeard, AnsweredHeard DEF StreamStep
<1>5. ASSUME NEW i \in IDs, RecordOp(x, i) PROVE HearsAt(x)'
  <2>1. ut' = ut /\ calls' = calls /\ funcs' = funcs /\ ev' = ev /\ table' = table
    BY <1>5 DEF RecordOp, WriteDown, CloseStream, CloseItem, ServeDown, DestroySource, threadVars
  <2> QED
    BY <2>1, CalmHeard DEF HearsAt
<1> QED
  BY <1>2, <1>3, <1>4, <1>5, OneActs DEF Acts

LEMMA CallsStep ==
  ASSUME StreamInv, [Next]_vars
  PROVE  calls' \in [Ends -> [IDs -> Seq({"new", "closing"})]]
<1>1. calls \in [Ends -> [IDs -> Seq({"new", "closing"})]]
  BY DEF StreamInv, FlowInv
<1>2. calls' = calls \/ \E x \in Ends : NotifyNewStream(x) \/ NotifyClosing(x)
  <2>1. UNCHANGED vars \/ LinkFails => calls' = calls
    BY DEF vars, LinkFails
  <2>2. ASSUME NEW x \in Ends, StillStep(x) PROVE calls' = calls \/ NotifyClosing(x)
    BY <2>2, Zenon DEF StillStep, StillUser, StillDown, StillUp, StillEvent, StillIntr, Stop, StopJoin,
         SendChunk, SendClose, ReadHeader, ReadFails, UseFails, UseInactive, PostUp, FindCallback,
         NoCallback, NotifyInterrupted, Join, CloseProvider, PostInterrupted, PostJoin
  <2>3. ASSUME NEW x \in Ends, StreamStep(x) PROVE calls' = calls \/ NotifyNewStream(x)
    BY <2>3, Zenon DEF StreamStep, CreateStream, ChooseStream, UseClose, UseData, RetireDown,
         RetireRemote, HangUp
  <2>4. ASSUME NEW x \in Ends, NEW i \in IDs, RecordOp(x, i) PROVE calls' = calls
    BY <2>4, Zenon DEF RecordOp, WriteDown, CloseStream, CloseItem, ServeDown, DestroySource
  <2> QED
    BY <2>1, <2>2, <2>3, <2>4, StepCases
<1>3. ASSUME NEW x \in Ends, NotifyNewStream(x) \/ NotifyClosing(x)
      PROVE  calls' \in [Ends -> [IDs -> Seq({"new", "closing"})]]
  <2>1. Head(ev[x]).id \in IDs
    BY <1>3, HeadOfUp, Zenon DEF NotifyNewStream, NotifyClosing, Opening, Closing
  <2>2. PICK i \in IDs : i = Head(ev[x]).id
    BY <2>1
  <2>3. PICK c \in {"new", "closing"} : calls' = [calls EXCEPT ![x][i] = Append(@, c)]
    BY <1>3, <2>2, Zenon DEF NotifyNewStream, NotifyClosing
  <2>4. Append(calls[x][i], c) \in Seq({"new", "closing"})
    BY <1>1
  <2> QED
    BY <1>1, <2>3, <2>4
<1> QED
  BY <1>1, <1>2, <1>3

-----------------------------------------------------------------------------
(* The invariant, and what it says of the streams.                            *)
LEMMA StreamInit == Init => StreamInv
<1> SUFFICES ASSUME Init PROVE StreamInv
  OBVIOUS
<1>1. ToldInv /\ Typed
  BY ToldInit, IDFacts DEF ToldInv
<1>2. \A e \in Ends : \A i \in IDs :
        /\ str[e][i] = NoStream /\ calls[e][i] = <<>> /\ table[e] = {} /\ closeReq[e] = {}
        /\ wire[e] = <<>> /\ ut[e] = Idle /\ dn[e] = Idle /\ creates[e] = 0
  BY DEF Init
<1>3. Idle.pc = "idle"
  BY DEF Idle
<1>4. ASSUME NEW e \in Ends PROVE EndAt(e) /\ UpAt(e) /\ EventsAt(e)
  BY <1>3, <1>4 DEF Init, EndAt, UpAt, EventsAt
<1>5. ASSUME NEW e \in Ends, NEW i \in IDs
      PROVE  RecordAt(e, i) /\ PipeAt(e, i) /\ ReaderAt(e, i) /\ PathAt(e, i) /\ HeardAt(e, i)
  <2>1. Peer(e) \in Ends
    BY PeerOfPeer
  <2>2. /\ str[e][i] = NoStream /\ str[Peer(e)][i] = NoStream /\ calls[e][i] = <<>> /\ table[e] = {}
        /\ closeReq[e] = {} /\ wire[e] = <<>> /\ ut[Peer(e)].pc = "idle" /\ dn[e].pc = "idle"
        /\ creates[e] = 0
    BY <1>2, <1>3, <2>1
  <2>3. ~Handed(e, i)
    BY <2>2, NoStreamFields DEF Handed
  <2>4. RecordAt(e, i)
    <3>1. 0 <= MaxReplies
      BY PlexerAssumption
    <3> QED
      BY <2>2, <2>3, <3>1, NoStreamFields DEF RecordAt
  <2>5. PipeAt(e, i)
    BY <1>1, <2>2, <2>3, NoStreamFields, PositionValues DEF PipeAt
  <2>6. ReaderAt(e, i)
    BY <2>2, NoStreamFields DEF ReaderAt
  <2>7. HeardAt(e, i)
    BY <2>2, NoStreamFields DEF HeardAt
  <2>8. PathAt(e, i)
    <3>1. Got(Peer(e), i) = 0 /\ Sent(e, i) = 0 /\ str[e][i].wrote = 0 /\ ~str[Peer(e)][i].eof
      <4>1. Len(str[e][i].down) = 0 /\ Len(str[Peer(e)][i].up) = 0
        BY <2>2, NoStreamFields
      <4>2. ~str[e][i].userClosed /\ str[e][i].wrote = 0 /\ ~str[Peer(e)][i].eof
        BY <2>2, NoStreamFields
      <4>3. Final(e, i) = 0 /\ Got(Peer(e), i) = 0 /\ Sent(e, i) = Final(e, i) - Len(str[e][i].down)
        BY <1>1, <2>1, <4>1, <4>2, PositionValues
      <4> QED
        BY <4>1, <4>2, <4>3
    <3>2. Hand(Peer(e), i, 0, 0, 0) /\ Flow(wire[e], i, 0, 0, 0) /\ Out(e, i, 0, 0, 0) /\ 0 \in Positions
      BY <2>2, FlowEmpty, PositionFacts DEF Hand, Out, Reading, Holding
    <3>3. Path(e, i, 0, 0, 0)
      BY <3>1, <3>2 DEF Path
    <3> QED
      BY <3>1, <3>2, <3>3 DEF PathAt
  <2> QED
    BY <2>4, <2>5, <2>6, <2>7, <2>8
<1>6. calls \in [Ends -> [IDs -> Seq({"new", "closing"})]]
  BY DEF Init
<1>7. SettledInv
  BY <1>2, NoStreamFields DEF SettledInv, SettledAt, Handed
<1> QED
  BY <1>1, <1>4, <1>5, <1>6, <1>7 DEF StreamInv, FlowInv

LEMMA StreamStepKeeps ==
  ASSUME Disciplined, StreamInv, [Next]_vars
  PROVE  StreamInv'
<1>1. ToldInv' /\ Typed'
  BY ToldStep DEF StreamInv, ToldInv
<1>2. \A e \in Ends : EndAt(e)' /\ HearsAt(e)'
  BY EndStep, HeardStep
<1>3. \A e \in Ends : \A i \in IDs : Records(e, i)'
  BY <1>1, RecordStep
<1>4. \A e \in Ends : \A i \in IDs : ReaderAt(e, i)' /\ PathAt(e, i)'
  BY ReaderStep, PathStep
<1>5. FlowInv'
  BY <1>2, <1>3, <1>4, CallsStep DEF FlowInv, Records, HearsAt
<1>6. SettledInv'
  BY SettledStep
<1> QED
  BY <1>1, <1>5, <1>6 DEF StreamInv

LEMMA StreamInvariant == ASSUME Disciplined PROVE Spec => []StreamInv
<1>1. StreamInv /\ [Next]_vars => StreamInv'
  BY StreamStepKeeps
<1> QED
  BY <1>1, StreamInit, PTL DEF Spec

(* While the users keep to Disciplined, what a reader has got on a stream is  *)
(* a prefix of what the other end wrote to it, whatever number of streams     *)
(* share the wire, whichever is served next and whatever fails.               *)
THEOREM DeliveryCorrect == ASSUME Disciplined PROVE Spec => []DeliveredInOrder
<1>1. StreamInv => DeliveredInOrder
  BY DEF StreamInv, FlowInv, ReaderAt, DeliveredInOrder
<1> QED
  BY <1>1, StreamInvariant, PTL

(* A reader of an active end at end of file has got all that was written: the *)
(* close command does not overtake the data.                                  *)
THEOREM EofCorrect == ASSUME Disciplined PROVE Spec => []EofMeansComplete
<1>1. ASSUME StreamInv, NEW e \in Ends, NEW i \in IDs, active[e], str[e][i].eof
      PROVE  Len(str[e][i].up) = str[Peer(e)][i].wrote
  <2>1. Peer(e) \in Ends /\ Peer(Peer(e)) = e
    BY PeerOfPeer
  <2>2. PathAt(Peer(e), i)
    BY <1>1, <2>1 DEF StreamInv, FlowInv
  <2> QED
    BY <1>1, <2>1, <2>2 DEF PathAt
<1>2. StreamInv => EofMeansComplete
  BY <1>1 DEF EofMeansComplete
<1> QED
  BY <1>2, StreamInvariant, PTL

(* The user hears of a stream the other end made, then of its closing, each   *)
(* at most once, and of no stream it made itself.                             *)
THEOREM CallbacksCorrect == ASSUME Disciplined PROVE Spec => []CallbacksOrdered
<1>1. StreamInv => CallbacksOrdered
  BY DEF StreamInv, FlowInv, HeardAt, CallbacksOrdered
<1> QED
  BY <1>1, StreamInvariant, PTL

-----------------------------------------------------------------------------
(* A user info that was freed is not used: the other end has closed, and      *)
(* nothing is left to be written or read.                                     *)
FreedInv ==
  \A e \in Ends : \A i \in IDs :
    ~Owns(e, i) /\ str[e][i].info = "freed" => str[Peer(e)][i].userClosed

LEMMA WhoFrees ==
  ASSUME Disciplined, StreamInv, [Next]_vars, NEW x \in Ends, NEW j \in IDs,
         str'[x][j].info = "freed", str[x][j].info # "freed"
  PROVE  (RetireDown(x) /\ j = dn[x].id) \/ (RetireRemote(x) /\ j = Head(ev[x]).id)
<1>1. Typed /\ str'[x][j] # str[x][j]
  BY HeardThere
<1>2. ~SameEnd(x)
  BY <1>1 DEF SameEnd
<1>3. ~StillStep(x)
  BY <1>1, StillEffect DEF Still
<1>4. ASSUME NEW i \in IDs, RecordOp(x, i) PROVE FALSE
  <2>1. Only(x, i) /\ str'[x][i].info = str[x][i].info
    <3>1. CASE WriteDown(x, i)
      BY <1>1, <3>1, WriteEffect, Zenon DEF SameLife
    <3>2. CASE CloseStream(x, i)
      BY <1>1, <3>2, CloseEffect, Zenon
    <3>3. CASE CloseItem(x, i)
      BY <1>1, <3>3, CloseItemEffect, Zenon DEF SameLife
    <3>4. CASE ServeDown(x, i)
      BY <1>1, <3>4, ServeEffect, Zenon DEF SameLife
    <3>5. CASE DestroySource(x, i)
      BY <1>1, <3>5, DestroyEffect, Zenon DEF SameLife
    <3> QED
      BY <1>4, <3>1, <3>2, <3>3, <3>4, <3>5 DEF RecordOp
  <2> QED
    BY <1>1, <2>1 DEF Only
<1>5. StreamStep(x)
  BY <1>2, <1>3, <1>4, OneActs DEF Acts
<1>6. ~CreateStream(x)
  <2>1. SUFFICES ASSUME CreateStream(x) PROVE FALSE
    OBVIOUS
  <2>2. PICK i : i = NextID(x)
    OBVIOUS
  <2>3. i \in IDs /\ Only(x, i) /\ str'[x][i] = NewStream(TRUE)
    BY <2>1, <2>2, CreateEffect
  <2> QED
    BY <1>1, <2>3, NewStreamFields DEF Only
<1>7. ~ChooseStream(x)
  <2>1. SUFFICES ASSUME ChooseStream(x) PROVE FALSE
    OBVIOUS
  <2>2. PICK i \in IDs : i = ut[x].id
    BY HeardThere
  <2>3. str' = str \/ (Only(x, i) /\ str'[x][i] = NewStream(FALSE))
    BY <2>1, <2>2, ChooseEffect, ZenonT(60)
  <2> QED
    BY <1>1, <2>3, NewStreamFields DEF Only
<1>8. ~UseClose(x) /\ ~UseData(x)
  <2>1. SUFFICES ASSUME UseClose(x) \/ UseData(x) PROVE FALSE
    OBVIOUS
  <2>2. PICK i \in IDs : i = ut[x].id
    BY HeardThere
  <2>3. Only(x, i) /\ SameLife(str[x][i], str'[x][i])
    BY <1>1, <2>1, <2>2, UseCloseEffect, UseDataEffect
  <2> QED
    BY <1>1, <2>3 DEF Only, SameLife
<1>9. ~NotifyNewStream(x)
  <2>1. SUFFICES ASSUME NotifyNewStream(x) PROVE FALSE
    OBVIOUS
  <2>2. Head(ev[x]).id \in IDs
    BY <2>1, HeadOfUp DEF NotifyNewStream, Opening
  <2>3. PICK i \in IDs : i = Head(ev[x]).id
    BY <2>2
  <2>4. Only(x, i) /\ str'[x][i].info = str[x][i].info
    BY <1>1, <2>1, <2>3, NotifyEffect
  <2> QED
    BY <1>1, <2>4 DEF Only
<1>10. ~HangUp(x)
  BY <1>1, HangUpEffect DEF SameLife
<1>11. CASE RetireDown(x)
  <2>1. PICK i \in IDs : i = dn[x].id
    BY <1>1, MessagesInHand
  <2>2. Only(x, i)
    BY <1>1, <1>11, <2>1, RetireEffect DEF RetireDown
  <2> QED
    BY <1>1, <1>11, <2>1, <2>2 DEF Only
<1>12. CASE RetireRemote(x)
  <2>1. Head(ev[x]).id \in IDs
    BY <1>12, HeadOfUp DEF RetireRemote, Closing
  <2>2. PICK i \in IDs : i = Head(ev[x]).id
    BY <2>1
  <2>3. Only(x, i)
    BY <1>1, <1>12, <2>2, RetireEffect DEF RetireRemote
  <2> QED
    BY <1>1, <1>12, <2>2, <2>3 DEF Only
<1> QED
  BY <1>5, <1>6, <1>7, <1>8, <1>9, <1>10, <1>11, <1>12 DEF StreamStep

LEMMA FreedStep ==
  ASSUME Disciplined, StreamInv, FreedInv, [Next]_vars
  PROVE  FreedInv'
<1> SUFFICES ASSUME NEW x \in Ends, NEW j \in IDs, ~Owns(x, j), str'[x][j].info = "freed"
             PROVE  str'[Peer(x)][j].userClosed
  BY DEF FreedInv, Owns
<1>1. Peer(x) \in Ends /\ UpAt(x)
  BY HeardThere
<1>2. str[Peer(x)][j].userClosed
  <2>1. CASE str[x][j].info = "freed"
    BY <2>1 DEF FreedInv
  <2>2. CASE RetireDown(x) /\ j = dn[x].id
    BY <2>2, RetiredDown DEF RetireDown
  <2>3. CASE RetireRemote(x) /\ j = Head(ev[x]).id
    <3>1. j = ut[x].id /\ ut[x].pc = "await" /\ ut[x].chunk = <<>>
      BY <2>3, RetiredRemote DEF RetireRemote
    <3> QED
      BY <1>1, <3>1 DEF UpAt
  <2> QED
    BY <2>1, <2>2, <2>3, WhoFrees
<1> QED
  BY <1>1, <1>2, ClosedPeerStays

(* What is freed is used no more by the plexer's threads, nor by the user of  *)
(* the end that made the stream; the other end's user may still close it.     *)
LEMMA FreedIsDone ==
  ASSUME Disciplined, ClosesSettled, StreamInv, FreedInv, NEW x \in Ends, NEW j \in IDs,
         str[x][j].info = "freed"
  PROVE  /\ str[x][j].down = <<>> /\ j \notin closeReq[x]
         /\ ~(active[x] /\ Reading(x) /\ j = ut[x].id)
<1> DEFINE s == str[x][j]
           q == str[Peer(x)][j]
<1>1. /\ Typed /\ Peer(x) \in Ends /\ RecordAt(x, j) /\ RecordAt(Peer(x), j) /\ ReaderAt(x, j)
      /\ Peer(Peer(x)) = x /\ (Owns(x, j) <=> ~Owns(Peer(x), j))
  BY HeardThere
<1>2. CASE Owns(x, j)
  <2>1. s.userClosed /\ s.down = <<>> /\ Handed(x, j) /\ s.user = "closed" /\ j \notin closeReq[x]
    BY <1>1, <1>2 DEF RecordAt, Handed
  <2>2. Len(s.up) = q.wrote /\ q.wrote \in Nat
    BY <1>1, <1>2, <2>1, StreamTypes DEF StreamInv, SettledInv, SettledAt
  <2>3. ~q.userClosed
    BY <1>1, <1>2 DEF RecordAt, Handed
  <2>4. ASSUME active[x], Reading(x), j = ut[x].id PROVE FALSE
    <3>1. ut[x].chunk = <<>> => q.userClosed
      BY <2>4, InHandFacts
    <3>2. ut[x].chunk # <<>> => Len(s.up) < q.wrote
      BY <2>4, InHandFacts
    <3> QED
      BY <2>2, <2>3, <3>1, <3>2
  <2> QED
    BY <2>1, <2>4
<1>3. CASE ~Owns(x, j)
  <2>1. q.userClosed /\ s.eof /\ j \notin closeReq[x] /\ Handed(Peer(x), j)
    BY <1>1, <1>3 DEF FreedInv, RecordAt, Handed
  <2>2. s.down = <<>>
    BY <1>1, <1>3, <2>1 DEF StreamInv, SettledInv, SettledAt
  <2> QED
    BY <2>1, <2>2, InHandFacts, Zenon
<1> QED
  BY <1>2, <1>3

(* The uses that are left.                                                    *)
Used(before, after) ==
  after \in {before, before \cup {"closeLog"}, before \cup {"closeStream"}}

LEMMA UsesLive ==
  ASSUME Disciplined, ClosesSettled, StreamInv, FreedInv, [Next]_vars
  PROVE  Used(dangling, dangling')
<1>1. \A x \in Ends : Typed /\ ut[x].id \in IDs
  BY HeardThere
<1>2. \/ UNCHANGED dangling
      \/ \E x \in Ends : RetireRemote(x) \/ UseData(x) \/ UseClose(x)
           \/ \E i \in IDs : CloseStream(x, i) \/ CloseItem(x, i) \/ ServeDown(x, i)
  <2>1. UNCHANGED vars \/ LinkFails => UNCHANGED dangling
    BY DEF vars, LinkFails
  <2>2. ASSUME NEW x \in Ends, StillStep(x) PROVE UNCHANGED dangling
    BY <2>2, Zenon DEF StillStep, StillUser, StillDown, StillUp, StillEvent, StillIntr, Stop, StopJoin,
         SendChunk, SendClose, ReadHeader, ReadFails, UseFails, UseInactive, PostUp, FindCallback,
         NoCallback, NotifyClosing, NotifyInterrupted, Join, CloseProvider, PostInterrupted, PostJoin
  <2>3. ASSUME NEW x \in Ends, StreamStep(x)
        PROVE  UNCHANGED dangling \/ RetireRemote(x) \/ UseData(x) \/ UseClose(x)
    BY <2>3, Zenon DEF StreamStep, CreateStream, ChooseStream, NotifyNewStream, RetireDown, HangUp
  <2>4. ASSUME NEW x \in Ends, NEW i \in IDs, RecordOp(x, i)
        PROVE  UNCHANGED dangling \/ CloseStream(x, i) \/ CloseItem(x, i) \/ ServeDown(x, i)
    BY <2>4, Zenon DEF RecordOp, WriteDown, DestroySource
  <2> QED
    BY <2>1, <2>2, <2>3, <2>4, StepCases
<1>3. ASSUME NEW x \in Ends, RetireRemote(x) PROVE Used(dangling, dangling')
  BY <1>3 DEF RetireRemote, Used
<1>4. ASSUME NEW x \in Ends, UseData(x) \/ UseClose(x) PROVE dangling' = dangling
  <2>1. PICK i \in IDs : i = ut[x].id
    BY <1>1
  <2>2. active[x] /\ Reading(x) /\ Dangle(x, i, "upstream")
    BY <1>4, <2>1 DEF UseData, UseClose, Reading
  <2> QED
    BY <2>1, <2>2, FreedIsDone DEF Dangle
<1>5. ASSUME NEW x \in Ends, NEW i \in IDs, CloseItem(x, i) \/ ServeDown(x, i)
      PROVE  dangling' = dangling
  <2>1. str[x][i].info # "freed"
    BY <1>5, FreedIsDone DEF CloseItem, ServeDown
  <2> QED
    BY <1>5, <2>1 DEF CloseItem, ServeDown, Dangle
<1>6. ASSUME NEW x \in Ends, NEW i \in IDs, CloseStream(x, i) PROVE Used(dangling, dangling')
  BY <1>6 DEF CloseStream, Dangle, Used
<1> QED
  BY <1>2, <1>3, <1>4, <1>5, <1>6 DEF Used

(* Where a stream is closed once nobody writes to it any more, the plexer's   *)
(* threads use no stream's info after it was freed, on either end and for any *)
(* number of streams and writes: what is left is the log line at the end of a *)
(* remote close and the close by the remote user, which the code lets come    *)
(* after the originator's.                                                    *)
THEOREM InfoCorrect == ASSUME IdsSuffice, ClosesSettled PROVE Spec => []PlexerUsesLiveInfo
<1>1. Disciplined
  BY DEF Disciplined, MarkerAlone, NoLateReply, ClosesSettled
<1>2. Init => FreedInv /\ PlexerUsesLiveInfo
  BY NoStreamFields DEF Init, FreedInv, PlexerUsesLiveInfo
<1>3. StreamInv /\ FreedInv /\ PlexerUsesLiveInfo /\ [Next]_vars => FreedInv' /\ PlexerUsesLiveInfo'
  <2>1. SUFFICES ASSUME StreamInv, FreedInv, PlexerUsesLiveInfo, [Next]_vars
                 PROVE  FreedInv' /\ PlexerUsesLiveInfo'
    OBVIOUS
  <2>2. Used(dangling, dangling')
    BY <1>1, <2>1, UsesLive
  <2> QED
    BY <1>1, <2>1, <2>2, FreedStep DEF PlexerUsesLiveInfo, Used
<1>4. Spec => []StreamInv
  BY <1>1, StreamInvariant
<1> QED
  BY <1>2, <1>3, <1>4, PTL DEF Spec

-----------------------------------------------------------------------------
(* Interruption has a cause.                                                  *)
Stopping == {"stop", "join", "stopped"}

LEMMA StoppingStays ==
  ASSUME Typed, [Next]_vars, NEW x \in Ends, usr[x] \in Stopping
  PROVE  usr'[x] \in Stopping
<1>1. usr \in [Ends -> UserPlaces]
  BY ToldTypes
<1>2. CASE UNCHANGED vars \/ LinkFails
  BY <1>2 DEF vars, threadVars, LinkFails
<1>3. ASSUME NEW e \in Ends, StillStep(e) PROVE usr'[x] \in Stopping
  <2>1. \/ usr' = usr
        \/ Stop(e) \/ StopJoin(e)
        \/ usr' = [usr EXCEPT ![e] = "stopped"]
    BY <1>3, Zenon DEF StillStep, StillUser, StillDown, StillUp, StillEvent, StillIntr, SendChunk,
         SendClose, ReadHeader, ReadFails, UseFails, UseInactive, PostUp, FindCallback, NoCallback,
         NotifyClosing, NotifyInterrupted, Join, CloseProvider, PostInterrupted, PostJoin, Answer
  <2> QED
    BY <1>1, <2>1 DEF Stop, StopJoin, Stopping
<1>4. ASSUME NEW e \in Ends, StreamStep(e) PROVE usr'[x] \in Stopping
  <2>1. usr' = usr \/ CreateStream(e) \/ usr' = [usr EXCEPT ![e] = "stopped"]
    BY <1>4, Zenon DEF StreamStep, ChooseStream, UseClose, UseData, NotifyNewStream, RetireDown,
         RetireRemote, HangUp, Answer
  <2>2. CreateStream(e) => usr' = usr \/ (usr[e] = "run" /\ usr' = [usr EXCEPT ![e] = "wedged"])
    BY Zenon DEF CreateStream
  <2> QED
    BY <1>1, <2>1, <2>2 DEF Stopping
<1>5. ASSUME NEW e \in Ends, NEW i \in IDs, RecordOp(e, i) PROVE usr'[x] \in Stopping
  BY <1>5 DEF RecordOp, WriteDown, CloseStream, CloseItem, ServeDown, DestroySource, threadVars
<1> QED
  BY <1>2, <1>3, <1>4, <1>5, StepCases

LEMMA LinkStaysDown ==
  ASSUME [Next]_vars, link'
  PROVE  link
<1>1. UNCHANGED vars \/ LinkFails => link' = link \/ ~link'
  BY DEF vars, LinkFails
<1>2. ASSUME NEW e \in Ends, StillStep(e) PROVE link' = link
  BY <1>2, Zenon DEF StillStep, StillUser, StillDown, StillUp, StillEvent, StillIntr, Stop, StopJoin,
       SendChunk, SendClose, ReadHeader, ReadFails, UseFails, UseInactive, PostUp, FindCallback,
       NoCallback, NotifyClosing, NotifyInterrupted, Join, CloseProvider, PostInterrupted, PostJoin
<1>3. ASSUME NEW e \in Ends, StreamStep(e) PROVE link' = link
  BY <1>3, Zenon DEF StreamStep, CreateStream, ChooseStream, UseClose, UseData, NotifyNewStream,
       RetireDown, RetireRemote, HangUp
<1>4. ASSUME NEW e \in Ends, NEW i \in IDs, RecordOp(e, i) PROVE link' = link
  BY <1>4, Zenon DEF RecordOp, WriteDown, CloseStream, CloseItem, ServeDown, DestroySource
<1> QED
  BY <1>1, <1>2, <1>3, <1>4, StepCases

(* On a sound link between active ends only YMPlexerStop interrupts.          *)
LEMMA SoundStaysUp ==
  ASSUME Disciplined, NoLateReply, StreamInv, [Next]_vars, link, \A e \in Ends : active[e],
         NEW x \in Ends
  PROVE  active'[x] \/ usr'[x] = "stop"
<1>1. Typed /\ active \in [Ends -> BOOLEAN] /\ usr \in [Ends -> UserPlaces] /\ \A e \in Ends : open[e]
  BY HeardThere, ToldTypes DEF EndAt
<1>2. Peer(x) \in Ends /\ open[x] /\ open[Peer(x)]
  BY <1>1, PeerOfPeer
<1>3. CASE SameEnd(x)
  BY <1>3 DEF SameEnd
<1>4. CASE StillStep(x)
  <2>1. active' = active \/ Stop(x)
    <3>1. ~WriteFails(x) /\ ~ReadFails(x) /\ ~UseFails(x) /\ ~UseInactive(x)
      BY <1>2 DEF WriteFails, ReadFails, UseFails, UseInactive
    <3> QED
      BY <1>4, <3>1, Zenon DEF StillStep, StillUser, StillDown, StillUp, StillEvent, StillIntr, StopJoin,
         SendChunk, SendClose, ReadHeader, PostUp, FindCallback, NoCallback, InterruptIfInactive,
         NoInterrupt, NotifyClosing, NotifyInterrupted, Join, CloseProvider, PostInterrupted, PostJoin
  <2>2. Stop(x) => usr'[x] = "stop"
    BY <1>1 DEF Stop
  <2> QED
    BY <2>1, <2>2
<1>5. CASE StreamStep(x)
  <2>1. CASE CreateStream(x)
    BY <2>1, CreateEffect
  <2>2. CASE ChooseStream(x)
    <3>1. PICK i \in IDs : i = ut[x].id
      BY HeardThere
    <3>2. ~(i \notin table[x] /\ Refuses(x, i))
      <4>1. SUFFICES ASSUME i \notin table[x], Refuses(x, i) PROVE FALSE
        OBVIOUS
      <4>2. Reading(x) /\ active[x]
        BY <2>2 DEF ChooseStream, Reading
      <4>3. ~Owns(x, i)
        BY <3>1, <4>1, <4>2, UnlistedIsNew DEF NoLateReply
      <4> QED
        BY <4>1, <4>3 DEF Refuses, Owns
    <3>3. NoInterrupt
      BY <2>2, <3>1, <3>2 DEF ChooseStream
    <3> QED
      BY <3>3 DEF NoInterrupt
  <2> QED
    BY <1>5, <2>1, <2>2, Zenon DEF StreamStep, UseClose, UseData, NotifyNewStream, RetireDown,
         RetireRemote, HangUp
<1>6. ASSUME NEW i \in IDs, RecordOp(x, i) PROVE active'[x]
  BY <1>6 DEF RecordOp, WriteDown, CloseStream, CloseItem, ServeDown, DestroySource
<1> QED
  BY <1>3, <1>4, <1>5, <1>6, OneActs DEF Acts

(* A connection on which the link holds and nobody stopped is not             *)
(* interrupted: no stream is refused, no id runs out, nothing is written to a *)
(* provider that was closed.                                                  *)
THEOREM HealthyCorrect ==
  ASSUME IdsSuffice, MarkerAlone, NoLateReply PROVE Spec => []HealthyStaysUp
<1>1. Disciplined
  BY DEF Disciplined
<1>2. Init => HealthyStaysUp
  BY DEF Init, HealthyStaysUp
<1>3. StreamInv /\ HealthyStaysUp /\ [Next]_vars => HealthyStaysUp'
  <2>1. SUFFICES ASSUME StreamInv, HealthyStaysUp, [Next]_vars, link',
                        \A e \in Ends : usr'[e] \notin Stopping, NEW x \in Ends
                 PROVE  active'[x]
    BY DEF HealthyStaysUp, Stopping
  <2>2. Typed /\ \A e \in Ends : usr[e] \notin Stopping
    BY <2>1, HeardThere, StoppingStays
  <2>3. link
    BY <2>1, LinkStaysDown
  <2>4. \A e \in Ends : active[e]
    BY <2>1, <2>2, <2>3 DEF HealthyStaysUp, Stopping
  <2>5. active'[x] \/ usr'[x] = "stop"
    BY <1>1, <2>1, <2>3, <2>4, SoundStaysUp
  <2> QED
    BY <2>1, <2>5 DEF Stopping
<1>4. Spec => []StreamInv
  BY <1>1, StreamInvariant
<1> QED
  BY <1>2, <1>3, <1>4, PTL DEF Spec
=============================================================================
