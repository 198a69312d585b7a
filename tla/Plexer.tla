------------------------------- MODULE Plexer -------------------------------
(***************************************************************************)
(* Two plexers (src/src/YMPlexer.c) joined by one security provider: the   *)
(* streams each end creates, the down queue that multiplexes them onto the *)
(* wire, the up queue that demultiplexes what the other end sent, the      *)
(* event delivery queue that calls the user back, and interruption.        *)
(*                                                                         *)
(* Both ends have finished YMPlexerStart.  The master owns the even stream *)
(* ids, the slave the odd ones.  A stream is a pair of pipes (YMStream.c): *)
(* "down" from the user to the plexer, "up" from the plexer to the user.   *)
(*                                                                         *)
(* Each queue of an end is served by one thread (see DispatchQueue), here  *)
(* dn, ut and ev.  A stream's dispatch source makes the down queue serve   *)
(* the stream some time after its down pipe became readable; the select    *)
(* loop takes ready streams in any order, so which one is served next is   *)
(* a choice.                                                               *)
(***************************************************************************)
EXTENDS Naturals, Sequences, FiniteSets

CONSTANTS
  MaxID,       (* YMPlexerStreamIDMax: odd, UINT64_MAX in the code               *)
  Creators,    (* the ends whose user creates streams                            *)
  MaxCreates,  (* bound: streams a creator creates                               *)
  MaxWrites,   (* bound: writes an originator makes on a stream                  *)
  MaxReplies,  (* bound: writes the other end makes on it                        *)
  ReadMax,     (* writes one read of a down pipe can return (chunkMaxLength)     *)
  CloseRule,   (* when an originator closes: see MayClose                        *)
  Provider,    (* "tls", or "none": YMSecurityProvider's passthrough             *)
  Failures     (* what may happen: the link fails, the user of an end stops it   *)

ASSUME PlexerAssumption ==
  /\ MaxID \in Nat /\ MaxID % 2 = 1
  /\ Creators \subseteq {"master", "slave"} /\ MaxCreates \in Nat
  /\ MaxWrites \in Nat /\ MaxReplies \in 0..MaxWrites /\ ReadMax \in Nat \ {0}
  /\ CloseRule \in {"never", "free", "flushed", "answered", "settled"}
  /\ Provider \in {"tls", "none"}
  /\ Failures \subseteq {"link", "master", "slave"}

Ends == {"master", "slave"}
Peer(e) == IF e = "master" THEN "slave" ELSE "master"
IDs == 0..MaxID
Even(i) == i % 2 = 0
MyStreamsEven(e) == e = "master"
Owns(e, i) == Even(i) <=> MyStreamsEven(e)

(* A write is the number it has on its stream; the marker is the byte that    *)
(* __ym_plexer_close_stream writes to the down pipe.                          *)
Marker == 0
Bytes == 0..MaxWrites
Message == [id : IDs, chunk : Seq(Bytes)]
(* YMPlexerCommandCloseStream; a data message's chunk is never empty.         *)
CloseMessage(i) == [id |-> i, chunk |-> <<>>]
IsClose(m) == m.chunk = <<>>

VARIABLES
  active,     (* the active flag of each end                                     *)
  lastID,     (* localStreamIDLast                                               *)
  table,      (* the ids in streamsByID                                          *)
  str,        (* the latest stream each end made for an id                       *)
  wire,       (* wire[e]: messages e has written and its peer has not read       *)
  open,       (* open[e]: e has not shut its provider down                       *)
  link,       (* the transport is up                                             *)
  closeReq,   (* __ym_plexer_close_stream dispatches waiting on the down queue   *)
  dn,         (* the down queue's thread: pc, stream and chunk                   *)
  ut,         (* the up queue's thread: pc, message, and whether it made         *)
              (* the stream                                                      *)
  ev,         (* the event queue: dispatches waiting or running                  *)
  intr,       (* interruption: pc and the thread that is in it                   *)
  funcs,      (* the user's callbacks are set (YMPlexerStop clears them)         *)
  usr,        (* the user's control thread: "run", "wedged" in CreateStream,     *)
              (* "stop" in YMPlexerStop, "join", "stopped"                       *)
  creates,    (* streams created so far (bound)                                  *)
  notified,   (* history: times interruptedFunc was called                       *)
  calls,      (* history: callbacks per stream, in order                         *)
  dangling    (* history: uses of stream user info after CHECK_REMOVE freed it   *)

threadVars == <<dn, ut, ev, intr, usr>>
vars == <<active, lastID, table, str, wire, open, link, closeReq, threadVars,
          funcs, creates, notified, calls, dangling>>

(* A stream: its user info, which end it thinks made it, whether its user     *)
(* closed it, its pipes, the state of its down source, the user's hold on it  *)
(* and the number of writes its user has made.                                *)
Stream == [info : {"none", "live", "freed"}, local : BOOLEAN, userClosed : BOOLEAN,
           down : Seq(Bytes), up : Seq(Bytes), eof : BOOLEAN,
           src : {"none", "live", "doomed", "gone"},
           user : {"none", "open", "closed"}, wrote : 0..MaxWrites]
NoStream == [info |-> "none", local |-> FALSE, userClosed |-> FALSE,
             down |-> <<>>, up |-> <<>>, eof |-> FALSE, src |-> "none",
             user |-> "none", wrote |-> 0]
(* __YMPlexerCreateStreamWithID                                               *)
NewStream(isLocal) ==
  [NoStream EXCEPT !.info = "live", !.local = isLocal, !.src = "live",
                   !.user = IF isLocal THEN "open" ELSE "none"]

Idle == [pc |-> "idle", id |-> 0, chunk |-> <<>>, new |-> FALSE]
Callers == {"up", "down", "user"}
(* The dispatches on an event queue; "call..." once the callback was found    *)
(* set, "closed" once the closing callback is done with.                      *)
EventKind == {"new", "closing", "interrupted", "callNew", "callClosing",
              "callInterrupted", "closed", "join"}

TypeOK ==
  /\ active \in [Ends -> BOOLEAN]
  /\ lastID \in [Ends -> IDs]
  /\ table \in [Ends -> SUBSET IDs]
  /\ str \in [Ends -> [IDs -> Stream]]
  /\ wire \in [Ends -> Seq(Message)]
  /\ open \in [Ends -> BOOLEAN] /\ link \in BOOLEAN
  /\ closeReq \in [Ends -> SUBSET IDs]
  /\ \A e \in Ends :
       /\ dn[e].pc \in {"idle", "send", "sendClose", "retire"}
       /\ ut[e].pc \in {"idle", "choose", "use", "post", "await"}
       /\ dn[e].id \in IDs /\ ut[e].id \in IDs
       /\ \A k \in 1..Len(ev[e]) : ev[e][k].kind \in EventKind
  /\ intr \in [Ends -> [pc : {"no", "close", "hangup", "notify", "await", "join", "done"},
                        by : Callers \cup {"none"}]]
  /\ funcs \in [Ends -> BOOLEAN]
  /\ usr \in [Ends -> {"run", "wedged", "stop", "join", "stopped"}]
  /\ creates \in [Ends -> 0..MaxCreates]
  /\ notified \in [Ends -> Nat]
  /\ dangling \in SUBSET {"closeStream", "closeItem", "downstream", "upstream", "closeLog"}

(* After YMPlexerStart: __YMPlexerInitAsMaster and ...AsSlave leave the last  *)
(* id such that the first stream gets the smallest id of the right parity.    *)
Init ==
  /\ active = [e \in Ends |-> TRUE]
  /\ lastID = [e \in Ends |-> MaxID - (IF MyStreamsEven(e) THEN 1 ELSE 0)]
  /\ table = [e \in Ends |-> {}]
  /\ str = [e \in Ends |-> [i \in IDs |-> NoStream]]
  /\ wire = [e \in Ends |-> <<>>]
  /\ open = [e \in Ends |-> TRUE] /\ link = TRUE
  /\ closeReq = [e \in Ends |-> {}]
  /\ dn = [e \in Ends |-> Idle] /\ ut = [e \in Ends |-> Idle]
  /\ ev = [e \in Ends |-> <<>>]
  /\ intr = [e \in Ends |-> [pc |-> "no", by |-> "none"]]
  /\ funcs = [e \in Ends |-> TRUE]
  /\ usr = [e \in Ends |-> "run"]
  /\ creates = [e \in Ends |-> 0]
  /\ notified = [e \in Ends |-> 0]
  /\ calls = [e \in Ends |-> [i \in IDs |-> <<>>]]
  /\ dangling = {}

(* The thread is not inside __YMPlexerInterrupt.                              *)
Free(e, who) == ~(intr[e].by = who /\ intr[e].pc \notin {"no", "done"})
(* streamsLock is only kept across steps by a CreateStream that ran out of    *)
(* ids; every other holder releases it in the same step.                      *)
StreamsLockFree(e) == usr[e] # "wedged"

(* Mutant: every caller goes on.                                              *)
InterruptAgain(e, who) ==
  /\ active' = [active EXCEPT ![e] = FALSE]
  /\ intr' = [intr EXCEPT ![e] = [pc |-> "close", by |-> who]]

(* __YMPlexerInterrupt up to the unlock of interruptionLock: only the first   *)
(* caller goes on.                                                            *)
Interrupt(e, who) ==
  /\ active' = [active EXCEPT ![e] = FALSE]
  /\ intr' = IF active[e] THEN [intr EXCEPT ![e] = [pc |-> "close", by |-> who]] ELSE intr
NoInterrupt == UNCHANGED <<active, intr>>

(* __YMPlexerCallbackFunctionWithName: a synchronous dispatch to the event    *)
(* queue on behalf of a thread that waits for it.                             *)
Post(e, kind, i, who) ==
  ev' = [ev EXCEPT ![e] = Append(@, [kind |-> kind, id |-> i, by |-> who])]

Dangle(e, i, where) ==
  dangling' = IF str[e][i].info = "freed" THEN dangling \cup {where} ELSE dangling

-----------------------------------------------------------------------------
(* The user of an end.                                                        *)

(* Mutant: the ids do not wrap around.                                        *)
NextIDUnbounded(e) == lastID[e] + 2

NextID(e) ==
  IF lastID[e] >= MaxID - 1 THEN (IF MyStreamsEven(e) THEN 0 ELSE 1)
  ELSE lastID[e] + 2

(* YMPlexerCreateStream.  With the next id still in use the plexer is         *)
(* interrupted, under the streams lock that interruption needs.               *)
CreateStream(e) ==
  /\ usr[e] = "run" /\ e \in Creators /\ creates[e] < MaxCreates
  /\ LET i == NextID(e) IN
     /\ lastID' = [lastID EXCEPT ![e] = i]
     /\ creates' = [creates EXCEPT ![e] = @ + 1]
     /\ IF i \in table[e]
        THEN /\ Interrupt(e, "user")
             /\ usr' = IF active[e] THEN [usr EXCEPT ![e] = "wedged"] ELSE usr
             /\ UNCHANGED <<table, str>>
        ELSE /\ table' = [table EXCEPT ![e] = @ \cup {i}]
             /\ str' = [str EXCEPT ![e][i] = NewStream(TRUE)]
             /\ NoInterrupt /\ UNCHANGED usr
  /\ UNCHANGED <<wire, open, link, closeReq, dn, ut, ev, funcs, notified, calls, dangling>>

(* YMStreamWriteDown                                                          *)
WriteDown(e, i) ==
  /\ str[e][i].user = "open"
  /\ str[e][i].wrote < (IF str[e][i].local THEN MaxWrites ELSE MaxReplies)
  /\ str' = [str EXCEPT ![e][i].wrote = @ + 1,
                        ![e][i].down = Append(@, str[e][i].wrote + 1)]
  /\ UNCHANGED <<active, lastID, table, wire, open, link, closeReq, threadVars,
                 funcs, creates, notified, calls, dangling>>

(* What the application waits for before its originating end closes:          *)
(* "free" nothing; "flushed" that all it wrote has left its down pipe;        *)
(* "answered" also that each end has read all the other wrote; "settled" also *)
(* that the other end, if it was written to, has nothing more to write: its   *)
(* user made all its writes, and closes before or after, or closed already.   *)
Flushed(e, i) == str[e][i].down = <<>>
Answered(e, i) ==
  /\ Flushed(e, i)
  /\ Len(str[e][i].up) = str[Peer(e)][i].wrote
  /\ Len(str[Peer(e)][i].up) = str[e][i].wrote
Settled(e, i) ==
  /\ Answered(e, i)
  /\ str[e][i].wrote > 0 =>
       str[Peer(e)][i].user = "closed" \/ str[Peer(e)][i].wrote = MaxReplies
MayClose(e, i) ==
  /\ CloseRule # "never"
  /\ str[e][i].local /\ active[e] =>
       /\ CloseRule = "flushed" => Flushed(e, i)
       /\ CloseRule = "answered" => Answered(e, i)
       /\ CloseRule = "settled" => Settled(e, i)

(* Mutant: either end's close is handed to its down queue.                    *)
HandsCloseAlways(e, i) == active[e]

HandsClose(e, i) == str[e][i].local /\ active[e]

(* YMPlexerCloseStream: an originator's close is handed to the down queue.    *)
CloseStream(e, i) ==
  /\ str[e][i].user = "open" /\ MayClose(e, i)
  /\ str' = [str EXCEPT ![e][i].user = "closed"]
  /\ closeReq' = IF HandsClose(e, i) THEN [closeReq EXCEPT ![e] = @ \cup {i}]
                 ELSE closeReq
  /\ Dangle(e, i, "closeStream")
  /\ UNCHANGED <<active, lastID, table, wire, open, link, threadVars, funcs,
                 creates, notified, calls>>

(* YMPlexerStop: callbacks off, interruption unless it already happened, and  *)
(* a join of the event queue.                                                 *)
Stop(e) ==
  /\ e \in Failures /\ usr[e] = "run"
  /\ usr' = [usr EXCEPT ![e] = "stop"]
  /\ funcs' = [funcs EXCEPT ![e] = FALSE]
  /\ Interrupt(e, "user")
  /\ UNCHANGED <<lastID, table, str, wire, open, link, closeReq, dn, ut, ev,
                 creates, notified, calls, dangling>>

(* Mutant: YMPlexerStop does not join the event queue.                        *)
StopWithoutJoin(e) ==
  /\ usr[e] = "stop" /\ Free(e, "user")
  /\ usr' = [usr EXCEPT ![e] = "stopped"]
  /\ UNCHANGED <<active, lastID, table, str, wire, open, link, closeReq, dn, ut, ev,
                 intr, funcs, creates, notified, calls, dangling>>

StopJoin(e) ==
  /\ usr[e] = "stop" /\ Free(e, "user")
  /\ usr' = [usr EXCEPT ![e] = "join"]
  /\ Post(e, "join", 0, "user")
  /\ UNCHANGED <<active, lastID, table, str, wire, open, link, closeReq, dn, ut,
                 intr, funcs, creates, notified, calls, dangling>>

(* The transport fails (YMLocalSocketPairShutdown, a lost peer), or an owner  *)
(* closes its socket.                                                         *)
LinkFails ==
  /\ "link" \in Failures /\ link
  /\ link' = FALSE
  /\ UNCHANGED <<active, lastID, table, str, wire, open, closeReq, threadVars,
                 funcs, creates, notified, calls, dangling>>

-----------------------------------------------------------------------------
(* The down queue.                                                            *)

(* Mutant: the marker does not queue behind the user's data.                  *)
CloseItemFirst(e, i) ==
  /\ dn[e].pc = "idle" /\ Free(e, "down")
  /\ i \in closeReq[e]
  /\ closeReq' = [closeReq EXCEPT ![e] = @ \ {i}]
  /\ str' = [str EXCEPT ![e][i].userClosed = TRUE, ![e][i].down = <<Marker>> \o @]
  /\ Dangle(e, i, "closeItem")
  /\ UNCHANGED <<active, lastID, table, wire, open, link, threadVars, funcs,
                 creates, notified, calls>>

(* __ym_plexer_close_stream                                                   *)
CloseItem(e, i) ==
  /\ dn[e].pc = "idle" /\ Free(e, "down")
  /\ i \in closeReq[e]
  /\ closeReq' = [closeReq EXCEPT ![e] = @ \ {i}]
  /\ str' = [str EXCEPT ![e][i].userClosed = TRUE, ![e][i].down = Append(@, Marker)]
  /\ Dangle(e, i, "closeItem")
  /\ UNCHANGED <<active, lastID, table, wire, open, link, threadVars, funcs,
                 creates, notified, calls>>

Smaller(a, b) == IF a < b THEN a ELSE b

(* Mutant: the marker is not looked for.                                      *)
ClosesNever(e, i, chunk) == FALSE

(* The marker closes the stream only when it comes alone.                     *)
ClosesNow(e, i, chunk) == str[e][i].userClosed /\ chunk = <<Marker>>

(* __ym_plexer_service_downstream up to catch_close: what one read of the     *)
(* down pipe returns.                                                         *)
ServeDown(e, i) ==
  /\ dn[e].pc = "idle" /\ Free(e, "down") /\ active[e]
  /\ str[e][i].src \in {"live", "doomed"} /\ str[e][i].down # <<>>
  /\ LET pipe == str[e][i].down
         n == Smaller(Len(pipe), ReadMax)
         chunk == SubSeq(pipe, 1, n)
     IN /\ str' = [str EXCEPT ![e][i].down = SubSeq(pipe, n + 1, Len(pipe))]
        /\ dn' = [dn EXCEPT ![e] = [Idle EXCEPT !.pc = IF ClosesNow(e, i, chunk)
                                                      THEN "sendClose" ELSE "send",
                                                !.id = i, !.chunk = chunk]]
  /\ Dangle(e, i, "downstream")
  /\ UNCHANGED <<active, lastID, table, wire, open, link, closeReq, ut, ev, intr,
                 usr, funcs, creates, notified, calls>>

(* YMSecurityProviderWrite: it fails on a provider this end shut down or a    *)
(* broken transport; after the other end shut down it may fail, or the data   *)
(* is accepted and lost.                                                      *)
WriteOK(e) == open[e] /\ link
WriteFails(e) == ~(open[e] /\ link /\ open[Peer(e)])
Send(e, m) == wire' = IF open[Peer(e)] THEN [wire EXCEPT ![e] = Append(@, m)] ELSE wire

(* After a write that succeeded the thread looks at the active flag.          *)
InterruptIfInactive(e) == IF active[e] THEN NoInterrupt ELSE Interrupt(e, "down")

SendChunk(e) ==
  /\ dn[e].pc = "send"
  /\ dn' = [dn EXCEPT ![e] = Idle]
  /\ \/ /\ ~active[e]
        /\ UNCHANGED wire /\ NoInterrupt
     \/ /\ WriteOK(e) /\ Send(e, [id |-> dn[e].id, chunk |-> dn[e].chunk])
        /\ InterruptIfInactive(e)
     \/ /\ WriteFails(e) /\ UNCHANGED wire
        /\ Interrupt(e, "down")
  /\ UNCHANGED <<lastID, table, str, open, link, closeReq, ut, ev, usr, funcs,
                 creates, notified, calls, dangling>>

(* The close command; a failed write interrupts and the close goes on.        *)
SendClose(e) ==
  /\ dn[e].pc = "sendClose"
  /\ dn' = [dn EXCEPT ![e].pc = "retire"]
  /\ \/ /\ WriteOK(e) /\ Send(e, CloseMessage(dn[e].id))
        /\ InterruptIfInactive(e)
     \/ /\ WriteFails(e) /\ UNCHANGED wire
        /\ Interrupt(e, "down")
  /\ UNCHANGED <<lastID, table, str, open, link, closeReq, ut, ev, usr, funcs,
                 creates, notified, calls, dangling>>

(* Mutant: the stream's source is forgotten.                                  *)
RetireWithoutSource(e, i) ==
  /\ StreamsLockFree(e)
  /\ table' = [table EXCEPT ![e] = @ \ {i}]
  /\ str' = [str EXCEPT ![e][i].info = IF i \in table[e] THEN "freed" ELSE @]

(* __YMPlexerDestroySources for one stream, which does nothing on an inactive *)
(* plexer, then CHECK_REMOVE, which frees the user info of a listed stream.   *)
Retire(e, i) ==
  /\ StreamsLockFree(e)
  /\ table' = [table EXCEPT ![e] = @ \ {i}]
  /\ str' = [str EXCEPT
       ![e][i].src = IF active[e] /\ @ = "live" THEN "doomed" ELSE @,
       ![e][i].info = IF i \in table[e] THEN "freed" ELSE @]

RetireDown(e) ==
  /\ dn[e].pc = "retire" /\ Free(e, "down")
  /\ Retire(e, dn[e].id)
  /\ dn' = [dn EXCEPT ![e] = Idle]
  /\ UNCHANGED <<active, lastID, wire, open, link, closeReq, ut, ev, intr, usr,
                 funcs, creates, notified, calls, dangling>>

(* __ym_plexer_destroy_source_async on the global queue: YMDispatchSource-    *)
(* Destroy waits until the source is not being served.                        *)
DestroySource(e, i) ==
  /\ str[e][i].src = "doomed"
  /\ ~(dn[e].pc # "idle" /\ dn[e].id = i)
  /\ str' = [str EXCEPT ![e][i].src = "gone"]
  /\ UNCHANGED <<active, lastID, table, wire, open, link, closeReq, threadVars,
                 funcs, creates, notified, calls, dangling>>

-----------------------------------------------------------------------------
(* The up queue.                                                              *)

(* __ym_plexer_service_upstream: the header.                                  *)
ReadHeader(e) ==
  /\ ut[e].pc = "idle" /\ Free(e, "up") /\ active[e]
  /\ open[e] /\ wire[Peer(e)] # <<>>
  /\ wire' = [wire EXCEPT ![Peer(e)] = Tail(@)]
  /\ ut' = [ut EXCEPT ![e] = [Idle EXCEPT !.pc = "choose", !.id = Head(wire[Peer(e)]).id,
                                          !.chunk = Head(wire[Peer(e)]).chunk]]
  /\ UNCHANGED <<active, lastID, table, str, open, link, closeReq, dn, ev, intr, usr,
                 funcs, creates, notified, calls, dangling>>

(* Mutant: an even id, or an end whose own ids are even, refuses.             *)
RefusesMore(e, i) == Even(i) \/ MyStreamsEven(e)

(* A stream of our own making that we do not know: only noticed for even ids. *)
Refuses(e, i) == Even(i) /\ MyStreamsEven(e)

(* __YMPlexerChooseStreamWithID: an unknown id makes a stream, or interrupts. *)
ChooseStream(e) ==
  /\ ut[e].pc = "choose" /\ StreamsLockFree(e) /\ active[e]
  /\ LET i == ut[e].id
         known == i \in table[e]
     IN IF ~known /\ Refuses(e, i)
        THEN /\ ut' = [ut EXCEPT ![e] = Idle]
             /\ Interrupt(e, "up")
             /\ UNCHANGED <<table, str>>
        ELSE /\ ut' = [ut EXCEPT ![e].pc = "use", ![e].new = ~known]
             /\ table' = [table EXCEPT ![e] = @ \cup {i}]
             /\ str' = IF known THEN str ELSE [str EXCEPT ![e][i] = NewStream(FALSE)]
             /\ NoInterrupt
  /\ UNCHANGED <<lastID, wire, open, link, closeReq, dn, ev, usr, funcs, creates,
                 notified, calls, dangling>>

(* The header cannot be read: nothing left from an end that hung up, or a     *)
(* broken transport.  A read that fails because this end was interrupted      *)
(* interrupts again, which does nothing.                                      *)
ReadFails(e) ==
  /\ ut[e].pc = "idle" /\ Free(e, "up") /\ active[e]
  /\ ~open[e] \/ ~link \/ (wire[Peer(e)] = <<>> /\ ~open[Peer(e)])
  /\ Interrupt(e, "up")
  /\ UNCHANGED <<lastID, table, str, wire, open, link, closeReq, dn, ut, ev, usr,
                 funcs, creates, notified, calls, dangling>>

(* A close command: end of file for the reader, then the closing callback.    *)
UseClose(e) ==
  /\ ut[e].pc = "use" /\ ut[e].chunk = <<>> /\ active[e]
  /\ str' = [str EXCEPT ![e][ut[e].id].eof = TRUE]
  /\ Dangle(e, ut[e].id, "upstream")
  /\ ut' = [ut EXCEPT ![e] = IF funcs[e] THEN [@ EXCEPT !.pc = "post"] ELSE Idle]
  /\ UNCHANGED <<active, lastID, table, wire, open, link, closeReq, dn, ev, intr, usr,
                 funcs, creates, notified, calls>>

(* Mutant: every data message announces its stream.                           *)
AnnouncesAlways(e) == funcs[e]

Announces(e) == ut[e].new /\ funcs[e]

(* A data message: its payload goes through the stream's buffer to the up     *)
(* pipe, then the new-stream callback if this message made the stream.        *)
UseData(e) ==
  /\ ut[e].pc = "use" /\ ut[e].chunk # <<>> /\ active[e]
  /\ str' = [str EXCEPT ![e][ut[e].id].up = @ \o ut[e].chunk]
  /\ Dangle(e, ut[e].id, "upstream")
  /\ ut' = [ut EXCEPT ![e] = IF Announces(e) THEN [@ EXCEPT !.pc = "post"] ELSE Idle]
  /\ UNCHANGED <<active, lastID, table, wire, open, link, closeReq, dn, ev, intr, usr,
                 funcs, creates, notified, calls>>

(* The payload cannot be read.                                                *)
UseFails(e) ==
  /\ ut[e].pc = "use" /\ ut[e].chunk # <<>> /\ active[e]
  /\ ~open[e] \/ ~link
  /\ ut' = [ut EXCEPT ![e] = Idle]
  /\ Interrupt(e, "up")
  /\ UNCHANGED <<lastID, table, str, wire, open, link, closeReq, dn, ev, usr, funcs,
                 creates, notified, calls, dangling>>

(* The callback was found set: hand the notification to the event queue.      *)
PostUp(e) ==
  /\ ut[e].pc = "post"
  /\ Post(e, IF ut[e].chunk = <<>> THEN "closing" ELSE "new", ut[e].id, "up")
  /\ ut' = [ut EXCEPT ![e].pc = "await"]
  /\ UNCHANGED <<active, lastID, table, str, wire, open, link, closeReq, dn, intr, usr,
                 funcs, creates, notified, calls, dangling>>

(* Interrupted since the header was read: the message is dropped, and the     *)
(* thread interrupts in its turn.  A stream made for it in that case is shown *)
(* to nobody and is not represented.                                          *)
UseInactive(e) ==
  /\ ut[e].pc \in {"choose", "use"} /\ ~active[e]
  /\ ut[e].pc = "choose" => StreamsLockFree(e)
  /\ ut' = [ut EXCEPT ![e] = Idle]
  /\ Interrupt(e, "up")
  /\ UNCHANGED <<lastID, table, str, wire, open, link, closeReq, dn, ev, usr,
                 funcs, creates, notified, calls, dangling>>

-----------------------------------------------------------------------------
(* The event delivery queue: the head of ev is what its thread runs.          *)

(* Mutant: the thread that posted it is not signalled.                        *)
AnswerLost(e, by) ==
  /\ ev' = [ev EXCEPT ![e] = Tail(@)]
  /\ UNCHANGED <<ut, usr>>
  /\ intr' = IF by = "intr"
             THEN [intr EXCEPT ![e].pc = IF Head(ev[e]).kind = "join" THEN "done" ELSE "join"]
             ELSE intr

(* The dispatch is done: the thread that posted it goes on.                   *)
Answer(e, by) ==
  /\ ev' = [ev EXCEPT ![e] = Tail(@)]
  /\ ut' = IF by = "up" THEN [ut EXCEPT ![e] = Idle] ELSE ut
  /\ intr' = IF by = "intr"
             THEN [intr EXCEPT ![e].pc = IF Head(ev[e]).kind = "join" THEN "done" ELSE "join"]
             ELSE intr
  /\ usr' = IF by = "user" THEN [usr EXCEPT ![e] = "stopped"] ELSE usr

Running(e, kind) == ev[e] # <<>> /\ Head(ev[e]).kind = kind
Proceed(e, kind) == ev' = [ev EXCEPT ![e] = <<[Head(@) EXCEPT !.kind = kind]>> \o Tail(@)]

(* Each notification first looks whether its callback is set; YMPlexerStop    *)
(* may clear it between that look and the call.                               *)
FindCallback(e) ==
  /\ funcs[e]
  /\ \/ Running(e, "new") /\ Proceed(e, "callNew")
     \/ Running(e, "closing") /\ Proceed(e, "callClosing")
     \/ Running(e, "interrupted") /\ Proceed(e, "callInterrupted")
  /\ UNCHANGED <<active, lastID, table, str, wire, open, link, closeReq, dn, ut, intr,
                 usr, funcs, creates, notified, calls, dangling>>

NoCallback(e) ==
  /\ ~funcs[e]
  /\ \/ /\ Running(e, "new") \/ Running(e, "interrupted")
        /\ Answer(e, Head(ev[e]).by)
     \/ Running(e, "closing") /\ Proceed(e, "closed") /\ UNCHANGED <<ut, intr, usr>>
  /\ UNCHANGED <<active, lastID, table, str, wire, open, link, closeReq, dn, funcs,
                 creates, notified, calls, dangling>>

(* __ym_plexer_notify_new_stream: the callback hands the stream to the user.  *)
NotifyNewStream(e) ==
  /\ Running(e, "callNew")
  /\ calls' = [calls EXCEPT ![e][Head(ev[e]).id] = Append(@, "new")]
  /\ str' = [str EXCEPT ![e][Head(ev[e]).id].user = "open"]
  /\ Answer(e, "up")
  /\ UNCHANGED <<active, lastID, table, wire, open, link, closeReq, dn, funcs,
                 creates, notified, dangling>>

(* __ym_plexer_notify_stream_closing: the callback ...                        *)
NotifyClosing(e) ==
  /\ Running(e, "callClosing")
  /\ calls' = [calls EXCEPT ![e][Head(ev[e]).id] = Append(@, "closing")]
  /\ Proceed(e, "closed")
  /\ UNCHANGED <<active, lastID, table, str, wire, open, link, closeReq, dn, ut,
                 intr, usr, funcs, creates, notified, dangling>>

(* ... then the stream is retired; the up thread, back from the dispatch,     *)
(* reads the user info for its log line.                                      *)
RetireRemote(e) ==
  /\ Running(e, "closed")
  /\ Retire(e, Head(ev[e]).id)
  /\ Answer(e, "up")
  /\ dangling' = IF str'[e][Head(ev[e]).id].info = "freed"
                 THEN dangling \cup {"closeLog"} ELSE dangling
  /\ UNCHANGED <<active, lastID, wire, open, link, closeReq, dn, funcs, creates,
                 notified, calls>>

(* __ym_plexer_notify_interrupted                                             *)
NotifyInterrupted(e) ==
  /\ Running(e, "callInterrupted")
  /\ notified' = [notified EXCEPT ![e] = @ + 1]
  /\ Answer(e, "intr")
  /\ UNCHANGED <<active, lastID, table, str, wire, open, link, closeReq, dn, funcs,
                 creates, calls, dangling>>

(* __ym_dispatch_utils_join_func                                              *)
Join(e) ==
  /\ Running(e, "join")
  /\ Answer(e, Head(ev[e]).by)
  /\ UNCHANGED <<active, lastID, table, str, wire, open, link, closeReq, dn, funcs,
                 creates, notified, calls, dangling>>

-----------------------------------------------------------------------------
(* The rest of __YMPlexerInterrupt, by the thread whose call was the first.   *)
(* Both calls to __YMPlexerDestroySources return at once: active is false.    *)

IntrStep(e, from, to) == intr[e].pc = from /\ intr' = [intr EXCEPT ![e].pc = to]

(* YMSecurityProviderClose.  TLS shuts the connection down both ways; the     *)
(* passthrough does nothing, and its socket lives until its owner closes it   *)
(* (LinkFails).                                                               *)
CloseProvider(e) ==
  /\ IntrStep(e, "close", "hangup")
  /\ open' = IF Provider = "tls" THEN [open EXCEPT ![e] = FALSE] ELSE open
  /\ UNCHANGED <<active, lastID, table, str, wire, link, closeReq, dn, ut, ev, usr,
                 funcs, creates, notified, calls, dangling>>

(* Mutant: the list is replaced without hanging up its streams.               *)
HangUpNobody(e) ==
  /\ IntrStep(e, "hangup", "notify")
  /\ StreamsLockFree(e)
  /\ table' = [table EXCEPT ![e] = {}]
  /\ UNCHANGED <<active, lastID, str, wire, open, link, closeReq, dn, ut, ev, usr, funcs,
                 creates, notified, calls, dangling>>

(* Every listed stream's reader gets end of file; the list is replaced.       *)
HangUp(e) ==
  /\ IntrStep(e, "hangup", "notify")
  /\ StreamsLockFree(e)
  /\ str' = [str EXCEPT ![e] = [i \in IDs |->
               [str[e][i] EXCEPT !.eof = @ \/ i \in table[e]]]]
  /\ table' = [table EXCEPT ![e] = {}]
  /\ UNCHANGED <<active, lastID, wire, open, link, closeReq, dn, ut, ev, usr, funcs,
                 creates, notified, calls, dangling>>

(* Mutant: the callback is looked for the wrong way round.                    *)
PostInterruptedIfUnset(e) ==
  /\ intr[e].pc = "notify"
  /\ IF ~funcs[e]
     THEN /\ Post(e, "interrupted", 0, "intr")
          /\ intr' = [intr EXCEPT ![e].pc = "await"]
     ELSE intr' = [intr EXCEPT ![e].pc = "join"] /\ UNCHANGED ev
  /\ UNCHANGED <<active, lastID, table, str, wire, open, link, closeReq, dn, ut, usr,
                 funcs, creates, notified, calls, dangling>>

PostInterrupted(e) ==
  /\ intr[e].pc = "notify"
  /\ IF funcs[e]
     THEN /\ Post(e, "interrupted", 0, "intr")
          /\ intr' = [intr EXCEPT ![e].pc = "await"]
     ELSE intr' = [intr EXCEPT ![e].pc = "join"] /\ UNCHANGED ev
  /\ UNCHANGED <<active, lastID, table, str, wire, open, link, closeReq, dn, ut, usr,
                 funcs, creates, notified, calls, dangling>>

PostJoin(e) ==
  /\ IntrStep(e, "join", "await")
  /\ Post(e, "join", 0, "intr")
  /\ UNCHANGED <<active, lastID, table, str, wire, open, link, closeReq, dn, ut, usr,
                 funcs, creates, notified, calls, dangling>>

-----------------------------------------------------------------------------
DownThread(e) ==
  \/ \E i \in IDs : CloseItem(e, i) \/ ServeDown(e, i)
  \/ SendChunk(e) \/ SendClose(e) \/ RetireDown(e)
UpThread(e) ==
  ReadHeader(e) \/ ReadFails(e) \/ ChooseStream(e) \/ UseClose(e) \/ UseData(e)
    \/ UseFails(e) \/ UseInactive(e) \/ PostUp(e)
EventThread(e) ==
  FindCallback(e) \/ NoCallback(e) \/ NotifyNewStream(e) \/ NotifyClosing(e)
    \/ RetireRemote(e) \/ NotifyInterrupted(e) \/ Join(e)
Interrupter(e) ==
  CloseProvider(e) \/ HangUp(e) \/ PostInterrupted(e) \/ PostJoin(e)
User(e) ==
  \/ CreateStream(e) \/ Stop(e) \/ StopJoin(e)
  \/ \E i \in IDs : WriteDown(e, i) \/ CloseStream(e, i)
GlobalQueue(e) == \E i \in IDs : DestroySource(e, i)

Next ==
  \/ LinkFails
  \/ \E e \in Ends : User(e) \/ DownThread(e) \/ UpThread(e) \/ EventThread(e)
                       \/ Interrupter(e) \/ GlobalQueue(e)

Spec == Init /\ [][Next]_vars

(* The queues' threads and the interrupting thread are scheduled.  No         *)
(* fairness between the streams of a down queue is assumed: the select loop   *)
(* looks at all of them, and each carries a bounded number of writes here.    *)
Fairness ==
  \A e \in Ends :
    /\ WF_vars(DownThread(e)) /\ WF_vars(UpThread(e)) /\ WF_vars(EventThread(e))
    /\ WF_vars(Interrupter(e)) /\ WF_vars(GlobalQueue(e)) /\ WF_vars(StopJoin(e))

FairSpec == Spec /\ Fairness
-----------------------------------------------------------------------------
(* Properties.                                                                *)

(* What one end's reader has received on a stream is a prefix of what the     *)
(* other end's user wrote: in order, no gap, nothing twice, and never the     *)
(* marker of a close, although every stream shares one wire and is served in  *)
(* any order.                                                                 *)
DeliveredInOrder ==
  \A e \in Ends : \A i \in IDs :
    LET got == str[e][i].up IN
    /\ Len(got) <= str[Peer(e)][i].wrote
    /\ \A k \in 1..Len(got) : got[k] = k

(* End of file on a stream of a healthy connection means complete: the close  *)
(* command does not overtake the originator's data, which waits in the down   *)
(* pipe, with the down thread, on the wire or with the up thread.             *)
EofMeansComplete ==
  \A e \in Ends : \A i \in IDs :
    active[e] /\ str[e][i].eof => Len(str[e][i].up) = str[Peer(e)][i].wrote

(* The user hears of a stream at most once, of its closing at most once and   *)
(* after it heard of the stream, and never of a stream of its own making.     *)
(* A stream closed before anything was written is only ever heard closing.    *)
CallbacksOrdered ==
  \A e \in Ends : \A i \in IDs :
    /\ Owns(e, i) => calls[e][i] = <<>>
    /\ calls[e][i] \in {<<>>, <<"new">>, <<"new", "closing">>, <<"closing">>}
    /\ calls[e][i] = <<"closing">> => str[Peer(e)][i].wrote = 0

(* The user is told of an interruption at most once, although the down        *)
(* thread, the up thread and the user may all run into it.                    *)
NotifiedOnce == \A e \in Ends : notified[e] <= 1

(* After YMPlexerStop has returned the user is not called back any more:      *)
(* no callback was under way, and none starts.                                *)
StoppedIsQuiet ==
  [][\A e \in Ends : usr[e] = "stopped" =>
       calls'[e] = calls[e] /\ notified'[e] = notified[e]]_vars

(* A stream's user info is not used after CHECK_REMOVE freed it, by the user, *)
(* by a close under way, by the down thread or by the up thread.  (The log    *)
(* line at the end of a remote close, YMPlexer.c:684, always does.)           *)
InfoOutlivesUse == dangling \subseteq {"closeLog"}

(* The plexer's own use of it, by a close under way, by the down thread or by *)
(* the up thread, ends before CHECK_REMOVE frees it, although four threads    *)
(* and two ends take a stream down; only a user that closes after the other   *)
(* end did finds it freed (YMPlexer.c:362), and the log line.  What is read   *)
(* from freed memory is taken to be what was there.                           *)
PlexerUsesLiveInfo == dangling \subseteq {"closeLog", "closeStream"}

(* A connection on which nothing failed and nobody stopped stays up.          *)
HealthyStaysUp ==
  (\A e \in Ends : active[e]) \/ ~link \/ (\E e \in Ends : usr[e] \in {"stop", "join", "stopped"})

(* Everything written to a stream reaches the other end's reader, unless the  *)
(* connection is interrupted.                                                 *)
EveryWriteArrives ==
  \A e \in Ends : \A i \in IDs : \A k \in 1..MaxWrites :
    str[e][i].wrote >= k ~>
      Len(str[Peer(e)][i].up) >= k \/ \E x \in Ends : ~active[x]

(* A stream its originator has closed is torn down at both ends: delisted,    *)
(* its dispatch source destroyed, its remote reader at end of file.           *)
EveryCloseCompletes ==
  \A e \in Ends : \A i \in IDs :
    (str[e][i].local /\ str[e][i].user = "closed") ~>
      \/ /\ i \notin table[e] \cup table[Peer(e)]
         /\ str[e][i].src = "gone" /\ str[Peer(e)][i].src = "gone"
         /\ str[Peer(e)][i].eof
      \/ \E x \in Ends : ~active[x]

(* An interruption of one end reaches the other, and leaves no reader of a    *)
(* stream waiting for data that cannot come; a stream the user creates after  *)
(* the list was emptied stays listed and is not hung up.  This is so with     *)
(* TLS, whose close the other end sees; the passthrough provider's does       *)
(* nothing (YMSecurityProvider.c:90), and there it does not hold.             *)
InterruptionSpreads ==
  \A e \in Ends : ~active[e] ~>
    /\ ~active[Peer(e)]
    /\ \A x \in Ends : \A i \in IDs :
         str[x][i].user = "open" => str[x][i].eof \/ i \in table[x]

(* The user hears of every interruption it did not ask for.                   *)
InterruptionNotified ==
  \A e \in Ends : ~active[e] ~> (notified[e] = 1 \/ ~funcs[e])

(* YMPlexerStop returns.                                                      *)
StopReturns == \A e \in Ends : usr[e] = "stop" ~> usr[e] = "stopped"
=============================================================================
