------------------------------ MODULE Transfer ------------------------------
(***************************************************************************)
(* One stream of a connection, from its creation to its close: the         *)
(* handshake that agrees on a compression (src/src/YMConnection.c), and    *)
(* the files its originator forwards into it and the remote end forwards   *)
(* out of it (YMStreamForward in src/src/YMStream.c), over the framing of  *)
(* src/src/YMCompression.c.                                                *)
(*                                                                         *)
(* What the plexer does for a stream (module Plexer) is here: it moves     *)
(* bytes from the down pipe of one end to the up pipe of the other, in     *)
(* order, until the stream is closed or the connection interrupted, and    *)
(* then closes the up pipes.                                               *)
(*                                                                         *)
(* A pipe holds units: what is read as a whole or not at all.  That is one *)
(* byte of a file or a whole command if it is written raw, and what one    *)
(* write puts behind a header if it is written with LZ4 (a packet of which *)
(* only a part arrives is discarded).  The marker of a close is a raw byte *)
(* whatever the framing.                                                   *)
(***************************************************************************)
EXTENDS Integers, Sequences, SequencesExt

CONSTANTS
  Compressions, (* what the user asks for: "none", "lz4", "other"             *)
  Forwards,     (* how many files go through the stream                       *)
  Sizes,        (* how many bytes a file can have                             *)
  Bounds,       (* how many bytes the sender can ask to forward               *)
  BufferSize,   (* bytes forwarded at a time (16384 in the code)              *)
  PipeSize      (* units a pipe holds                                         *)

ASSUME TransferAssumption ==
  /\ Compressions \subseteq {"none", "lz4", "other"}
  /\ Forwards \in Nat /\ BufferSize \in Nat \ {0} /\ PipeSize \in Nat
  /\ Sizes \subseteq Nat /\ Bounds \subseteq Nat
  /\ PipeSize > BufferSize

(* The commands that begin a file and end one whose length was not told, as   *)
(* the numbers the code sends; a positive command is the length of a chunk.   *)
Bounded == -2
Unbounded == -3
End == -4

Side == {"originator", "remote"}

VARIABLES
  compression, (* what the originator asks for                                *)
  lz4,         (* which end has replaced its compressors by LZ4               *)
  down, up,    (* the originator's down pipe, the remote end's up pipe        *)
  answer,      (* the response: where it is, what it says and its framing     *)
  cut,         (* the connection was interrupted                              *)
  ended,       (* the remote plexer was told of the close                     *)
  aborted,     (* which process an assertion ended                            *)
  opc, rpc,    (* where the two users' threads are                            *)
  plans,       (* the files forwarded so far: their size and their bound      *)
  sent,        (* bytes of the last of them that were written to the stream   *)
  received,    (* per file, the positions of the bytes written on the other end *)
  left,        (* what the reader still expects of a bounded file, or Unbounded *)
  want, got,   (* the reader's current read                                   *)
  refused      (* the remote end did not accept the stream                    *)

pipes == <<down, up, answer, cut, ended>>
writer == <<opc, plans, sent>>
reader == <<rpc, received, left, want, got>>
vars == <<compression, lz4, pipes, aborted, writer, reader, refused>>

Unit == [lz4 : BOOLEAN, kind : {"init", "command", "length", "data", "close"},
         n : Int, at : Nat]

TypeOK ==
  /\ compression \in Compressions /\ lz4 \in [Side -> BOOLEAN]
  /\ down \in Seq(Unit) /\ Len(down) <= PipeSize
  /\ up \in Seq(Unit) /\ Len(up) <= PipeSize
  /\ answer \in [at : {"none", "sent", "arrived"}, okay : BOOLEAN, lz4 : BOOLEAN]
  /\ cut \in BOOLEAN /\ ended \in BOOLEAN /\ refused \in BOOLEAN
  /\ aborted \in [Side -> BOOLEAN]
  /\ opc \in {"create", "await", "ready", "chunk", "end", "done"}
  /\ rpc \in {"init", "ready", "command", "length", "header", "data", "finish", "done"}
  /\ plans \in Seq([size : Sizes, bound : Bounds \cup {Unbounded}]) /\ Len(plans) <= Forwards
  /\ sent \in Nat /\ want \in Nat /\ got \in 0 .. want
  /\ received \in Seq(Seq(Nat)) /\ Len(received) <= Forwards
  /\ left \in Nat \cup {Unbounded}

Init ==
  /\ compression \in Compressions /\ lz4 = [s \in Side |-> FALSE]
  /\ down = <<>> /\ up = <<>> /\ answer = [at |-> "none", okay |-> FALSE, lz4 |-> FALSE]
  /\ cut = FALSE /\ ended = FALSE /\ refused = FALSE
  /\ aborted = [s \in Side |-> FALSE]
  /\ opc = "create" /\ plans = <<>> /\ sent = 0
  /\ rpc = "init" /\ received = <<>> /\ left = Unbounded /\ want = 0 /\ got = 0

Abort(s) == aborted' = [aborted EXCEPT ![s] = TRUE]
AtO(place) == opc = place /\ ~aborted["originator"]
AtR(place) == rpc = place /\ ~aborted["remote"]
Smaller(a, b) == IF a <= b THEN a ELSE b

-----------------------------------------------------------------------------
(* Writing to a stream.                                                       *)

Command(kind, n) == <<[lz4 |-> lz4["originator"], kind |-> kind, n |-> n, at |-> 0]>>

(* n bytes of the file from position from on: one packet, or the bytes.       *)
Data(from, n) ==
  IF lz4["originator"]
  THEN <<[lz4 |-> TRUE, kind |-> "data", n |-> n, at |-> from]>>
  ELSE [i \in 1 .. n |-> [lz4 |-> FALSE, kind |-> "data", n |-> 1, at |-> from + i - 1]]

(* Mutant: the pipe takes everything.                                         *)
WriteDownAtOnce(units) == down' = down \o units

(* YMStreamWriteDown: waits for room in the pipe.                             *)
WriteDown(units) ==
  /\ Len(down) + Len(units) <= PipeSize
  /\ down' = down \o units

-----------------------------------------------------------------------------
(* The plexers.                                                               *)

(* The marker that __ym_plexer_close_stream puts into the down pipe.          *)
Marker == [lz4 |-> FALSE, kind |-> "close", n |-> 0, at |-> 0]

(* __ym_plexer_service_downstream: what one read of the down pipe returns, up *)
(* to all that is there, goes to the other end as one message.  The marker is *)
(* a close only if it was read alone; behind data it is sent as data.         *)
Move ==
  /\ ~cut
  /\ \E n \in 1 .. Len(down) :
       LET chunk == SubSeq(down, 1, n) IN
       /\ down' = SubSeq(down, n + 1, Len(down))
       /\ IF chunk = <<Marker>>
          THEN ended' = TRUE /\ UNCHANGED up
          ELSE Len(up) + n <= PipeSize /\ up' = up \o chunk /\ UNCHANGED ended
  /\ UNCHANGED <<compression, lz4, answer, cut, aborted, writer, reader, refused>>

MoveAnswer ==
  /\ ~cut /\ answer.at = "sent"
  /\ answer' = [answer EXCEPT !.at = "arrived"]
  /\ UNCHANGED <<compression, lz4, down, up, cut, ended, aborted, writer, reader, refused>>

(* Interruption: the link fails, or the process of one end is gone.           *)
Cut ==
  /\ ~cut
  /\ cut' = TRUE
  /\ UNCHANGED <<compression, lz4, down, up, answer, ended, aborted, writer, reader, refused>>

Gone == (\E s \in Side : aborted[s]) /\ Cut

(* Mutant: an interruption leaves the up pipes open.                          *)
AtEOFIfEnded == up = <<>> /\ ended

(* What YMReadFull reports when nothing more is there.                        *)
AtEOF == up = <<>> /\ (cut \/ ended)

-----------------------------------------------------------------------------
(* The handshake.                                                             *)

(* __YMConnectionInitializeOutgoingStream sends the initialisation raw and    *)
(* then replaces the compressors (anything but LZ4 makes a pass-through).     *)
CreateStream ==
  /\ AtO("create")
  /\ WriteDown(Command("init", 0))
  /\ lz4' = [lz4 EXCEPT !["originator"] = (compression = "lz4")]
  /\ opc' = "await"
  /\ UNCHANGED <<compression, up, answer, cut, ended, aborted, plans, sent, reader, refused>>

(* Mutant: the response is written before the compressors are set.            *)
AnswerRaw(okay) == [at |-> "sent", okay |-> okay, lz4 |-> FALSE]

(* The response is written with the compressors just set.                     *)
Answer(okay) == [at |-> "sent", okay |-> okay, lz4 |-> okay /\ compression = "lz4"]

(* __YMConnectionInitializeIncomingStream, inside the plexer's callback.  A   *)
(* refused stream is only released; the close it asks for is the originator's *)
(* to make.                                                                   *)
AcceptStream ==
  /\ AtR("init")
  /\ \/ /\ AtEOF
        /\ rpc' = "done"
        /\ UNCHANGED <<up, lz4, answer, refused>>
     \/ /\ up # <<>>
        /\ up' = Tail(up)
        /\ LET okay == compression \in {"none", "lz4"} IN
             /\ refused' = ~okay
             /\ lz4' = [lz4 EXCEPT !["remote"] = (compression = "lz4")]
             /\ answer' = Answer(okay)
             /\ rpc' = IF okay THEN "ready" ELSE "done"
  /\ UNCHANGED <<compression, down, cut, ended, aborted, writer, received, left, want, got>>

(* The response, or the end of file, makes no difference: okay is still set   *)
(* from the compressors, and YMConnectionCreateStream returns the stream.     *)
StreamCreated ==
  /\ AtO("await")
  /\ \/ answer.at = "arrived"
     \/ cut
  /\ opc' = "ready"
  /\ UNCHANGED <<compression, lz4, pipes, aborted, plans, sent, reader, refused>>

-----------------------------------------------------------------------------
(* YMStreamReadFromFile: the originator forwards a file into the stream.      *)

Plan == Last(plans)
Limited == Plan.bound # Unbounded
Desired == IF Limited THEN Smaller(Plan.bound - sent, BufferSize) ELSE BufferSize
(* YMReadFull of the file.                                                    *)
Actual == Smaller(Desired, Plan.size - sent)

ForwardFile(size, bound) ==
  /\ AtO("ready") /\ Len(plans) < Forwards
  /\ plans' = Append(plans, [size |-> size, bound |-> bound])
  /\ sent' = 0
  /\ WriteDown(IF bound = Unbounded
               THEN Command("command", Unbounded)
               ELSE Command("command", Bounded) \o Command("length", bound))
  /\ opc' = "chunk"
  /\ UNCHANGED <<compression, lz4, up, answer, cut, ended, aborted, reader, refused>>

(* What is written of one buffer: of a file without a bound, its length first. *)
Chunk ==
  (IF Limited \/ Actual = 0 THEN <<>> ELSE Command("command", Actual))
  \o (IF Actual = 0 THEN <<>> ELSE Data(sent, Actual))

(* Mutant: only the end of the file ends the loop.                            *)
LastChunkAtEOF == Actual < Desired

(* End of the file, or of what was to be sent.                                *)
LastChunk == Actual < Desired \/ (Limited /\ sent + Actual = Plan.bound)

ForwardChunk ==
  /\ AtO("chunk")
  /\ IF Desired = 0
     THEN Abort("originator") /\ UNCHANGED <<down, sent, opc>>
     ELSE /\ WriteDown(Chunk)
          /\ sent' = sent + Actual
          /\ opc' = IF LastChunk THEN "end" ELSE "chunk"
          /\ UNCHANGED aborted
  /\ UNCHANGED <<compression, lz4, up, answer, cut, ended, plans, reader, refused>>

(* The end command, or the assertion that the bound was met.                  *)
ForwardEnd ==
  /\ AtO("end")
  /\ IF Limited
     THEN /\ aborted' = [aborted EXCEPT !["originator"] = (sent # Plan.bound)]
          /\ UNCHANGED down
     ELSE WriteDown(Command("command", End)) /\ UNCHANGED aborted
  /\ opc' = "ready"
  /\ UNCHANGED <<compression, lz4, up, answer, cut, ended, plans, sent, reader, refused>>

(* YMConnectionCloseStream, by the user or after an asynchronous forward.     *)
CloseStream ==
  /\ AtO("ready") /\ Len(plans) = Forwards
  /\ IF cut THEN UNCHANGED down ELSE WriteDown(<<Marker>>)
  /\ opc' = "done"
  /\ UNCHANGED <<compression, lz4, up, answer, cut, ended, aborted, plans, sent, reader, refused>>

-----------------------------------------------------------------------------
(* YMStreamWriteToFile: the remote end forwards the stream into a file.       *)

Commands(kind) == up # <<>> /\ Head(up).kind = kind

ReceiveFile ==
  /\ AtR("ready") /\ Len(received) < Forwards
  /\ received' = Append(received, <<>>)
  /\ rpc' = "command"
  /\ UNCHANGED <<compression, lz4, pipes, aborted, writer, left, want, got, refused>>

(* The reads of commands and lengths are asserted to be complete.             *)
ReadCutShort ==
  /\ AtR("command") \/ AtR("length") \/ AtR("header")
  /\ AtEOF
  /\ Abort("remote")
  /\ UNCHANGED <<compression, lz4, pipes, writer, reader, refused>>

ReadCommand ==
  /\ AtR("command") /\ Commands("command")
  /\ up' = Tail(up)
  /\ rpc' = IF Head(up).n = Bounded THEN "length" ELSE "header"
  /\ left' = Unbounded
  /\ UNCHANGED <<compression, lz4, down, answer, cut, ended, aborted, writer, received, want,
                 got, refused>>

(* Begin to read the next buffer of a bounded file.                           *)
Expect(n) ==
  /\ left' = n /\ want' = Smaller(n, BufferSize) /\ got' = 0
  /\ rpc' = "data"

(* The length the sender tells takes the place of the caller's.               *)
ReadLength ==
  /\ AtR("length") /\ Commands("length")
  /\ up' = Tail(up)
  /\ Expect(Head(up).n)
  /\ UNCHANGED <<compression, lz4, down, answer, cut, ended, aborted, writer, received, refused>>

ReadHeader ==
  /\ AtR("header") /\ Commands("command")
  /\ up' = Tail(up)
  /\ got' = 0
  /\ IF Head(up).n = End
     THEN rpc' = "finish" /\ want' = 0
     ELSE rpc' = "data" /\ want' = Head(up).n
  /\ UNCHANGED <<compression, lz4, down, answer, cut, ended, aborted, writer, received, left,
                 refused>>

(* The buffer is written to the file: n bytes from position at on.            *)
Write(at, n) ==
  received' = [received EXCEPT ![Len(received)] = @ \o [i \in 1 .. n |-> at + i - 1]]

(* Mutant: what is left is forgotten when it does not fill a buffer.          *)
AfterBufferFull ==
  IF left = Unbounded
  THEN rpc' = "header" /\ UNCHANGED <<left, want, got>>
  ELSE IF left - want < BufferSize
  THEN rpc' = "finish" /\ left' = 0 /\ UNCHANGED <<want, got>>
  ELSE Expect(left - want)

(* After a full buffer: the next, the next header or the end.                 *)
AfterBuffer ==
  IF left = Unbounded
  THEN rpc' = "header" /\ UNCHANGED <<left, want, got>>
  ELSE IF left = want
  THEN rpc' = "finish" /\ left' = 0 /\ UNCHANGED <<want, got>>
  ELSE Expect(left - want)

(* YMReadFull of a raw stream, byte by byte.  (The bytes go to the file when  *)
(* the buffer is full or the stream at its end, with nothing in between.)     *)
ReadByte ==
  /\ AtR("data") /\ ~lz4["remote"] /\ want > 0 /\ up # <<>>
  /\ up' = Tail(up)
  /\ Write(Head(up).at, Head(up).n)
  /\ IF got + 1 = want
     THEN AfterBuffer
     ELSE got' = got + 1 /\ UNCHANGED <<rpc, left, want>>
  /\ UNCHANGED <<compression, lz4, down, answer, cut, ended, aborted, writer, refused>>

(* YMStreamReadUp aborts when a packet is not as long as the read.            *)
Fits(unit) == unit.n = want

(* YMLZ4Read.                                                                 *)
ReadPacket ==
  /\ AtR("data") /\ lz4["remote"] /\ up # <<>>
  /\ up' = Tail(up)
  /\ IF Fits(Head(up))
     THEN Write(Head(up).at, Head(up).n) /\ AfterBuffer /\ UNCHANGED aborted
     ELSE Abort("remote") /\ UNCHANGED <<rpc, received, left, want, got>>
  /\ UNCHANGED <<compression, lz4, down, answer, cut, ended, writer, refused>>

(* The end of file in a buffer is the end of the transfer.  A raw read of no  *)
(* bytes aborts.                                                              *)
ReadEOF ==
  /\ AtR("data")
  /\ IF want = 0 /\ ~lz4["remote"]
     THEN Abort("remote") /\ UNCHANGED rpc
     ELSE AtEOF /\ rpc' = "finish" /\ UNCHANGED aborted
  /\ UNCHANGED <<compression, lz4, pipes, writer, received, left, want, got, refused>>

(* A caller that told a length, which users do when the sender does, has an   *)
(* assertion that it was met; one that did not has none.                      *)
FinishFile ==
  /\ AtR("finish")
  /\ \E told \in {Unbounded, plans[Len(received)].bound} :
       aborted' = [aborted EXCEPT !["remote"] =
                     told # Unbounded /\ Len(received[Len(received)]) # told]
  /\ rpc' = "ready"
  /\ UNCHANGED <<compression, lz4, pipes, writer, received, left, want, got, refused>>

-----------------------------------------------------------------------------
Plex == Move \/ MoveAnswer

Send ==
  \/ CreateStream \/ StreamCreated \/ ForwardChunk \/ ForwardEnd \/ CloseStream
  \/ \E size \in Sizes, bound \in Bounds \cup {Unbounded} : ForwardFile(size, bound)

Receive ==
  \/ AcceptStream \/ ReceiveFile \/ ReadCutShort \/ ReadCommand \/ ReadLength \/ ReadHeader
  \/ ReadByte \/ ReadPacket \/ ReadEOF \/ FinishFile

Next == Plex \/ Send \/ Receive \/ Cut

Spec == Init /\ [][Next]_vars

(* Every thread that can go on does, and the connection of a process that is  *)
(* gone is closed.  Links need not fail.                                      *)
FairSpec == Spec /\ WF_vars(Plex) /\ WF_vars(Send) /\ WF_vars(Receive) /\ WF_vars(Gone)

-----------------------------------------------------------------------------
(* What the remote end reads next is what the originator wrote for it: in the *)
(* framing it reads with, a command where it looks for one, and data only     *)
(* where it expects data; and so for the response.  The one thing that comes  *)
(* in no framing is the marker of a close that was read together with data:   *)
(* it stays behind the last file, where a remote end that knows how many      *)
(* files there are does not read.                                             *)
Expected ==
  CASE rpc = "command" -> [kind : {"command"}, n : {Bounded, Unbounded}]
    [] rpc = "length" -> [kind : {"length"}, n : Bounds]
    [] rpc = "header" -> [kind : {"command"}, n : {End} \cup 1 .. BufferSize]
    [] rpc = "data" -> [kind : {"data"}, n : 1 .. BufferSize]
    [] OTHER -> [kind : {"init", "command"}, n : {0, Bounded, Unbounded}]
AllRead == Len(received) = Forwards /\ rpc \in {"finish", "ready"}

FramingAgrees ==
  /\ (up # <<>> /\ ~refused) =>
       \/ /\ Head(up).lz4 = lz4["remote"]
          /\ [kind |-> Head(up).kind, n |-> Head(up).n] \in Expected
       \/ up = <<Marker>> /\ AllRead
  /\ (answer.at = "arrived" /\ opc = "await") => answer.lz4 = lz4["originator"]

(* What a forward writes to a file is the beginning of the sender's file, and *)
(* all that was to be sent unless the connection was interrupted.             *)
Meant(plan) == IF plan.bound = Unbounded THEN plan.size ELSE Smaller(plan.bound, plan.size)
Received(i) == i < Len(received) \/ rpc = "ready"

FilesArrive ==
  \A i \in DOMAIN received :
    /\ received[i] = [j \in 1 .. Len(received[i]) |-> j - 1]
    /\ (Received(i) /\ ~cut) => Len(received[i]) = Meant(plans[i])

(* Neither process is ended by an assertion of the library unless the link    *)
(* failed or the sender asked for more bytes than its file has, or for none.  *)
Overasked(plan) == plan.bound = 0 \/ plan.bound > plan.size

AbortsExplained ==
  (\E s \in Side : aborted[s]) => (cut \/ \E i \in DOMAIN plans : Overasked(plans[i]))

(* Every forward ends: the reader's when the file is there or the stream at   *)
(* its end, the sender's unless nobody takes what it writes any more; and the *)
(* callback that waits for the initialisation of a stream returns.            *)
EveryForwardEnds ==
  /\ rpc = "init" ~> rpc # "init"
  /\ rpc = "command" ~> (rpc = "ready" \/ aborted["remote"])
  /\ opc = "chunk" ~> (opc = "ready" \/ aborted["originator"] \/ cut \/ refused)
=============================================================================
