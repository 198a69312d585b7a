---------------------------- MODULE TransferProofs ----------------------------
(***************************************************************************)
(* Theorems about Transfer, for any number of files of any size, any       *)
(* bounds and any sizes of buffer and pipe.                                *)
(*                                                                         *)
(* What is on its way takes the reader, unit by unit, from where it is to  *)
(* where the writer is: FlowOK.  The other parts of TransferInv say what   *)
(* the places of the two have to do with the files.                        *)
(***************************************************************************)
EXTENDS Transfer, SequenceTheorems, TLAPS

(* A place in the stream: between files, or before a length, the header of a  *)
(* chunk or data of the file-th.  pos counts the bytes of the file that were  *)
(* read; left, want and got are the reader's.                                 *)
Place(at, file, pos) == [at |-> at, file |-> file, pos |-> pos, left |-> 0, want |-> 0, got |-> 0]
Between(file) == Place("between", file, 0)
InData(file, pos, l, w, g) ==
  [at |-> "data", file |-> file, pos |-> pos, left |-> l, want |-> w, got |-> g]
NextBuffer(file, pos, l) == InData(file, pos, l, Smaller(l, BufferSize), 0)

(* What may be read there, of the files ps and with LZ4 or raw, ...           *)
Plans == Seq([size : Nat, bound : Nat \cup {Unbounded}])
Accepts(p, u, ps, z) ==
  \/ p.at = "init" /\ u.kind = "init" /\ u.n = 0 /\ ~u.lz4
  \/ p.at = "between" /\ u = Marker /\ p.file = Forwards
  \/ /\ p.at = "between" /\ u.kind = "command" /\ u.lz4 = z
     /\ p.file + 1 \in DOMAIN ps
     /\ u.n = IF ps[p.file + 1].bound = Unbounded THEN Unbounded ELSE Bounded
  \/ /\ p.at = "length" /\ u.kind = "length" /\ u.lz4 = z
     /\ p.file \in DOMAIN ps /\ u.n = ps[p.file].bound
  \/ /\ p.at = "header" /\ u.kind = "command" /\ u.lz4 = z
     /\ p.file \in DOMAIN ps
     /\ u.n = IF p.pos = ps[p.file].size THEN End ELSE Smaller(BufferSize, ps[p.file].size - p.pos)
  \/ /\ p.at = "data" /\ u.kind = "data" /\ u.lz4 = z
     /\ p.file \in DOMAIN ps /\ p.got < p.want /\ p.pos < ps[p.file].size
     /\ u.at = p.pos
     /\ u.n = IF z THEN Smaller(p.want, ps[p.file].size - p.pos) ELSE 1

(* ... and where the reader is after it.                                      *)
Filled(file, pos, l, w) ==
  IF l = Unbounded THEN Place("header", file, pos)
  ELSE IF l = w THEN Between(file)
  ELSE NextBuffer(file, pos, l - w)

After(p, u, z) ==
  IF p.at = "init" THEN Between(0)
  ELSE IF p.at = "between" /\ u.kind = "close" THEN p
  ELSE IF p.at = "between" /\ u.n = Unbounded THEN Place("header", p.file + 1, 0)
  ELSE IF p.at = "between" THEN Place("length", p.file + 1, 0)
  ELSE IF p.at = "length" THEN NextBuffer(p.file, 0, u.n)
  ELSE IF p.at = "header" /\ u.n = End THEN Between(p.file)
  ELSE IF p.at = "header" THEN InData(p.file, p.pos, Unbounded, u.n, 0)
  ELSE IF p.got + u.n = p.want THEN Filled(p.file, p.pos + u.n, p.left, p.want)
  ELSE IF z THEN Place("short", p.file, 0)
  ELSE InData(p.file, p.pos + u.n, p.left, p.want, p.got + u.n)

Leads(st, q, ps, z) ==
  \A k \in 1 .. Len(q) : Accepts(st[k], q[k], ps, z) /\ st[k + 1] = After(st[k], q[k], z)
Path(p, q, r, ps, z) ==
  \E st : Leads(st, q, ps, z) /\ st[1] = p /\ st[Len(q) + 1] = r

(* Where the reader is: a packet that was too short leaves it nowhere.        *)
LZ4 == compression = "lz4"
File == Len(received)
ReaderAt ==
  IF rpc = "init" THEN Place("init", 0, 0)
  ELSE IF rpc = "command" THEN Between(File - 1)
  ELSE IF rpc = "length" THEN Place("length", File, 0)
  ELSE IF rpc = "header" THEN Place("header", File, Len(received[File]))
  ELSE IF rpc = "data" /\ LZ4 /\ aborted["remote"] THEN Place("short", File, 0)
  ELSE IF rpc = "data" THEN InData(File, Len(received[File]), left, want, got)
  ELSE Between(File)

(* Where the writer has taken the stream, unless its file had less than it    *)
(* was to send.                                                               *)
Short == opc \in {"end", "ready"} /\ plans # <<>> /\ Limited /\ sent # Plan.bound
WriterPlace ==
  IF opc = "create" THEN Place("init", 0, 0)
  ELSE IF opc = "chunk" /\ Limited THEN NextBuffer(Len(plans), sent, Plan.bound - sent)
  ELSE IF opc \in {"chunk", "end"} /\ ~Limited THEN Place("header", Len(plans), sent)
  ELSE Between(Len(plans))

Flow == IF cut THEN up ELSE up \o down
FlowOK ==
  ~refused =>
    \E p : /\ Path(ReaderAt, Flow, p, plans, LZ4)
           /\ ~cut /\ ~Short => p = WriterPlace

(* The two ends agree on the framing before either uses it.                   *)
Agreed ==
  /\ lz4["originator"] = (opc # "create" /\ LZ4)
  /\ lz4["remote"] = (answer.at # "none" /\ LZ4)
  /\ answer.at # "none" => answer.lz4 = LZ4 /\ rpc # "init"
  /\ rpc \notin {"init", "done"} => answer.at # "none"
  /\ rpc = "done" => received = <<>> /\ (refused \/ (cut /\ up = <<>>))
  /\ refused => rpc = "done"

(* How far the writer is in its file.                                         *)
WriterOK ==
  /\ opc \in {"create", "await"} => plans = <<>>
  /\ opc \in {"chunk", "end"} => plans # <<>> /\ sent <= Plan.size
  /\ opc = "chunk" /\ Limited => sent < Plan.bound \/ (Plan.bound = 0 /\ sent = 0)
  /\ Short => sent = Plan.size /\ sent < Plan.bound
  /\ opc = "end" /\ ~Limited => sent = Plan.size
  /\ Short /\ opc = "ready" => aborted["originator"]
  /\ opc = "done" => ~aborted["originator"]

(* How far the reader is in its own.                                          *)
Copied(s) == s = [j \in 1 .. Len(s) |-> j - 1]
Complete(i) == i < File \/ rpc \in {"ready", "finish"}
ReaderOK ==
  /\ \A i \in 1 .. File : Copied(received[i])
  /\ \A i \in 1 .. File : Complete(i) /\ ~cut => Len(received[i]) = Meant(plans[i])
  /\ rpc = "init" => received = <<>>
  /\ rpc \in {"command", "length", "header", "data", "finish"} => File > 0
  /\ rpc = "command" => File <= Len(plans) + 1
  /\ rpc \notin {"init", "command"} => File <= Len(plans)
  /\ rpc \in {"command", "length"} => received[File] = <<>>
  /\ rpc = "length" => plans[File].bound # Unbounded
  /\ rpc = "header" => /\ plans[File].bound = Unbounded /\ left = Unbounded
                       /\ Len(received[File]) <= plans[File].size
  /\ rpc = "data" =>
       /\ want <= BufferSize /\ got <= Len(received[File])
       /\ Len(received[File]) <= plans[File].size
       /\ got < want \/ (want = 0 /\ plans[File].bound = 0)
       /\ LZ4 => got = 0
       /\ IF plans[File].bound = Unbounded
          THEN left = Unbounded /\ Len(received[File]) - got + want <= plans[File].size
          ELSE /\ left # Unbounded /\ want = Smaller(left, BufferSize)
               /\ Len(received[File]) - got + left = plans[File].bound

(* The close is the last that is written, and the last that is moved.         *)
Closing ==
  /\ ended => opc = "done" /\ down = <<>>
  /\ \A k \in 1 .. Len(down) : down[k].kind = "close" => opc = "done" /\ k = Len(down)
  /\ \A k \in 1 .. Len(up) : up[k].kind = "close" => opc = "done" /\ k = Len(up) /\ down = <<>>
  /\ opc = "done" => Len(plans) = Forwards

TransferInv ==
  TypeOK /\ Agreed /\ WriterOK /\ ReaderOK /\ Closing /\ AbortsExplained /\ FlowOK

-----------------------------------------------------------------------------
(* Paths through the stream.                                                  *)
LEMMA BufferFacts == BufferSize \in Nat \ {0} /\ PipeSize \in Nat /\ Forwards \in Nat
BY TransferAssumption DEF TransferAssumption

(* A path through units has a part through the first of them, ...             *)
LEMMA LeadsPrefix ==
  ASSUME NEW st, NEW q \in Seq(Unit), NEW r \in Seq(Unit), NEW ps, NEW z, Leads(st, q \o r, ps, z)
  PROVE  Leads(st, q, ps, z)
<1>1. Len(q \o r) = Len(q) + Len(r) /\ Len(q) \in Nat /\ Len(r) \in Nat
  BY ConcatProperties
<1>2. \A k \in 1 .. Len(q) : k \in 1 .. Len(q \o r) /\ (q \o r)[k] = q[k]
  BY <1>1, ConcatProperties
<1> QED
  BY <1>2 DEF Leads

(* The first unit is read.                                                    *)
LEMMA LeadsTail ==
  ASSUME NEW st, NEW q \in Seq(Unit), q # <<>>, NEW ps, NEW z, Leads(st, q, ps, z)
  PROVE  /\ Accepts(st[1], Head(q), ps, z)
         /\ \E su : /\ Leads(su, Tail(q), ps, z) /\ su[1] = After(st[1], Head(q), z)
                    /\ su[Len(Tail(q)) + 1] = st[Len(q) + 1]
<1>1. /\ Head(q) = q[1] /\ Len(q) \in Nat \ {0} /\ Len(Tail(q)) = Len(q) - 1
      /\ \A k \in 1 .. Len(q) - 1 : Tail(q)[k] = q[k + 1]
  OBVIOUS
<1> DEFINE su == [k \in 1 .. Len(q) |-> st[k + 1]]
<1>2. Leads(su, Tail(q), ps, z)
  <2> SUFFICES ASSUME NEW k \in 1 .. Len(Tail(q))
               PROVE  Accepts(su[k], Tail(q)[k], ps, z) /\ su[k + 1] = After(su[k], Tail(q)[k], z)
    BY DEF Leads
  <2>1. k \in 1 .. Len(q) /\ k + 1 \in 1 .. Len(q) /\ Tail(q)[k] = q[k + 1]
    BY <1>1
  <2>2. su[k] = st[k + 1] /\ su[k + 1] = st[(k + 1) + 1]
    BY <2>1
  <2> QED
    BY <2>1, <2>2 DEF Leads
<1>3. su[1] = st[2] /\ su[Len(Tail(q)) + 1] = st[Len(q) + 1]
  BY <1>1
<1>4. Accepts(st[1], q[1], ps, z) /\ st[1 + 1] = After(st[1], q[1], z)
  BY <1>1 DEF Leads
<1> QED
  BY <1>1, <1>2, <1>3, <1>4

(* More is written.                                                           *)
LEMMA LeadsConcat ==
  ASSUME NEW st, NEW q \in Seq(Unit), NEW su, NEW r \in Seq(Unit), NEW ps, NEW z,
         Leads(st, q, ps, z), Leads(su, r, ps, z), su[1] = st[Len(q) + 1]
  PROVE  \E sv : /\ Leads(sv, q \o r, ps, z) /\ sv[1] = st[1]
                 /\ sv[Len(q \o r) + 1] = su[Len(r) + 1]
<1>1. Len(q) \in Nat /\ Len(r) \in Nat /\ Len(q \o r) = Len(q) + Len(r)
  BY ConcatProperties
<1> DEFINE sv == [k \in 1 .. Len(q \o r) + 1 |-> IF k <= Len(q) THEN st[k] ELSE su[k - Len(q)]]
<1>2. Leads(sv, q \o r, ps, z)
  <2> SUFFICES ASSUME NEW k \in 1 .. Len(q \o r)
               PROVE  /\ Accepts(sv[k], (q \o r)[k], ps, z)
                      /\ sv[k + 1] = After(sv[k], (q \o r)[k], z)
    BY DEF Leads
  <2>0. k \in Int /\ k + 1 \in 1 .. Len(q \o r) + 1 /\ k \in 1 .. Len(q \o r) + 1
    BY <1>1
  <2>1. CASE k <= Len(q)
    <3>1. (q \o r)[k] = q[k] /\ k \in 1 .. Len(q)
      BY <1>1, <2>1, ConcatProperties
    <3>2. sv[k] = st[k]
      BY <1>1, <2>1
    <3>3. sv[k + 1] = st[k + 1]
      <4>1. CASE k < Len(q)
        BY <1>1, <2>0, <4>1
      <4>2. CASE k = Len(q)
        <5>1. sv[k + 1] = su[k + 1 - Len(q)]
          BY <1>1, <2>0, <4>2
        <5>2. k + 1 - Len(q) = 1
          BY <1>1, <4>2
        <5> QED
          BY <4>2, <5>1, <5>2
      <4> QED
        BY <1>1, <2>0, <2>1, <4>1, <4>2
    <3> QED
      BY <3>1, <3>2, <3>3 DEF Leads
  <2>2. CASE k > Len(q)
    <3> DEFINE m == k - Len(q)
    <3>1. m \in 1 .. Len(r) /\ (q \o r)[k] = r[m]
      BY <1>1, <2>0, <2>2, ConcatProperties
    <3>2. sv[k] = su[m] /\ sv[k + 1] = su[(k + 1) - Len(q)]
      BY <1>1, <2>0, <2>2
    <3>3. (k + 1) - Len(q) = m + 1
      BY <1>1, <2>0
    <3> HIDE DEF m, sv
    <3> QED
      BY <3>1, <3>2, <3>3 DEF Leads
  <2> QED
    BY <1>1, <2>0, <2>1, <2>2
<1>3. sv[1] = st[1]
  <2>1. CASE Len(q) = 0
    <3>1. sv[1] = su[1 - Len(q)]
      BY <1>1, <2>1
    <3> QED
      BY <1>1, <2>1, <3>1
  <2>2. CASE Len(q) # 0
    BY <1>1, <2>2
  <2> QED
    BY <2>1, <2>2
<1>4. sv[Len(q \o r) + 1] = su[Len(r) + 1]
  <2>1. sv[Len(q \o r) + 1] = su[Len(q \o r) + 1 - Len(q)]
    BY <1>1
  <2>2. Len(q \o r) + 1 - Len(q) = Len(r) + 1
    BY <1>1
  <2> QED
    BY <2>1, <2>2
<1> QED
  BY <1>2, <1>3, <1>4

(* What was on its way stays readable when another file is planned.           *)
LEMMA LeadsMore ==
  ASSUME NEW st, NEW q, NEW ps \in Plans, NEW plan, NEW z, Leads(st, q, ps, z)
  PROVE  Leads(st, q, Append(ps, plan), z)
<1>1. /\ Len(ps) \in Nat /\ Len(Append(ps, plan)) = Len(ps) + 1
      /\ DOMAIN ps = 1 .. Len(ps) /\ DOMAIN Append(ps, plan) = 1 .. Len(ps) + 1
      /\ \A i \in 1 .. Len(ps) : Append(ps, plan)[i] = ps[i]
  BY DEF Plans
<1>2. \A i \in DOMAIN ps : i \in DOMAIN Append(ps, plan) /\ Append(ps, plan)[i] = ps[i]
  BY <1>1
<1>3. ASSUME NEW p, NEW u, Accepts(p, u, ps, z) PROVE Accepts(p, u, Append(ps, plan), z)
  BY <1>2, <1>3 DEF Accepts
<1> QED
  BY <1>3 DEF Leads

LEMMA PathNone == \A p, ps, z : Path(p, <<>>, p, ps, z)
<1> SUFFICES ASSUME NEW p, NEW ps, NEW z PROVE Path(p, <<>>, p, ps, z)
  OBVIOUS
<1> DEFINE st == [k \in 1 .. 1 |-> p]
<1>1. Leads(st, <<>>, ps, z) /\ st[1] = p /\ Len(<<>>) + 1 = 1
  BY DEF Leads
<1> QED
  BY <1>1 DEF Path

LEMMA PathEnds ==
  ASSUME NEW p, NEW r, NEW ps, NEW z, Path(p, <<>>, r, ps, z)
  PROVE  p = r
<1>1. Len(<<>>) + 1 = 1
  OBVIOUS
<1> QED
  BY <1>1 DEF Path

LEMMA PathOne ==
  ASSUME NEW p, NEW u, NEW ps, NEW z, Accepts(p, u, ps, z)
  PROVE  Path(p, <<u>>, After(p, u, z), ps, z)
<1> DEFINE st == [k \in 1 .. 2 |-> IF k = 1 THEN p ELSE After(p, u, z)]
<1>1. Len(<<u>>) = 1 /\ <<u>>[1] = u /\ 1 + 1 = 2
  OBVIOUS
<1>2. st[1] = p /\ st[2] = After(p, u, z)
  OBVIOUS
<1>3. Leads(st, <<u>>, ps, z)
  <2> SUFFICES ASSUME NEW k \in 1 .. Len(<<u>>)
               PROVE  Accepts(st[k], <<u>>[k], ps, z) /\ st[k + 1] = After(st[k], <<u>>[k], z)
    BY DEF Leads
  <2>1. k = 1
    BY <1>1
  <2> QED
    BY <1>1, <1>2, <2>1
<1>4. st[Len(<<u>>) + 1] = After(p, u, z)
  BY <1>1, <1>2
<1> HIDE DEF st
<1> QED
  BY <1>2, <1>3, <1>4 DEF Path

LEMMA PathPrefix ==
  ASSUME NEW p, NEW q \in Seq(Unit), NEW r \in Seq(Unit), NEW p2, NEW ps, NEW z,
         Path(p, q \o r, p2, ps, z)
  PROVE  \E p1 : Path(p, q, p1, ps, z)
<1>1. PICK st : Leads(st, q \o r, ps, z) /\ st[1] = p
  BY DEF Path
<1>2. Leads(st, q, ps, z)
  BY <1>1, LeadsPrefix
<1>3. Path(p, q, st[Len(q) + 1], ps, z)
  BY <1>1, <1>2 DEF Path
<1> QED
  BY <1>3

LEMMA PathTail ==
  ASSUME NEW p, NEW q \in Seq(Unit), q # <<>>, NEW r, NEW ps, NEW z, Path(p, q, r, ps, z)
  PROVE  Accepts(p, Head(q), ps, z) /\ Path(After(p, Head(q), z), Tail(q), r, ps, z)
<1>1. PICK st : Leads(st, q, ps, z) /\ st[1] = p /\ st[Len(q) + 1] = r
  BY DEF Path
<1> QED
  BY <1>1, LeadsTail DEF Path

LEMMA PathConcat ==
  ASSUME NEW p, NEW q \in Seq(Unit), NEW p1, NEW r \in Seq(Unit), NEW p2, NEW ps, NEW z,
         Path(p, q, p1, ps, z), Path(p1, r, p2, ps, z)
  PROVE  Path(p, q \o r, p2, ps, z)
<1>1. PICK st : Leads(st, q, ps, z) /\ st[1] = p /\ st[Len(q) + 1] = p1
  BY DEF Path
<1>2. PICK su : Leads(su, r, ps, z) /\ su[1] = p1 /\ su[Len(r) + 1] = p2
  BY DEF Path
<1>3. PICK sv : /\ Leads(sv, q \o r, ps, z) /\ sv[1] = st[1]
                /\ sv[Len(q \o r) + 1] = su[Len(r) + 1]
  BY <1>1, <1>2, LeadsConcat
<1> QED
  BY <1>1, <1>2, <1>3 DEF Path

LEMMA PathMore ==
  ASSUME NEW p, NEW q, NEW r, NEW ps \in Plans, NEW plan, NEW z, Path(p, q, r, ps, z)
  PROVE  Path(p, q, r, Append(ps, plan), z)
BY LeadsMore DEF Path

LEMMA PlanTypes ==
  ASSUME NEW ps \in Plans, NEW i \in DOMAIN ps
  PROVE  ps[i].size \in Nat /\ ps[i].bound \in Nat \cup {Unbounded}
<1>1. i \in 1 .. Len(ps) /\ ps \in Seq([size : Nat, bound : Nat \cup {Unbounded}])
  BY DEF Plans
<1>2. ps[i] \in [size : Nat, bound : Nat \cup {Unbounded}]
  BY <1>1, ElementOfSeq
<1> QED
  BY <1>2

(* The units of n bytes from position from on lead through a buffer of w that *)
(* is to be filled: to its end, or as far as the file goes.                   *)
RawData(from, n) == [i \in 1 .. n |-> [lz4 |-> FALSE, kind |-> "data", n |-> 1, at |-> from + i - 1]]

LEMMA RawPath ==
  ASSUME NEW file, NEW ps \in Plans, file \in DOMAIN ps, NEW from \in Nat, NEW l,
         NEW w \in Nat, NEW n \in Nat \ {0}, n <= w, n <= ps[file].size - from
  PROVE  Path(InData(file, from, l, w, 0), RawData(from, n),
              IF n = w THEN Filled(file, from + n, l, w) ELSE InData(file, from + n, l, w, n), ps, FALSE)
<1> DEFINE last == IF n = w THEN Filled(file, from + n, l, w) ELSE InData(file, from + n, l, w, n)
           st == [k \in 1 .. n + 1 |-> IF k = n + 1 THEN last ELSE InData(file, from + (k - 1), l, w, k - 1)]
           q == RawData(from, n)
<1>1. Len(q) = n /\ \A k \in 1 .. n : q[k] = [lz4 |-> FALSE, kind |-> "data", n |-> 1, at |-> from + k - 1]
  BY DEF RawData
<1>2. ps[file].size \in Nat
  BY PlanTypes
<1>3. st[1] = InData(file, from, l, w, 0) /\ st[n + 1] = last
  <2>1. st[1] = InData(file, from + (1 - 1), l, w, 1 - 1)
    OBVIOUS
  <2> QED
    OBVIOUS
<1>4. Leads(st, q, ps, FALSE)
  <2> SUFFICES ASSUME NEW k \in 1 .. n
               PROVE  Accepts(st[k], q[k], ps, FALSE) /\ st[k + 1] = After(st[k], q[k], FALSE)
    BY <1>1 DEF Leads
  <2>1. st[k] = InData(file, from + (k - 1), l, w, k - 1)
    OBVIOUS
  <2>2. q[k] = [lz4 |-> FALSE, kind |-> "data", n |-> 1, at |-> from + (k - 1)]
    BY <1>1
  <2> DEFINE g == k - 1
  <2>3. g \in Nat /\ g < w /\ from + g \in Nat /\ from + g < ps[file].size /\ g + 1 = k
    BY <1>2
  <2>4. Accepts(st[k], q[k], ps, FALSE)
    BY <2>1, <2>2, <2>3 DEF Accepts, InData
  <2>5. After(st[k], q[k], FALSE) = IF k = w THEN Filled(file, from + k, l, w) ELSE InData(file, from + k, l, w, k)
    <3>1. (from + (k - 1)) + 1 = from + k /\ (k - 1) + 1 = k
      OBVIOUS
    <3> QED
      BY <2>1, <2>2, <3>1 DEF After, InData
  <2>6. st[k + 1] = IF k = w THEN Filled(file, from + k, l, w) ELSE InData(file, from + k, l, w, k)
    <3>1. CASE k = n
      BY <1>3, <3>1
    <3>2. CASE k # n
      <4>1. k + 1 \in 1 .. n + 1 /\ k + 1 # n + 1 /\ k # w /\ (k + 1) - 1 = k
        BY <3>2
      <4> QED
        BY <4>1
    <3> QED
      BY <3>1, <3>2
  <2> QED
    BY <2>4, <2>5, <2>6
<1> HIDE DEF st, q, last
<1>5. Path(InData(file, from, l, w, 0), q, last, ps, FALSE)
  BY <1>1, <1>3, <1>4 DEF Path
<1> QED
  BY <1>5 DEF q, last

LEMMA PacketPath ==
  ASSUME NEW file, NEW ps \in Plans, file \in DOMAIN ps, NEW from \in Nat, NEW l,
         NEW w \in Nat, NEW n \in Nat \ {0}, n = Smaller(w, ps[file].size - from)
  PROVE  Path(InData(file, from, l, w, 0), <<[lz4 |-> TRUE, kind |-> "data", n |-> n, at |-> from]>>,
              IF n = w THEN Filled(file, from + n, l, w) ELSE Place("short", file, 0), ps, TRUE)
<1> DEFINE u == [lz4 |-> TRUE, kind |-> "data", n |-> n, at |-> from]
           p == InData(file, from, l, w, 0)
<1>1. ps[file].size \in Nat
  BY PlanTypes
<1>2. 0 < w /\ from < ps[file].size /\ 0 + n = n
  BY <1>1 DEF Smaller
<1>3. Accepts(p, u, ps, TRUE)
  BY <1>2 DEF Accepts, InData
<1>4. After(p, u, TRUE) = IF n = w THEN Filled(file, from + n, l, w) ELSE Place("short", file, 0)
  BY <1>2 DEF After, InData
<1> QED
  BY <1>3, <1>4, PathOne

-----------------------------------------------------------------------------
(* What is on its way, from the reader to the writer.                         *)
LEMMA PlansTyped ==
  ASSUME TypeOK
  PROVE  /\ plans \in Plans /\ Len(plans) \in Nat /\ DOMAIN plans = 1 .. Len(plans)
         /\ \A i \in 1 .. Len(plans) : /\ plans[i].size \in Nat
                                       /\ plans[i].bound \in Nat \cup {Unbounded}
                                       /\ plans[i].bound \in Bounds \cup {Unbounded}
         /\ plans # <<>> => Len(plans) \in 1 .. Len(plans) /\ Plan = plans[Len(plans)]
<1>1. plans \in Seq([size : Sizes, bound : Bounds \cup {Unbounded}])
  BY DEF TypeOK
<1>2. Sizes \subseteq Nat /\ Bounds \subseteq Nat
  BY TransferAssumption DEF TransferAssumption
<1>3. [size : Sizes, bound : Bounds \cup {Unbounded}] \subseteq [size : Nat, bound : Nat \cup {Unbounded}]
  BY <1>2
<1>4. \A i \in 1 .. Len(plans) : plans[i] \in [size : Sizes, bound : Bounds \cup {Unbounded}]
  BY <1>1, ElementOfSeq
<1>5. plans \in Plans
  BY <1>1, <1>3, SeqMonotonic DEF Plans
<1>6. plans # <<>> => Len(plans) \in 1 .. Len(plans) /\ Plan = plans[Len(plans)]
  BY <1>1 DEF Plan, Last
<1>7. ASSUME NEW i \in 1 .. Len(plans)
      PROVE  /\ plans[i].size \in Nat /\ plans[i].bound \in Nat \cup {Unbounded}
             /\ plans[i].bound \in Bounds \cup {Unbounded}
  <2>1. plans[i].size \in Sizes /\ plans[i].bound \in Bounds \cup {Unbounded}
    BY <1>4
  <2> QED
    BY <1>2, <2>1
<1>8. Len(plans) \in Nat /\ DOMAIN plans = 1 .. Len(plans)
  BY <1>1, LenProperties
<1> QED
  BY <1>5, <1>6, <1>7, <1>8

LEMMA Streams ==
  ASSUME TypeOK
  PROVE  /\ up \in Seq(Unit) /\ down \in Seq(Unit) /\ Flow \in Seq(Unit)
         /\ cut => Flow = up
         /\ ~cut => Flow = up \o down
BY ConcatProperties DEF TypeOK, Flow

LEMMA ConcatFirst ==
  ASSUME NEW q \in Seq(Unit), NEW r \in Seq(Unit), q # <<>>
  PROVE  q \o r # <<>> /\ Head(q \o r) = Head(q) /\ Tail(q \o r) = Tail(q) \o r
<1>1. /\ Len(q) \in Nat \ {0} /\ Len(r) \in Nat /\ q \o r \in Seq(Unit)
      /\ Len(q \o r) = Len(q) + Len(r)
      /\ \A i \in 1 .. Len(q) + Len(r) : (q \o r)[i] = IF i <= Len(q) THEN q[i] ELSE r[i - Len(q)]
  BY ConcatProperties
<1>2. q \o r # <<>> /\ Head(q \o r) = Head(q)
  BY <1>1
<1>3. /\ Tail(q) \in Seq(Unit) /\ Len(Tail(q)) = Len(q) - 1
      /\ \A i \in 1 .. Len(Tail(q)) : Tail(q)[i] = q[i + 1]
  BY HeadTailProperties
<1>4. /\ Tail(q \o r) \in Seq(Unit) /\ Len(Tail(q \o r)) = Len(q \o r) - 1
      /\ \A i \in 1 .. Len(Tail(q \o r)) : Tail(q \o r)[i] = (q \o r)[i + 1]
  BY <1>1, <1>2, HeadTailProperties
<1>5. /\ Tail(q) \o r \in Seq(Unit) /\ Len(Tail(q) \o r) = Len(Tail(q)) + Len(r)
      /\ \A i \in 1 .. Len(Tail(q)) + Len(r) :
           (Tail(q) \o r)[i] = IF i <= Len(Tail(q)) THEN Tail(q)[i] ELSE r[i - Len(Tail(q))]
  BY <1>3, ConcatProperties
<1>6. ASSUME NEW i \in 1 .. Len(Tail(q \o r)) PROVE Tail(q \o r)[i] = (Tail(q) \o r)[i]
  <2>1. i \in 1 .. Len(q) + Len(r) - 1 /\ Tail(q \o r)[i] = (q \o r)[i + 1]
    BY <1>1, <1>4
  <2>2. CASE i <= Len(q) - 1
    BY <1>1, <1>3, <1>5, <2>1, <2>2
  <2>3. CASE i > Len(q) - 1
    <3>1. (q \o r)[i + 1] = r[(i + 1) - Len(q)]
      BY <1>1, <2>1, <2>3
    <3>2. (Tail(q) \o r)[i] = r[i - Len(Tail(q))]
      BY <1>1, <1>3, <1>5, <2>1, <2>3
    <3>3. (i + 1) - Len(q) = i - Len(Tail(q))
      BY <1>1, <1>3, <2>1
    <3> QED
      BY <2>1, <3>1, <3>2, <3>3
  <2> QED
    BY <1>1, <2>1, <2>2, <2>3
<1>7. Tail(q \o r) = Tail(q) \o r
  BY <1>1, <1>3, <1>4, <1>5, <1>6, SeqEqual
<1> QED
  BY <1>2, <1>7

LEMMA FirstAccepted ==
  ASSUME TypeOK, FlowOK, ~refused, up # <<>>
  PROVE  Accepts(ReaderAt, Head(up), plans, LZ4)
<1>1. PICK p : Path(ReaderAt, Flow, p, plans, LZ4)
  BY DEF FlowOK
<1>2. Flow # <<>> /\ Head(Flow) = Head(up)
  BY Streams, ConcatFirst
<1> QED
  BY <1>1, <1>2, Streams, PathTail

LEMMA AllTaken ==
  ASSUME TypeOK, FlowOK, ~refused, ~cut, ~Short, up = <<>>, down = <<>>
  PROVE  ReaderAt = WriterPlace
<1>1. PICK p : Path(ReaderAt, Flow, p, plans, LZ4) /\ p = WriterPlace
  BY DEF FlowOK
<1>2. Flow = <<>>
  BY Streams
<1> QED
  BY <1>1, <1>2, PathEnds

LEMMA FlowQuiet ==
  ASSUME FlowOK, Flow' = Flow, ReaderAt' = ReaderAt, UNCHANGED <<compression, plans>>,
         refused' \/ ~refused,
         ~cut' /\ ~Short' => ~cut /\ ~Short /\ WriterPlace' = WriterPlace
  PROVE  FlowOK'
<1> SUFFICES ASSUME ~refused'
             PROVE  \E p : /\ Path(ReaderAt', Flow', p, plans', LZ4')
                           /\ ~cut' /\ ~Short' => p = WriterPlace'
  BY DEF FlowOK
<1>1. LZ4' = LZ4
  BY DEF LZ4
<1>2. PICK p : /\ Path(ReaderAt, Flow, p, plans, LZ4)
               /\ ~cut /\ ~Short => p = WriterPlace
  BY DEF FlowOK
<1>3. Path(ReaderAt', Flow', p, plans', LZ4')
  BY <1>1, <1>2
<1> QED
  BY <1>2, <1>3

LEMMA FlowWritten ==
  ASSUME TypeOK, FlowOK, NEW u \in Seq(Unit), down' = down \o u,
         UNCHANGED <<compression, up, cut, refused>>, ReaderAt' = ReaderAt,
         plans' = plans \/ \E plan : plans' = Append(plans, plan),
         ~cut => \/ Short /\ Short' /\ u = <<>>
                 \/ ~Short /\ \E p : /\ Path(WriterPlace, u, p, plans', LZ4)
                                     /\ Short' \/ p = WriterPlace'
  PROVE  FlowOK'
<1> SUFFICES ASSUME ~refused'
             PROVE  \E p : /\ Path(ReaderAt', Flow', p, plans', LZ4')
                           /\ ~cut' /\ ~Short' => p = WriterPlace'
  BY DEF FlowOK
<1>1. LZ4' = LZ4
  BY DEF LZ4
<1>2. PICK r : /\ Path(ReaderAt, Flow, r, plans, LZ4)
               /\ ~cut /\ ~Short => r = WriterPlace
  BY DEF FlowOK
<1>3. Path(ReaderAt, Flow, r, plans', LZ4)
  BY <1>2, PlansTyped, PathMore
<1>4. CASE cut
  <2>1. Flow' = Flow
    BY <1>4 DEF Flow
  <2> QED
    BY <1>1, <1>3, <1>4, <2>1
<1>5. CASE ~cut /\ Short /\ Short' /\ u = <<>>
  <2>1. Flow' = Flow
    BY <1>5, Streams DEF Flow
  <2> QED
    BY <1>1, <1>3, <1>5, <2>1
<1>6. CASE ~cut /\ ~Short /\ \E p : Path(WriterPlace, u, p, plans', LZ4) /\ (Short' \/ p = WriterPlace')
  <2>1. PICK p : Path(WriterPlace, u, p, plans', LZ4) /\ (Short' \/ p = WriterPlace')
    BY <1>6
  <2>2. Path(ReaderAt, Flow, WriterPlace, plans', LZ4)
    BY <1>2, <1>3, <1>6
  <2>3. Path(ReaderAt, Flow \o u, p, plans', LZ4)
    BY <2>1, <2>2, Streams, PathConcat
  <2>4. Flow' = Flow \o u
    <3>1. Flow' = up \o (down \o u) /\ Flow = up \o down
      BY <1>6 DEF Flow
    <3> QED
      BY <3>1, Streams, ConcatAssociative
  <2> QED
    BY <1>1, <2>1, <2>3, <2>4
<1> QED
  BY <1>4, <1>5, <1>6

LEMMA FlowRead ==
  ASSUME TypeOK, FlowOK, ~refused, up # <<>>, up' = Tail(up),
         UNCHANGED <<compression, down, cut, refused, plans, opc, sent>>,
         ReaderAt' = After(ReaderAt, Head(up), LZ4)
  PROVE  FlowOK'
<1> SUFFICES \E p : /\ Path(ReaderAt', Flow', p, plans', LZ4')
                    /\ ~cut' /\ ~Short' => p = WriterPlace'
  BY DEF FlowOK
<1>1. LZ4' = LZ4 /\ Short' = Short /\ WriterPlace' = WriterPlace
  BY DEF LZ4, Short, WriterPlace, Limited, Plan
<1>2. PICK r : /\ Path(ReaderAt, Flow, r, plans, LZ4)
               /\ ~cut /\ ~Short => r = WriterPlace
  BY DEF FlowOK
<1>3. Flow # <<>> /\ Head(Flow) = Head(up) /\ Flow' = Tail(Flow)
  BY Streams, ConcatFirst DEF Flow
<1>4. Path(After(ReaderAt, Head(Flow), LZ4), Tail(Flow), r, plans, LZ4)
  BY <1>2, <1>3, Streams, PathTail
<1>5. Path(ReaderAt', Flow', r, plans', LZ4')
  BY <1>1, <1>3, <1>4
<1> QED
  BY <1>1, <1>2, <1>5

-----------------------------------------------------------------------------
(* What an action that leaves an end alone does not disturb.                  *)
LEMMA WriterSame ==
  ASSUME WriterOK, UNCHANGED writer, aborted'["originator"] = aborted["originator"]
  PROVE  WriterOK' /\ WriterPlace' = WriterPlace /\ Short' = Short
BY DEF WriterOK, WriterPlace, Short, Limited, Plan, writer

LEMMA ReaderSame ==
  ASSUME ReaderOK, UNCHANGED <<compression, reader, plans>>, cut => cut',
         aborted'["remote"] = aborted["remote"]
  PROVE  ReaderOK' /\ ReaderAt' = ReaderAt
<1>1. ReaderAt' = ReaderAt
  BY DEF ReaderAt, reader, LZ4, File
<1>2. ReaderOK'
  BY DEF ReaderOK, reader, LZ4, File, Complete, Copied
<1> QED
  BY <1>1, <1>2

(* What the plexers move stays well typed.                                    *)
LEMMA PipesTyped ==
  ASSUME TypeOK, down' \in Seq(Unit), Len(down') <= PipeSize, up' \in Seq(Unit), Len(up') <= PipeSize,
         ended' \in BOOLEAN,
         compression' = compression, lz4' = lz4, answer' = answer, cut' = cut, aborted' = aborted,
         refused' = refused, opc' = opc, plans' = plans, sent' = sent, rpc' = rpc,
         received' = received, left' = left, want' = want, got' = got
  PROVE  TypeOK'
BY DEF TypeOK

LEMMA MarkerFacts == Marker \in Unit /\ Marker.kind = "close" /\ <<Marker>> \in Seq(Unit)
BY DEF Marker, Unit

(* What is read of the down pipe and what stays there.                        *)
LEMMA Parts ==
  ASSUME NEW q \in Seq(Unit), NEW n \in 1 .. Len(q)
  PROVE  /\ SubSeq(q, 1, n) \in Seq(Unit) /\ Len(SubSeq(q, 1, n)) = n
         /\ \A k \in 1 .. n : SubSeq(q, 1, n)[k] = q[k]
         /\ SubSeq(q, n + 1, Len(q)) \in Seq(Unit) /\ Len(SubSeq(q, n + 1, Len(q))) = Len(q) - n
         /\ \A k \in 1 .. Len(q) - n : SubSeq(q, n + 1, Len(q))[k] = q[n + k]
         /\ SubSeq(q, 1, n) \o SubSeq(q, n + 1, Len(q)) = q
<1>1. Len(q) \in Nat /\ n \in Int /\ \A k \in 1 .. Len(q) : q[k] \in Unit
  BY ElementOfSeq
<1>2. /\ SubSeq(q, 1, n) \in Seq(Unit) /\ Len(SubSeq(q, 1, n)) = n
      /\ \A k \in 1 .. n : SubSeq(q, 1, n)[k] = q[k]
  <2>1. \A k \in 1 .. n : q[k] \in Unit
    BY <1>1
  <2>2. /\ SubSeq(q, 1, n) \in Seq(Unit) /\ Len(SubSeq(q, 1, n)) = IF 1 <= n THEN n - 1 + 1 ELSE 0
        /\ \A k \in 1 .. n - 1 + 1 : SubSeq(q, 1, n)[k] = q[1 + k - 1]
    BY <1>1, <2>1, SubSeqProperties
  <2>3. n - 1 + 1 = n /\ 1 <= n /\ \A k \in 1 .. n : 1 + k - 1 = k
    BY <1>1
  <2> QED
    BY <2>2, <2>3
<1>3. /\ SubSeq(q, n + 1, Len(q)) \in Seq(Unit) /\ Len(SubSeq(q, n + 1, Len(q))) = Len(q) - n
      /\ \A k \in 1 .. Len(q) - n : SubSeq(q, n + 1, Len(q))[k] = q[n + k]
  <2> DEFINE m == n + 1
  <2>1. m \in Int /\ Len(q) \in Int /\ \A k \in m .. Len(q) : q[k] \in Unit
    BY <1>1
  <2>2. /\ SubSeq(q, m, Len(q)) \in Seq(Unit)
        /\ Len(SubSeq(q, m, Len(q))) = IF m <= Len(q) THEN Len(q) - m + 1 ELSE 0
        /\ \A k \in 1 .. Len(q) - m + 1 : SubSeq(q, m, Len(q))[k] = q[m + k - 1]
    <3> HIDE DEF m
    <3> QED
      BY <2>1, SubSeqProperties
  <2>3. /\ Len(q) - m + 1 = Len(q) - n /\ (m <= Len(q) \/ Len(q) - n = 0)
        /\ \A k \in 1 .. Len(q) - n : m + k - 1 = n + k
    BY <1>1
  <2> QED
    BY <2>2, <2>3
<1>4. SubSeq(q, 1, n) \o SubSeq(q, n + 1, Len(q)) = q
  <2>1. 1 \in 1 .. Len(q) + 1 /\ n \in 1 - 1 .. Len(q) /\ Len(q) \in n .. Len(q)
    BY <1>1
  <2>2. SubSeq(q, 1, n) \o SubSeq(q, n + 1, Len(q)) = SubSeq(q, 1, Len(q))
    BY <2>1, ConcatAdjacentSubSeq
  <2> QED
    BY <2>2, SubSeqFull
<1> QED
  BY <1>2, <1>3, <1>4

(* The marker that is read alone is the last of the flow, and leads nowhere.  *)
LEMMA MarkerLast ==
  ASSUME NEW p, NEW q \in Seq(Unit), NEW r, NEW ps, NEW z, Path(p, q \o <<Marker>>, r, ps, z)
  PROVE  Path(p, q, r, ps, z)
<1>1. PICK st : /\ Leads(st, q \o <<Marker>>, ps, z) /\ st[1] = p
                /\ st[Len(q \o <<Marker>>) + 1] = r
  BY DEF Path
<1>2. /\ Len(q) \in Nat /\ Len(q \o <<Marker>>) = Len(q) + 1
      /\ (q \o <<Marker>>)[Len(q) + 1] = Marker
  BY MarkerFacts
<1>3. Accepts(st[Len(q) + 1], Marker, ps, z) /\ r = After(st[Len(q) + 1], Marker, z)
  BY <1>1, <1>2 DEF Leads
<1>4. r = st[Len(q) + 1]
  BY <1>3, MarkerFacts DEF Accepts, After
<1>5. Leads(st, q, ps, z)
  BY <1>1, MarkerFacts, LeadsPrefix
<1> QED
  BY <1>1, <1>4, <1>5 DEF Path

LEMMA MoveInv == ASSUME TransferInv, Move PROVE TransferInv'
<1> USE DEF TransferInv
<1>1. /\ up \in Seq(Unit) /\ down \in Seq(Unit) /\ ~cut /\ Len(up) \in Nat /\ Len(down) \in Nat
      /\ Len(up) <= PipeSize /\ Len(down) <= PipeSize
      /\ UNCHANGED <<compression, lz4, answer, cut, aborted, writer, reader, refused>>
  BY DEF Move, TypeOK
<1>2. PICK n \in 1 .. Len(down) :
        /\ down' = SubSeq(down, n + 1, Len(down))
        /\ IF SubSeq(down, 1, n) = <<Marker>>
           THEN ended' = TRUE /\ UNCHANGED up
           ELSE /\ Len(up) + n <= PipeSize
                /\ up' = up \o SubSeq(down, 1, n) /\ UNCHANGED ended
  BY DEF Move
<1> DEFINE chunk == SubSeq(down, 1, n)
<1>3. /\ chunk \in Seq(Unit) /\ Len(chunk) = n /\ \A k \in 1 .. n : chunk[k] = down[k]
      /\ down' \in Seq(Unit) /\ Len(down') = Len(down) - n
      /\ \A k \in 1 .. Len(down) - n : down'[k] = down[n + k]
      /\ chunk \o down' = down
  BY <1>1, <1>2, Parts
<1>4. \/ chunk = <<Marker>> /\ ended' = TRUE /\ up' = up
      \/ chunk # <<Marker>> /\ Len(up) + n <= PipeSize /\ up' = up \o chunk /\ ended' = ended
  BY <1>2
<1>14. n \in Int /\ 1 <= n /\ n <= Len(down) /\ Len(down) \in Int /\ Len(up) \in Int
  BY <1>1
<1> HIDE DEF chunk
<1>5. WriterOK' /\ WriterPlace' = WriterPlace /\ Short' = Short
  BY <1>1, WriterSame
<1>6. ReaderOK' /\ ReaderAt' = ReaderAt
  BY <1>1, ReaderSame DEF writer
<1>7. AbortsExplained'
  BY <1>1 DEF AbortsExplained, writer
<1>8. opc' = opc /\ plans' = plans /\ LZ4' = LZ4 /\ ~cut'
  BY <1>1 DEF writer, LZ4
<1>9. /\ \A k \in 1 .. Len(down) : down[k].kind = "close" => opc = "done" /\ k = Len(down)
      /\ \A k \in 1 .. Len(up) : up[k].kind # "close"
  <2>1. down # <<>>
    BY <1>1, <1>2
  <2> QED
    BY <2>1 DEF Closing
<1>10. Agreed'
  <2>1. UNCHANGED <<compression, lz4, answer, cut, opc, rpc, received, refused>> /\ ~cut
    BY <1>1 DEF writer, reader
  <2> QED
    BY <2>1 DEF Agreed, LZ4
<1>11. TypeOK'
  <2>1. up' \in Seq(Unit) /\ Len(up') <= PipeSize /\ ended' \in BOOLEAN
    <3>1. CASE up' = up /\ ended' = TRUE
      BY <1>1, <3>1
    <3>2. CASE Len(up) + n <= PipeSize /\ up' = up \o chunk /\ ended' = ended
      <4>1. up' \in Seq(Unit) /\ Len(up') = Len(up) + Len(chunk)
        BY <1>1, <1>3, <3>2, ConcatProperties
      <4>2. ended' \in BOOLEAN
        BY <3>2 DEF TypeOK
      <4>3. Len(up') <= PipeSize
        BY <1>3, <3>2, <4>1
      <4> QED
        BY <4>1, <4>2, <4>3
    <3> QED
      BY <1>4, <3>1, <3>2
  <2>2. Len(down') <= PipeSize
    BY <1>1, <1>3, BufferFacts
  <2> QED
    BY <1>1, <1>3, <2>1, <2>2, PipesTyped DEF writer, reader
<1>12. Closing'
  <2>1. ASSUME NEW k \in 1 .. Len(down'), down'[k].kind = "close"
        PROVE  opc' = "done" /\ k = Len(down')
    <3>1. n + k \in 1 .. Len(down) /\ down'[k] = down[n + k]
      <4>1. k \in 1 .. Len(down) - n
        BY <1>3
      <4>2. n + k \in 1 .. Len(down)
        BY <1>14, <4>1
      <4> QED
        BY <1>3, <4>1, <4>2
    <3>2. opc = "done" /\ n + k = Len(down)
      BY <1>9, <2>1, <3>1
    <3>3. k \in Int /\ Len(down') = Len(down) - n
      BY <1>3
    <3> QED
      BY <1>8, <1>14, <3>2, <3>3
  <2>2. (opc = "done" => Len(plans) = Forwards)'
    BY <1>8 DEF Closing
  <2>3. CASE chunk = <<Marker>> /\ ended' = TRUE /\ up' = up
    <3>1. n = 1 /\ 1 \in 1 .. Len(down) /\ down[1] = Marker
      <4>1. Len(<<Marker>>) = 1 /\ <<Marker>>[1] = Marker
        OBVIOUS
      <4> QED
        BY <1>1, <1>3, <2>3, <4>1
    <3>2. opc = "done" /\ Len(down) = 1
      BY <1>9, <3>1, MarkerFacts
    <3>3. down' = <<>>
      BY <1>3, <3>1, <3>2
    <3> QED
      BY <1>8, <1>9, <2>1, <2>2, <2>3, <3>2, <3>3 DEF Closing
  <2>4. CASE up' = up \o chunk /\ ended' = ended
    <3>1. ~ended'
      BY <1>1, <1>2, <2>4 DEF Closing
    <3>2. /\ Len(up') = Len(up) + n
          /\ \A k \in 1 .. Len(up) : up'[k] = up[k]
          /\ \A k \in Len(up) + 1 .. Len(up) + n : up'[k] = chunk[k - Len(up)]
      <4>1. /\ Len(up \o chunk) = Len(up) + Len(chunk)
            /\ \A k \in 1 .. Len(up) + Len(chunk) :
                 (up \o chunk)[k] = IF k <= Len(up) THEN up[k] ELSE chunk[k - Len(up)]
        BY <1>1, <1>3, ConcatProperties
      <4>2. Len(chunk) = n
        BY <1>3
      <4>3. \A k \in 1 .. Len(up) : k \in 1 .. Len(up) + n /\ k <= Len(up)
        BY <1>14
      <4>4. \A k \in Len(up) + 1 .. Len(up) + n : k \in 1 .. Len(up) + n /\ ~(k <= Len(up))
        BY <1>1, <1>14
      <4> QED
        BY <2>4, <4>1, <4>2, <4>3, <4>4
    <3>3. ASSUME NEW k \in 1 .. Len(up'), up'[k].kind = "close"
          PROVE  opc' = "done" /\ k = Len(up') /\ down' = <<>>
      <4>1. k > Len(up)
        BY <1>1, <1>9, <3>2, <3>3
      <4>2. k - Len(up) \in 1 .. n /\ up'[k] = down[k - Len(up)]
        BY <1>1, <1>3, <3>2, <4>1
      <4>3. opc = "done" /\ k - Len(up) = Len(down)
        <5>1. k - Len(up) \in 1 .. Len(down)
          BY <1>14, <4>2
        <5>2. down[k - Len(up)].kind = "close"
          BY <3>3, <4>2
        <5> QED
          BY <1>9, <5>1, <5>2
      <4>4. n = Len(down)
        BY <1>1, <4>2, <4>3
      <4>5. Len(down') = 0 /\ k = Len(up')
        BY <1>1, <1>3, <3>2, <4>3, <4>4
      <4> QED
        BY <1>3, <1>8, <4>3, <4>5, EmptySeq
    <3> QED
      BY <2>1, <2>2, <3>1, <3>3 DEF Closing
  <2> QED
    BY <1>4, <2>3, <2>4
<1>13. FlowOK'
  <2>1. Flow = up \o (chunk \o down') /\ Flow' = up' \o down'
    BY <1>1, <1>3, <1>8 DEF Flow
  <2>2. CASE up' = up \o chunk
    <3>1. Flow' = Flow
      <4>1. up \in Seq(Unit) /\ chunk \in Seq(Unit) /\ down' \in Seq(Unit)
        BY <1>1, <1>3
      <4>2. (up \o chunk) \o down' = up \o (chunk \o down')
        BY <4>1, ConcatAssociative
      <4> QED
        BY <2>1, <2>2, <4>2
    <3> QED
      BY <1>1, <1>5, <1>6, <1>8, <3>1, FlowQuiet
  <2>3. CASE chunk = <<Marker>> /\ ended' = TRUE /\ up' = up
    <3>1. down' = <<>>
      BY <1>12, <2>3 DEF Closing
    <3>2. Flow' = up /\ Flow = up \o <<Marker>>
      BY <1>1, <2>1, <2>3, <3>1, MarkerFacts, ConcatEmptySeq
    <3> SUFFICES ASSUME ~refused'
                 PROVE  \E p : /\ Path(ReaderAt', Flow', p, plans', LZ4')
                               /\ ~cut' /\ ~Short' => p = WriterPlace'
      BY DEF FlowOK
    <3>3. PICK r : /\ Path(ReaderAt, Flow, r, plans, LZ4)
                   /\ ~cut /\ ~Short => r = WriterPlace
      BY <1>1 DEF FlowOK
    <3>4. Path(ReaderAt, up, r, plans, LZ4)
      BY <1>1, <3>2, <3>3, MarkerLast
    <3> QED
      BY <1>1, <1>5, <1>6, <1>8, <3>2, <3>3, <3>4
  <2> QED
    BY <1>4, <2>2, <2>3
<1> QED
  BY <1>5, <1>6, <1>7, <1>10, <1>11, <1>12, <1>13

LEMMA MoveAnswerInv == ASSUME TransferInv, MoveAnswer PROVE TransferInv'
<1> USE DEF TransferInv
<1>1. WriterOK' /\ WriterPlace' = WriterPlace /\ Short' = Short
  BY WriterSame DEF MoveAnswer
<1>2. ReaderOK' /\ ReaderAt' = ReaderAt
  BY ReaderSame DEF MoveAnswer, writer
<1>3. AbortsExplained' /\ Closing'
  BY DEF MoveAnswer, AbortsExplained, Closing, writer
<1>4. TypeOK'
  BY DEF MoveAnswer, TypeOK, writer, reader
<1>5. Agreed'
  BY DEF MoveAnswer, Agreed, LZ4, TypeOK, writer, reader
<1>6. FlowOK'
  BY <1>1, <1>2, FlowQuiet DEF MoveAnswer, Flow, writer
<1> QED
  BY <1>1, <1>2, <1>3, <1>4, <1>5, <1>6

LEMMA CutInv == ASSUME TransferInv, Cut PROVE TransferInv'
<1> USE DEF TransferInv
<1>1. WriterOK' /\ WriterPlace' = WriterPlace /\ Short' = Short
  BY WriterSame DEF Cut
<1>2. ReaderOK' /\ ReaderAt' = ReaderAt
  BY ReaderSame DEF Cut, writer
<1>3. AbortsExplained' /\ Closing'
  BY DEF Cut, AbortsExplained, Closing, writer
<1>4. TypeOK'
  BY DEF Cut, TypeOK, writer, reader
<1>5. Agreed'
  BY DEF Cut, Agreed, LZ4, writer, reader
<1>6. FlowOK'
  <2> SUFFICES ASSUME ~refused'
               PROVE  \E p : /\ Path(ReaderAt', Flow', p, plans', LZ4')
                             /\ ~cut' /\ ~Short' => p = WriterPlace'
    BY DEF FlowOK
  <2>1. ~refused /\ plans' = plans /\ LZ4' = LZ4 /\ cut' /\ Flow' = up /\ Flow = up \o down
    BY DEF Cut, LZ4, Flow, writer
  <2>2. PICK r : Path(ReaderAt, up \o down, r, plans, LZ4)
    BY <2>1 DEF FlowOK
  <2>3. PICK p : Path(ReaderAt, up, p, plans, LZ4)
    BY <2>2, Streams, PathPrefix
  <2> QED
    BY <1>2, <2>1, <2>3
<1> QED
  BY <1>1, <1>2, <1>3, <1>4, <1>5, <1>6

-----------------------------------------------------------------------------
(* The writer.                                                                *)
Kinds == {"init", "command", "length", "data"}

LEMMA CommandTyped ==
  ASSUME TypeOK, NEW kind \in Kinds, NEW n \in Int
  PROVE  /\ Command(kind, n) \in Seq(Unit) /\ Len(Command(kind, n)) = 1
         /\ Command(kind, n)[1] = [lz4 |-> lz4["originator"], kind |-> kind, n |-> n, at |-> 0]
<1>1. lz4["originator"] \in BOOLEAN
  BY DEF TypeOK, Side
<1>2. [lz4 |-> lz4["originator"], kind |-> kind, n |-> n, at |-> 0] \in Unit
  BY <1>1 DEF Unit, Kinds
<1> QED
  BY <1>2 DEF Command

LEMMA DataTyped ==
  ASSUME TypeOK, NEW from \in Nat, NEW n \in Nat
  PROVE  /\ Data(from, n) \in Seq(Unit)
         /\ \A k \in 1 .. Len(Data(from, n)) : Data(from, n)[k].kind = "data"
<1>1. CASE lz4["originator"]
  <2>1. [lz4 |-> TRUE, kind |-> "data", n |-> n, at |-> from] \in Unit
    BY DEF Unit
  <2> QED
    BY <1>1, <2>1 DEF Data
<1>2. CASE ~lz4["originator"]
  <2> DEFINE q == RawData(from, n)
  <2>1. \A i \in 1 .. n : [lz4 |-> FALSE, kind |-> "data", n |-> 1, at |-> from + i - 1] \in Unit
    BY DEF Unit
  <2>2. q \in [1 .. n -> Unit] /\ Len(q) = n /\ \A k \in 1 .. n : q[k].kind = "data"
    BY <2>1 DEF RawData
  <2>3. q \in Seq(Unit)
    BY <2>2, SeqDef
  <2>4. Data(from, n) = q
    BY <1>2 DEF Data, RawData
  <2> QED
    BY <2>2, <2>3, <2>4
<1> QED
  BY <1>1, <1>2

LEMMA WrittenTyped ==
  ASSUME TypeOK, NEW u \in Seq(Unit), WriteDown(u)
  PROVE  down' \in Seq(Unit) /\ Len(down') <= PipeSize /\ down' = down \o u
<1>1. down' = down \o u /\ Len(down) + Len(u) <= PipeSize
  BY DEF WriteDown
<1> QED
  BY <1>1, ConcatProperties DEF TypeOK

LEMMA WrittenOpen ==
  ASSUME TypeOK, Closing, NEW u \in Seq(Unit), \A k \in 1 .. Len(u) : u[k].kind # "close",
         down' = down \o u, UNCHANGED <<up, ended>>, opc # "done", opc' # "done"
  PROVE  Closing'
<1>1. /\ Len(down) \in Nat /\ Len(u) \in Nat /\ Len(down') = Len(down) + Len(u)
      /\ \A k \in 1 .. Len(down) + Len(u) :
           down'[k] = IF k <= Len(down) THEN down[k] ELSE u[k - Len(down)]
  BY ConcatProperties DEF TypeOK
<1>2. /\ ~ended /\ \A k \in 1 .. Len(down) : down[k].kind # "close"
      /\ \A k \in 1 .. Len(up) : up[k].kind # "close"
  BY DEF Closing
<1>3. ASSUME NEW k \in 1 .. Len(down') PROVE down'[k].kind # "close"
  <2>1. CASE k <= Len(down)
    BY <1>1, <1>2, <2>1
  <2>2. CASE k > Len(down)
    <3>1. k - Len(down) \in 1 .. Len(u) /\ down'[k] = u[k - Len(down)]
      BY <1>1, <2>2
    <3> QED
      BY <3>1
  <2> QED
    BY <1>1, <2>1, <2>2
<1> QED
  BY <1>2, <1>3 DEF Closing

LEMMA QuietOpen ==
  ASSUME Closing, UNCHANGED <<down, up, ended>>, opc # "done", opc' # "done"
  PROVE  Closing'
BY DEF Closing

LEMMA ReaderMore ==
  ASSUME TypeOK, ReaderOK, Agreed, NEW plan, plans' = Append(plans, plan),
         UNCHANGED <<compression, reader, cut, aborted>>
  PROVE  ReaderOK' /\ ReaderAt' = ReaderAt
<1>1. ReaderAt' = ReaderAt
  BY DEF ReaderAt, reader, LZ4, File
<1>2. /\ Len(plans) \in Nat /\ Len(plans') = Len(plans) + 1 /\ File \in Nat
      /\ \A i \in 1 .. Len(plans) : plans'[i] = plans[i]
  BY PlansTyped DEF TypeOK, File
<1>3. File' = File /\ received' = received /\ rpc' = rpc /\ \A i : Complete(i)' <=> Complete(i)
  BY DEF reader, File, Complete
<1>4. ASSUME NEW i \in 1 .. File, Complete(i) PROVE plans'[i] = plans[i]
  <2>1. CASE rpc \in {"init", "done"}
    <3>1. File = 0
      BY <2>1 DEF ReaderOK, Agreed, File
    <3> QED
      BY <3>1
  <2>2. CASE rpc = "command"
    <3>1. File <= Len(plans) + 1 /\ i < File
      BY <1>4, <2>2 DEF ReaderOK, Complete
    <3>2. i \in 1 .. Len(plans)
      BY <1>2, <3>1
    <3> QED
      BY <1>2, <3>2
  <2>3. CASE rpc \notin {"init", "done", "command"}
    <3>1. File <= Len(plans)
      BY <2>3 DEF ReaderOK
    <3> QED
      BY <1>2, <3>1
  <2> QED
    BY <2>1, <2>2, <2>3
<1>5. rpc \in {"length", "header", "data"} => plans'[File] = plans[File]
  <2>1. rpc \in {"length", "header", "data"} => File > 0 /\ File <= Len(plans)
    BY DEF ReaderOK
  <2> QED
    BY <1>2, <2>1
<1>6. ReaderOK'
  <2>1. (\A i \in 1 .. File : Complete(i) /\ ~cut => Len(received[i]) = Meant(plans[i]))'
    <3> SUFFICES ASSUME NEW i \in 1 .. File, Complete(i), ~cut
                 PROVE  Len(received[i]) = Meant(plans'[i])
      BY <1>3 DEF Meant
    <3> QED
      BY <1>4 DEF ReaderOK
  <2>2. (rpc = "command" => File <= Len(plans) + 1)' /\ (rpc \notin {"init", "command"} => File <= Len(plans))'
    BY <1>2, <1>3 DEF ReaderOK
  <2>3. (\A i \in 1 .. File : Copied(received[i]))'
    BY <1>3 DEF ReaderOK, Copied
  <2> QED
    BY <1>3, <1>5, <2>1, <2>2, <2>3 DEF ReaderOK, reader, LZ4
<1> QED
  BY <1>1, <1>6

LEMMA CreateStreamInv == ASSUME TransferInv, CreateStream PROVE TransferInv'
<1> USE DEF TransferInv
<1> DEFINE u == Command("init", 0)
<1>1. /\ opc = "create" /\ opc' = "await" /\ plans = <<>> /\ plans' = <<>> /\ ~Short /\ ~Short'
      /\ lz4["originator"] = FALSE
      /\ lz4' = [lz4 EXCEPT !["originator"] = LZ4] /\ LZ4' = LZ4
  BY DEF CreateStream, AtO, WriterOK, Short, Agreed, LZ4
<1>2. u \in Seq(Unit) /\ u = <<[lz4 |-> FALSE, kind |-> "init", n |-> 0, at |-> 0]>>
  <2>0. TypeOK /\ "init" \in Kinds /\ 0 \in Int
    BY DEF Kinds
  <2>1. u \in Seq(Unit)
    BY <2>0, CommandTyped
  <2>2. u = <<[lz4 |-> FALSE, kind |-> "init", n |-> 0, at |-> 0]>>
    BY <1>1 DEF Command
  <2> QED
    BY <2>1, <2>2
<1>3. down' \in Seq(Unit) /\ Len(down') <= PipeSize /\ down' = down \o u
  BY <1>2, WrittenTyped DEF CreateStream
<1>4. ReaderOK' /\ ReaderAt' = ReaderAt
  BY ReaderSame DEF CreateStream
<1>5. WriterOK' /\ AbortsExplained'
  BY <1>1 DEF CreateStream, WriterOK, AbortsExplained
<1>6. Closing'
  <2>1. \A k \in 1 .. Len(u) : u[k].kind # "close"
    <3>1. Len(u) = 1 /\ u[1].kind = "init"
      BY <1>2
    <3> QED
      BY <3>1
  <2>2. UNCHANGED <<up, ended>>
    BY DEF CreateStream
  <2> HIDE DEF u
  <2> QED
    BY <1>1, <1>2, <1>3, <2>1, <2>2, WrittenOpen
<1>7. TypeOK'
  BY <1>1, <1>3 DEF CreateStream, TypeOK, reader, Side, LZ4
<1>8. Agreed'
  BY <1>1 DEF CreateStream, Agreed, reader, TypeOK, Side
<1>9. FlowOK'
  <2>1. Accepts(WriterPlace, u[1], plans', LZ4) /\ After(WriterPlace, u[1], LZ4) = WriterPlace'
    BY <1>1, <1>2 DEF Accepts, After, WriterPlace, Place, Between
  <2>2. Path(WriterPlace, u, WriterPlace', plans', LZ4)
    BY <1>2, <2>1, PathOne
  <2> HIDE DEF u
  <2> QED
    BY <1>1, <1>2, <1>3, <1>4, <2>2, FlowWritten DEF CreateStream
<1> QED
  BY <1>4, <1>5, <1>6, <1>7, <1>8, <1>9

LEMMA StreamCreatedInv == ASSUME TransferInv, StreamCreated PROVE TransferInv'
<1> USE DEF TransferInv
<1>1. /\ opc = "await" /\ opc' = "ready" /\ plans = <<>> /\ plans' = <<>> /\ ~Short /\ ~Short'
      /\ LZ4' = LZ4 /\ down' = down /\ WriterPlace' = WriterPlace
  BY DEF StreamCreated, AtO, WriterOK, Short, LZ4, pipes, WriterPlace
<1>2. ReaderOK' /\ ReaderAt' = ReaderAt
  BY ReaderSame DEF StreamCreated, pipes
<1>3. WriterOK' /\ AbortsExplained'
  BY <1>1 DEF StreamCreated, WriterOK, AbortsExplained, pipes
<1>4. Closing'
  BY <1>1, QuietOpen DEF StreamCreated, pipes
<1>5. TypeOK'
  BY <1>1 DEF StreamCreated, TypeOK, reader, pipes
<1>6. Agreed'
  BY <1>1 DEF StreamCreated, Agreed, reader, pipes
<1>7. FlowOK'
  BY <1>1, <1>2, FlowQuiet DEF StreamCreated, pipes, Flow
<1> QED
  BY <1>2, <1>3, <1>4, <1>5, <1>6, <1>7

LEMMA ForwardFileInv ==
  ASSUME TransferInv, NEW size \in Sizes, NEW bound \in Bounds \cup {Unbounded},
         ForwardFile(size, bound)
  PROVE  TransferInv'
<1> USE DEF TransferInv
<1> DEFINE plan == [size |-> size, bound |-> bound]
           n == Len(plans)
           u == IF bound = Unbounded THEN Command("command", Unbounded)
                ELSE Command("command", Bounded) \o Command("length", bound)
<1>1. /\ opc = "ready" /\ opc' = "chunk" /\ ~aborted["originator"] /\ ~Short /\ ~Short'
      /\ sent' = 0 /\ plans' = Append(plans, plan) /\ n < Forwards
      /\ lz4["originator"] = LZ4 /\ lz4["originator"] \in BOOLEAN /\ LZ4' = LZ4
      /\ WriteDown(u)
      /\ UNCHANGED <<compression, lz4, up, answer, cut, ended, aborted, reader, refused>>
  BY DEF ForwardFile, AtO, WriterOK, Short, Agreed, LZ4
<1>2. /\ plans \in Plans /\ n \in Nat /\ Len(plans') = n + 1 /\ plans' # <<>> /\ Plan' = plan
      /\ DOMAIN plans' = 1 .. n + 1 /\ plans'[n + 1] = plan
      /\ \A i \in 1 .. n : plans'[i] = plans[i]
      /\ plans' \in Seq([size : Sizes, bound : Bounds \cup {Unbounded}])
  <2>1. plan \in [size : Sizes, bound : Bounds \cup {Unbounded}]
    OBVIOUS
  <2>2. plans \in Seq([size : Sizes, bound : Bounds \cup {Unbounded}])
    BY DEF TypeOK
  <2>3. /\ plans' \in Seq([size : Sizes, bound : Bounds \cup {Unbounded}])
        /\ Len(plans') = n + 1 /\ plans'[n + 1] = plan /\ plans' # <<>>
        /\ \A i \in 1 .. n : plans'[i] = plans[i]
    BY <1>1, <2>1, <2>2, AppendProperties
  <2>4. Plan' = plan /\ DOMAIN plans' = 1 .. n + 1
    BY <1>1, <2>2, <2>3, LenProperties DEF Plan, Last
  <2> QED
    BY <2>3, <2>4, PlansTyped
<1>3. /\ Command("command", Unbounded) \in Seq(Unit) /\ Command("command", Bounded) \in Seq(Unit)
      /\ Command("command", Unbounded) = <<[lz4 |-> LZ4, kind |-> "command", n |-> Unbounded, at |-> 0]>>
      /\ Command("command", Bounded) = <<[lz4 |-> LZ4, kind |-> "command", n |-> Bounded, at |-> 0]>>
      /\ Command("length", bound) \in Seq(Unit)
      /\ Command("length", bound) = <<[lz4 |-> LZ4, kind |-> "length", n |-> bound, at |-> 0]>>
  <2>1. TypeOK /\ "command" \in Kinds /\ "length" \in Kinds
        /\ bound \in Int /\ Bounded \in Int /\ Unbounded \in Int
    BY TransferAssumption DEF Kinds, Bounded, Unbounded, TransferAssumption
  <2>2. /\ Command("command", Unbounded) \in Seq(Unit) /\ Command("command", Bounded) \in Seq(Unit)
        /\ Command("length", bound) \in Seq(Unit)
    BY <2>1, CommandTyped
  <2> QED
    BY <1>1, <2>2 DEF Command
<1>4. u \in Seq(Unit) /\ \A k \in 1 .. Len(u) : u[k].kind # "close"
  <2>1. CASE bound = Unbounded
    BY <1>3, <2>1
  <2>2. CASE bound # Unbounded
    BY <1>3, <2>2
  <2> QED
    BY <2>1, <2>2
<1> HIDE DEF u
<1>5. down' \in Seq(Unit) /\ Len(down') <= PipeSize /\ down' = down \o u
  BY <1>1, <1>4, WrittenTyped
<1>6. ReaderOK' /\ ReaderAt' = ReaderAt
  BY <1>1, ReaderMore
<1>7. WriterOK'
  BY <1>1, <1>2, TransferAssumption DEF WriterOK, Limited, Short, TransferAssumption, Unbounded
<1>8. AbortsExplained'
  BY <1>1, <1>2, PlansTyped DEF AbortsExplained, Overasked
<1>9. Closing'
  BY <1>1, <1>4, <1>5, WrittenOpen
<1>10. TypeOK'
  BY <1>1, <1>2, <1>5, BufferFacts DEF TypeOK, reader
<1>11. Agreed'
  BY <1>1 DEF Agreed, reader
<1>12. FlowOK'
  <2>1. WriterPlace = Between(n)
    BY <1>1 DEF WriterPlace
  <2>2. /\ n + 1 \in DOMAIN plans' /\ plans'[n + 1].bound = bound /\ plans'[n + 1].size = size
        /\ bound = Unbounded \/ bound - 0 = bound
    <3>1. n + 1 \in DOMAIN plans' /\ plans'[n + 1] = plan
      BY <1>2
    <3>2. bound = Unbounded \/ bound \in Nat
      BY TransferAssumption DEF TransferAssumption
    <3> QED
      BY <3>1, <3>2
  <2>3. CASE bound = Unbounded
    <3> DEFINE c == [lz4 |-> LZ4, kind |-> "command", n |-> Unbounded, at |-> 0]
    <3>1. WriterPlace' = Place("header", n + 1, 0)
      BY <1>1, <1>2, <2>3 DEF WriterPlace, Limited
    <3>2. Accepts(Between(n), c, plans', LZ4) /\ After(Between(n), c, LZ4) = Place("header", n + 1, 0)
      BY <2>2, <2>3 DEF Accepts, After, Between, Place
    <3>3. Path(WriterPlace, u, WriterPlace', plans', LZ4)
      BY <1>3, <2>1, <2>3, <3>1, <3>2, PathOne DEF u
    <3> QED
      BY <1>1, <1>4, <1>5, <1>6, <3>3, FlowWritten
  <2>4. CASE bound # Unbounded
    <3> DEFINE c == [lz4 |-> LZ4, kind |-> "command", n |-> Bounded, at |-> 0]
               l == [lz4 |-> LZ4, kind |-> "length", n |-> bound, at |-> 0]
    <3>1. WriterPlace' = NextBuffer(n + 1, 0, bound)
      BY <1>1, <1>2, <2>2, <2>4 DEF WriterPlace, Limited
    <3>2. Accepts(Between(n), c, plans', LZ4) /\ After(Between(n), c, LZ4) = Place("length", n + 1, 0)
      BY <2>2, <2>4 DEF Accepts, After, Between, Place, Bounded, Unbounded
    <3>3. /\ Accepts(Place("length", n + 1, 0), l, plans', LZ4)
          /\ After(Place("length", n + 1, 0), l, LZ4) = NextBuffer(n + 1, 0, bound)
      BY <2>2, <2>4 DEF Accepts, After, Place
    <3> HIDE DEF c, l
    <3>4. /\ Path(WriterPlace, <<c>>, Place("length", n + 1, 0), plans', LZ4)
          /\ Path(Place("length", n + 1, 0), <<l>>, WriterPlace', plans', LZ4)
      BY <2>1, <3>1, <3>2, <3>3, PathOne
    <3>5. u = <<c>> \o <<l>> /\ <<c>> \in Seq(Unit) /\ <<l>> \in Seq(Unit)
      BY <1>3, <2>4 DEF c, l, u
    <3>6. Path(WriterPlace, u, WriterPlace', plans', LZ4)
      BY <3>4, <3>5, PathConcat
    <3> QED
      BY <1>1, <1>4, <1>5, <1>6, <3>6, FlowWritten
  <2> QED
    BY <2>3, <2>4
<1> QED
  BY <1>6, <1>7, <1>8, <1>9, <1>10, <1>11, <1>12

(* What is on its way leads the writer from one buffer to the next, to the    *)
(* end of what it was to send or, if there is less, nowhere.                  *)
LEMMA ChunkFlow ==
  ASSUME TransferInv, AtO("chunk"), Desired # 0
  PROVE  /\ Chunk \in Seq(Unit) /\ \A k \in 1 .. Len(Chunk) : Chunk[k].kind # "close"
         /\ Desired \in Nat \ {0} /\ Actual \in Nat /\ Actual <= Desired /\ Actual <= Plan.size - sent
         /\ Limited => Desired <= Plan.bound - sent
         /\ \E p : /\ Path(WriterPlace, Chunk, p, plans, LZ4)
                   /\ ~Limited => p = Place("header", Len(plans), sent + Actual)
                   /\ Limited /\ Actual = Desired /\ sent + Actual = Plan.bound => p = Between(Len(plans))
                   /\ Limited /\ Actual = Desired /\ sent + Actual # Plan.bound =>
                        p = NextBuffer(Len(plans), sent + Actual, Plan.bound - (sent + Actual))
<1> USE DEF TransferInv
<1> DEFINE f == Len(plans)
           place == InData(f, sent, IF Limited THEN Plan.bound - sent ELSE Unbounded,
                           IF Limited THEN Desired ELSE Actual, 0)
           l == IF Limited THEN Plan.bound - sent ELSE Unbounded
           w == IF Limited THEN Desired ELSE Actual
           end == IF Actual = w THEN Filled(f, sent + Actual, l, w)
                  ELSE IF LZ4 THEN Place("short", f, 0) ELSE InData(f, sent + Actual, l, w, Actual)
           c == [lz4 |-> LZ4, kind |-> "command", n |-> Actual, at |-> 0]
<1>1. /\ opc = "chunk" /\ plans # <<>> /\ sent <= Plan.size /\ sent \in Nat
      /\ Limited => sent < Plan.bound \/ (Plan.bound = 0 /\ sent = 0)
      /\ lz4["originator"] = LZ4
  BY DEF AtO, WriterOK, Agreed, TypeOK, LZ4
<1>2. /\ plans \in Plans /\ f \in 1 .. f /\ f \in DOMAIN plans /\ Plan = plans[f]
      /\ Plan.size \in Nat /\ Plan.bound \in Nat \cup {Unbounded}
  BY <1>1, PlansTyped
<1>3. Limited => Plan.bound \in Nat /\ sent <= Plan.bound /\ Plan.bound - sent \in Nat
  BY <1>1, <1>2 DEF Limited
<1>4. /\ Desired \in Nat \ {0}
      /\ Limited => Desired <= Plan.bound - sent
      /\ Limited => Desired = Smaller(Plan.bound - sent, BufferSize)
      /\ ~Limited => Desired = BufferSize
  BY <1>3, BufferFacts DEF Desired, Smaller
<1>5. /\ Actual \in Nat /\ Actual <= Desired /\ Actual <= Plan.size - sent
      /\ Actual = Smaller(Desired, Plan.size - sent)
  BY <1>1, <1>2, <1>4 DEF Actual, Smaller
<1>6. /\ Command("command", Actual) \in Seq(Unit) /\ Command("command", Actual) = <<c>>
      /\ <<c>>[1].kind = "command" /\ Len(<<c>>) = 1
  <2>1. TypeOK /\ "command" \in Kinds /\ Actual \in Int
    BY <1>5 DEF Kinds
  <2>2. Command("command", Actual) \in Seq(Unit)
    BY <2>1, CommandTyped
  <2> QED
    BY <1>1, <2>2 DEF Command
<1>7. /\ Data(sent, Actual) \in Seq(Unit)
      /\ \A k \in 1 .. Len(Data(sent, Actual)) : Data(sent, Actual)[k].kind = "data"
  BY <1>1, <1>5, DataTyped
<1>8. /\ Actual = 0 => Chunk = <<>>
      /\ Actual # 0 /\ Limited => Chunk = Data(sent, Actual)
      /\ Actual # 0 /\ ~Limited => Chunk = <<c>> \o Data(sent, Actual)
  <2>1. Chunk = (IF Limited \/ Actual = 0 THEN <<>> ELSE <<c>>)
                 \o (IF Actual = 0 THEN <<>> ELSE Data(sent, Actual))
    BY <1>6 DEF Chunk
  <2>2. <<>> \o Data(sent, Actual) = Data(sent, Actual)
    BY <1>7, ConcatEmptySeq
  <2>3. <<>> \o <<>> = <<>>
    OBVIOUS
  <2> HIDE DEF c
  <2>4. CASE Actual = 0
    BY <2>1, <2>3, <2>4
  <2>5. CASE Actual # 0 /\ Limited
    BY <2>1, <2>2, <2>5
  <2>6. CASE Actual # 0 /\ ~Limited
    BY <2>1, <2>6
  <2> QED
    BY <2>4, <2>5, <2>6
<1>9. Chunk \in Seq(Unit) /\ \A k \in 1 .. Len(Chunk) : Chunk[k].kind # "close"
  <2>1. CASE Actual = 0
    BY <1>8, <2>1
  <2>2. CASE Actual # 0 /\ Limited
    BY <1>7, <1>8, <2>2
  <2>3. CASE Actual # 0 /\ ~Limited
    <3>1. /\ Chunk = <<c>> \o Data(sent, Actual) /\ <<c>> \in Seq(Unit) /\ Len(<<c>>) = 1
          /\ <<c>>[1].kind = "command"
      BY <1>6, <1>8, <2>3
    <3> HIDE DEF c
    <3>2. /\ Chunk \in Seq(Unit) /\ Len(Chunk) = 1 + Len(Data(sent, Actual))
          /\ \A k \in 1 .. 1 + Len(Data(sent, Actual)) :
               Chunk[k] = IF k <= 1 THEN <<c>>[k] ELSE Data(sent, Actual)[k - 1]
      BY <1>7, <3>1, ConcatProperties
    <3>3. ASSUME NEW k \in 1 .. Len(Chunk) PROVE Chunk[k].kind # "close"
      <4>1. Len(Data(sent, Actual)) \in Nat
        BY <1>7
      <4>2. CASE k = 1
        <5>1. Chunk[k] = <<c>>[1]
          BY <3>2, <4>1, <4>2
        <5> QED
          BY <3>1, <5>1
      <4>3. CASE k # 1
        <5>1. k - 1 \in 1 .. Len(Data(sent, Actual)) /\ Chunk[k] = Data(sent, Actual)[k - 1]
          BY <3>2, <4>1, <4>3
        <5> QED
          BY <1>7, <5>1
      <4> QED
        BY <4>2, <4>3
    <3> QED
      BY <3>2, <3>3
  <2> QED
    BY <2>1, <2>2, <2>3
<1>10. Limited => WriterPlace = place /\ l = Plan.bound - sent /\ w = Desired
  BY <1>1, <1>4 DEF WriterPlace, NextBuffer
<1>11. ~Limited => WriterPlace = Place("header", f, sent) /\ l = Unbounded /\ w = Actual
  BY <1>1 DEF WriterPlace
<1>12. ASSUME Actual # 0 PROVE Path(place, Data(sent, Actual), end, plans, LZ4)
  <2>1. w \in Nat /\ Actual \in Nat \ {0} /\ Actual <= w /\ Actual <= plans[f].size - sent
        /\ place = InData(f, sent, l, w, 0)
    BY <1>2, <1>4, <1>5, <1>12
  <2>2. Actual = Smaller(w, plans[f].size - sent)
    BY <1>1, <1>2, <1>5, <2>1 DEF Smaller
  <2>3. CASE LZ4
    <3>1. Data(sent, Actual) = <<[lz4 |-> TRUE, kind |-> "data", n |-> Actual, at |-> sent]>> /\ LZ4 = TRUE
      BY <1>1, <2>3 DEF Data, LZ4
    <3> HIDE DEF w, l, f, place
    <3>2. Path(InData(f, sent, l, w, 0), <<[lz4 |-> TRUE, kind |-> "data", n |-> Actual, at |-> sent]>>,
               IF Actual = w THEN Filled(f, sent + Actual, l, w) ELSE Place("short", f, 0), plans, TRUE)
      BY <1>1, <1>2, <2>1, <2>2, PacketPath
    <3> QED
      BY <2>1, <2>3, <3>1, <3>2
  <2>4. CASE ~LZ4
    <3>1. Data(sent, Actual) = RawData(sent, Actual) /\ LZ4 = FALSE
      BY <1>1, <2>4 DEF Data, RawData, LZ4
    <3> HIDE DEF w, l, f, place
    <3>2. Path(InData(f, sent, l, w, 0), RawData(sent, Actual),
               IF Actual = w THEN Filled(f, sent + Actual, l, w)
               ELSE InData(f, sent + Actual, l, w, Actual), plans, FALSE)
      BY <1>1, <1>2, <2>1, RawPath
    <3> QED
      BY <2>1, <2>4, <3>1, <3>2
  <2> QED
    BY <2>3, <2>4
<1>13. \E p : /\ Path(WriterPlace, Chunk, p, plans, LZ4)
              /\ ~Limited => p = Place("header", f, sent + Actual)
              /\ Limited /\ Actual = Desired /\ sent + Actual = Plan.bound => p = Between(f)
              /\ Limited /\ Actual = Desired /\ sent + Actual # Plan.bound =>
                   p = NextBuffer(f, sent + Actual, Plan.bound - (sent + Actual))
  <2>1. CASE Actual = 0
    <3>1. Path(WriterPlace, Chunk, WriterPlace, plans, LZ4)
      BY <1>8, <2>1, PathNone
    <3>2. ~Limited => WriterPlace = Place("header", f, sent + Actual)
      BY <1>1, <1>11, <2>1
    <3>3. Actual # Desired
      BY <1>4, <2>1
    <3> QED
      BY <3>1, <3>2, <3>3
  <2>2. CASE Actual # 0 /\ Limited
    <3>1. Path(WriterPlace, Chunk, end, plans, LZ4)
      BY <1>8, <1>10, <1>12, <2>2
    <3>2. Actual = Desired /\ sent + Actual = Plan.bound => end = Between(f)
      BY <1>1, <1>3, <1>4, <1>5, <1>10, <2>2 DEF Filled, Unbounded
    <3>3. Actual = Desired /\ sent + Actual # Plan.bound =>
            end = NextBuffer(f, sent + Actual, Plan.bound - (sent + Actual))
      <4> SUFFICES ASSUME Actual = Desired, sent + Actual # Plan.bound
                   PROVE  end = NextBuffer(f, sent + Actual, Plan.bound - (sent + Actual))
        OBVIOUS
      <4>1. l # Unbounded /\ l # w /\ l - w = Plan.bound - (sent + Actual) /\ Actual = w
        BY <1>1, <1>3, <1>4, <1>5, <1>10, <2>2 DEF Unbounded
      <4> QED
        BY <4>1 DEF Filled
    <3> QED
      BY <2>2, <3>1, <3>2, <3>3
  <2>3. CASE Actual # 0 /\ ~Limited
    <3>1. end = Place("header", f, sent + Actual)
      BY <1>11, <2>3 DEF Filled
    <3>2. /\ Accepts(Place("header", f, sent), c, plans, LZ4)
          /\ After(Place("header", f, sent), c, LZ4) = place
      <4>1. Actual = Smaller(BufferSize, plans[f].size - sent) /\ sent # plans[f].size /\ Actual # End
        BY <1>1, <1>2, <1>4, <1>5, <2>3 DEF End, Smaller
      <4>2. Accepts(Place("header", f, sent), c, plans, LZ4)
        BY <1>2, <4>1 DEF Accepts, Place
      <4>3. After(Place("header", f, sent), c, LZ4) = InData(f, sent, Unbounded, Actual, 0)
        BY <4>1 DEF After, Place
      <4> QED
        BY <4>2, <4>3, <1>11, <2>3
    <3>3. Path(WriterPlace, <<c>>, place, plans, LZ4)
      BY <1>11, <2>3, <3>2, PathOne
    <3>4. Path(place, Data(sent, Actual), end, plans, LZ4)
      BY <1>12, <2>3
    <3>5. Path(WriterPlace, <<c>> \o Data(sent, Actual), end, plans, LZ4)
      <4>1. <<c>> \in Seq(Unit)
        BY <1>6
      <4> HIDE DEF c, place, end
      <4> QED
        BY <1>7, <3>3, <3>4, <4>1, PathConcat
    <3> QED
      BY <1>8, <2>3, <3>1, <3>5
  <2> QED
    BY <2>1, <2>2, <2>3
<1> QED
  BY <1>4, <1>5, <1>9, <1>13

LEMMA ForwardChunkInv == ASSUME TransferInv, ForwardChunk PROVE TransferInv'
<1> USE DEF TransferInv
<1> DEFINE f == Len(plans)
<1>1. /\ opc = "chunk" /\ AtO("chunk") /\ plans # <<>> /\ sent <= Plan.size /\ sent \in Nat
      /\ Limited => sent < Plan.bound \/ (Plan.bound = 0 /\ sent = 0)
      /\ ~Short
      /\ UNCHANGED <<compression, lz4, up, answer, cut, ended, plans, reader, refused>>
      /\ LZ4' = LZ4 /\ Plan' = Plan /\ Limited' = Limited
  BY DEF ForwardChunk, AtO, WriterOK, TypeOK, Short, LZ4, Plan, Limited
<1>2. /\ plans \in Plans /\ f \in 1 .. f /\ Plan = plans[f] /\ DOMAIN plans = 1 .. f
      /\ Plan.size \in Nat /\ Plan.bound \in Nat \cup {Unbounded}
      /\ Limited => Plan.bound \in Nat
  BY <1>1, PlansTyped DEF Limited
<1>3. aborted'["remote"] = aborted["remote"]
  BY DEF ForwardChunk, Abort, TypeOK, Side
<1>4. ReaderOK' /\ ReaderAt' = ReaderAt
  BY <1>1, <1>3, ReaderSame
<1>5. CASE Desired = 0
  <2>1. /\ aborted' = [aborted EXCEPT !["originator"] = TRUE]
        /\ UNCHANGED <<down, sent, opc>>
    BY <1>5 DEF ForwardChunk, Abort
  <2>2. Plan.bound = 0
    BY <1>1, <1>2, <1>5, BufferFacts DEF Desired, Smaller
  <2>3. WriterOK' /\ Short' = Short /\ WriterPlace' = WriterPlace
    BY <1>1, <2>1 DEF WriterOK, Short, WriterPlace, Plan, Limited
  <2>4. AbortsExplained'
    BY <1>1, <1>2, <2>2 DEF AbortsExplained, Overasked
  <2>5. Closing'
    BY <1>1, <2>1, QuietOpen
  <2>6. TypeOK'
    BY <1>1, <2>1 DEF TypeOK, reader, Side
  <2>7. Agreed'
    BY <1>1, <2>1 DEF Agreed, reader
  <2>8. FlowOK'
    BY <1>1, <1>4, <2>1, <2>3, FlowQuiet DEF Flow
  <2> QED
    BY <1>4, <2>3, <2>4, <2>5, <2>6, <2>7, <2>8
<1>6. CASE Desired # 0
  <2>1. /\ WriteDown(Chunk) /\ sent' = sent + Actual
        /\ opc' = IF LastChunk THEN "end" ELSE "chunk"
        /\ aborted' = aborted
    BY <1>6 DEF ForwardChunk
  <2>2. /\ Chunk \in Seq(Unit) /\ \A k \in 1 .. Len(Chunk) : Chunk[k].kind # "close"
        /\ Desired \in Nat \ {0} /\ Actual \in Nat /\ Actual <= Desired /\ Actual <= Plan.size - sent
        /\ Limited => Desired <= Plan.bound - sent
    BY <1>1, <1>6, ChunkFlow
  <2>3. down' \in Seq(Unit) /\ Len(down') <= PipeSize /\ down' = down \o Chunk
    BY <2>1, <2>2, WrittenTyped
  <2>4. opc' # "done"
    BY <2>1
  <2>5. Closing'
    BY <1>1, <2>2, <2>3, <2>4, WrittenOpen
  <2>6. sent' \in Nat /\ sent' <= Plan.size /\ (Limited => sent' <= Plan.bound)
    BY <1>1, <1>2, <2>1, <2>2
  <2>7. TypeOK'
    BY <1>1, <2>1, <2>3, <2>6 DEF TypeOK, reader
  <2>8. Agreed'
    BY <1>1, <2>1 DEF Agreed, reader
  <2>9. AbortsExplained'
    BY <1>1, <2>1 DEF AbortsExplained
  <2>10. Actual < Desired => Actual = Plan.size - sent
    BY <1>1, <1>2, <2>2 DEF Actual, Smaller
  <2>11. /\ opc' = "chunk" /\ Limited => sent' < Plan.bound /\ Actual = Desired
         /\ opc' = "end" /\ Limited /\ sent' # Plan.bound => sent' = Plan.size /\ sent' < Plan.bound
         /\ opc' = "end" /\ ~Limited => sent' = Plan.size
    <3>1. ASSUME opc' = "chunk", Limited PROVE sent' < Plan.bound /\ Actual = Desired
      <4>1. ~LastChunk
        BY <2>1, <3>1
      <4>2. ~(Actual < Desired) /\ sent + Actual # Plan.bound
        BY <3>1, <4>1 DEF LastChunk
      <4> QED
        BY <1>1, <1>2, <2>1, <2>2, <2>6, <3>1, <4>2
    <3>2. ASSUME opc' = "end", Limited, sent' # Plan.bound
          PROVE  sent' = Plan.size /\ sent' < Plan.bound
      <4>1. LastChunk
        BY <2>1, <3>2
      <4>2. Actual < Desired
        BY <2>1, <3>2, <4>1 DEF LastChunk
      <4> QED
        BY <1>1, <1>2, <2>1, <2>2, <2>6, <2>10, <3>2, <4>2
    <3>3. ASSUME opc' = "end", ~Limited PROVE sent' = Plan.size
      <4>1. LastChunk
        BY <2>1, <3>3
      <4>2. Actual < Desired
        BY <3>3, <4>1 DEF LastChunk
      <4> QED
        BY <1>1, <1>2, <2>1, <2>2, <2>10, <4>2
    <3> QED
      BY <3>1, <3>2, <3>3
  <2>12. WriterOK'
    <3>1. opc' \in {"chunk", "end"}
      BY <2>1
    <3> QED
      BY <1>1, <2>6, <2>11, <3>1 DEF WriterOK, Short
  <2>13. FlowOK'
    <3>1. PICK p : /\ Path(WriterPlace, Chunk, p, plans, LZ4)
                   /\ ~Limited => p = Place("header", f, sent + Actual)
                   /\ Limited /\ Actual = Desired /\ sent + Actual = Plan.bound => p = Between(f)
                   /\ Limited /\ Actual = Desired /\ sent + Actual # Plan.bound =>
                        p = NextBuffer(f, sent + Actual, Plan.bound - (sent + Actual))
      BY <1>1, <1>6, ChunkFlow
    <3>2. ASSUME ~Short' PROVE p = WriterPlace'
      <4>1. CASE ~Limited
        <5>1. opc' \in {"chunk", "end"} /\ ~Limited' /\ plans' = plans
          BY <1>1, <2>1, <4>1
        <5>2. WriterPlace' = Place("header", f, sent')
          BY <5>1 DEF WriterPlace
        <5> QED
          BY <2>1, <3>1, <4>1, <5>2
      <4>2. CASE Limited /\ opc' = "chunk"
        <5>1. WriterPlace' = NextBuffer(f, sent', Plan.bound - sent')
          BY <1>1, <4>2 DEF WriterPlace
        <5>2. Actual = Desired /\ sent + Actual # Plan.bound
          BY <1>2, <2>1, <2>6, <2>11, <4>2
        <5> QED
          BY <2>1, <3>1, <4>2, <5>1, <5>2
      <4>3. CASE Limited /\ opc' = "end"
        <5>1. sent' = Plan.bound
          BY <1>1, <3>2, <4>3 DEF Short
        <5>2. Actual = Desired
          BY <1>1, <1>2, <2>1, <2>2, <4>3, <5>1
        <5>3. WriterPlace' = Between(f)
          BY <1>1, <4>3 DEF WriterPlace
        <5> QED
          BY <2>1, <3>1, <4>3, <5>1, <5>2, <5>3
      <4> QED
        BY <2>1, <4>1, <4>2, <4>3
    <3> HIDE DEF f
    <3> QED
      BY <1>1, <1>4, <2>2, <2>3, <3>1, <3>2, FlowWritten
  <2> QED
    BY <1>4, <2>5, <2>7, <2>8, <2>9, <2>12, <2>13
<1> QED
  BY <1>5, <1>6

LEMMA ForwardEndInv == ASSUME TransferInv, ForwardEnd PROVE TransferInv'
<1> USE DEF TransferInv
<1> DEFINE f == Len(plans)
<1>1. /\ opc = "end" /\ opc' = "ready" /\ ~aborted["originator"] /\ plans # <<>> /\ sent \in Nat
      /\ ~Limited => sent = Plan.size
      /\ Limited /\ sent # Plan.bound => sent = Plan.size /\ sent < Plan.bound
      /\ lz4["originator"] = LZ4
      /\ UNCHANGED <<compression, lz4, up, answer, cut, ended, plans, sent, reader, refused>>
      /\ LZ4' = LZ4 /\ Plan' = Plan /\ Limited' = Limited /\ Short' = Short
  BY DEF ForwardEnd, AtO, WriterOK, TypeOK, Short, LZ4, Plan, Limited, Agreed
<1>2. /\ plans \in Plans /\ f \in 1 .. f /\ Plan = plans[f] /\ DOMAIN plans = 1 .. f
      /\ Plan.size \in Nat /\ Plan.bound \in Nat \cup {Unbounded}
  BY <1>1, PlansTyped
<1>3. aborted'["remote"] = aborted["remote"]
  BY DEF ForwardEnd, TypeOK, Side
<1>4. ReaderOK' /\ ReaderAt' = ReaderAt
  BY <1>1, <1>3, ReaderSame
<1>5. Agreed'
  BY <1>1 DEF Agreed, reader
<1>6. CASE Limited
  <2>1. /\ aborted' = [aborted EXCEPT !["originator"] = (sent # Plan.bound)]
        /\ aborted'["originator"] = (sent # Plan.bound) /\ down' = down
    BY <1>6 DEF ForwardEnd, TypeOK, Side
  <2>2. WriterOK'
    BY <1>1, <1>6, <2>1 DEF WriterOK, Short
  <2>3. AbortsExplained'
    <3>1. CASE sent # Plan.bound
      <4>1. Plan.bound > Plan.size
        BY <1>1, <1>2, <1>6, <3>1
      <4> QED
        BY <1>1, <1>2, <4>1 DEF AbortsExplained, Overasked
    <3>2. CASE sent = Plan.bound
      <4>1. \A s \in Side : aborted'[s] => aborted[s]
        BY <1>3, <2>1, <3>2 DEF Side
      <4> QED
        BY <1>1, <4>1 DEF AbortsExplained
    <3> QED
      BY <3>1, <3>2
  <2>4. Closing'
    BY <1>1, <2>1, QuietOpen
  <2>5. TypeOK'
    BY <1>1, <2>1 DEF TypeOK, reader, Side
  <2>6. FlowOK'
    <3>1. WriterPlace' = WriterPlace
      BY <1>1, <1>6 DEF WriterPlace
    <3> QED
      BY <1>1, <1>4, <2>1, <3>1, FlowQuiet DEF Flow
  <2> QED
    BY <1>4, <1>5, <2>2, <2>3, <2>4, <2>5, <2>6
<1>7. CASE ~Limited
  <2> DEFINE u == Command("command", End)
             c == [lz4 |-> LZ4, kind |-> "command", n |-> End, at |-> 0]
  <2>1. WriteDown(u) /\ aborted' = aborted
    BY <1>7 DEF ForwardEnd
  <2>2. u \in Seq(Unit) /\ u = <<c>> /\ \A k \in 1 .. Len(u) : u[k].kind # "close"
    <3>1. TypeOK /\ "command" \in Kinds /\ End \in Int
      BY DEF Kinds, End
    <3>2. u \in Seq(Unit)
      BY <3>1, CommandTyped
    <3>3. u = <<c>>
      BY <1>1 DEF Command
    <3>4. Len(<<c>>) = 1 /\ <<c>>[1].kind = "command"
      OBVIOUS
    <3> QED
      BY <3>2, <3>3, <3>4
  <2> HIDE DEF u
  <2>3. down' \in Seq(Unit) /\ Len(down') <= PipeSize /\ down' = down \o u
    BY <2>1, <2>2, WrittenTyped
  <2>4. WriterOK' /\ AbortsExplained' /\ ~Short
    BY <1>1, <1>7, <2>1 DEF WriterOK, Short, AbortsExplained
  <2>5. Closing'
    BY <1>1, <2>2, <2>3, WrittenOpen
  <2>6. TypeOK'
    BY <1>1, <2>1, <2>3 DEF TypeOK, reader
  <2>7. FlowOK'
    <3>1. WriterPlace = Place("header", f, sent) /\ WriterPlace' = Between(f)
      BY <1>1, <1>7 DEF WriterPlace
    <3>2. /\ Accepts(Place("header", f, sent), c, plans, LZ4)
          /\ After(Place("header", f, sent), c, LZ4) = Between(f)
      BY <1>1, <1>2, <1>7 DEF Accepts, After, Place, Between, End, Unbounded
    <3>3. Path(WriterPlace, u, WriterPlace', plans, LZ4)
      BY <2>2, <3>1, <3>2, PathOne
    <3> QED
      BY <1>1, <1>4, <2>2, <2>3, <2>4, <3>3, FlowWritten
  <2> QED
    BY <1>4, <1>5, <2>4, <2>5, <2>6, <2>7
<1> QED
  BY <1>6, <1>7

LEMMA CloseStreamInv == ASSUME TransferInv, CloseStream PROVE TransferInv'
<1> USE DEF TransferInv
<1> DEFINE u == IF cut THEN <<>> ELSE <<Marker>>
<1>1. /\ opc = "ready" /\ opc' = "done" /\ ~aborted["originator"] /\ Len(plans) = Forwards
      /\ ~Short /\ ~Short' /\ LZ4' = LZ4
      /\ UNCHANGED <<compression, lz4, up, answer, cut, ended, aborted, plans, sent, reader, refused>>
  BY DEF CloseStream, AtO, WriterOK, Short, LZ4
<1>2. /\ cut => u = <<>>
      /\ ~cut => u = <<Marker>>
      /\ u \in Seq(Unit)
  BY MarkerFacts
<1>3. down' = down \o u /\ down' \in Seq(Unit) /\ Len(down') <= PipeSize
  <2>1. CASE cut
    <3>1. down' = down /\ u = <<>>
      BY <1>2, <2>1 DEF CloseStream
    <3> QED
      BY <3>1, Streams, ConcatEmptySeq DEF TypeOK
  <2>2. CASE ~cut
    <3>1. WriteDown(u)
      BY <1>2, <2>2 DEF CloseStream
    <3> HIDE DEF u
    <3> QED
      BY <1>2, <3>1, WrittenTyped
  <2> QED
    BY <2>1, <2>2
<1> HIDE DEF u
<1>4. ReaderOK' /\ ReaderAt' = ReaderAt
  BY <1>1, ReaderSame
<1>5. WriterOK' /\ AbortsExplained'
  BY <1>1 DEF WriterOK, AbortsExplained, Short
<1>6. Agreed'
  BY <1>1 DEF Agreed, reader
<1>7. TypeOK'
  BY <1>1, <1>3 DEF TypeOK, reader
<1>8. Closing'
  <2>1. /\ ~ended /\ \A k \in 1 .. Len(down) : down[k].kind # "close"
        /\ \A k \in 1 .. Len(up) : up[k].kind # "close"
    BY <1>1 DEF Closing
  <2>2. /\ Len(down) \in Nat /\ Len(u) \in {0, 1} /\ Len(down') = Len(down) + Len(u)
        /\ \A k \in 1 .. Len(down) : down'[k] = down[k]
    <3>1. Len(u) \in {0, 1}
      BY <1>2
    <3> QED
      BY <1>2, <1>3, <3>1, Streams, ConcatProperties
  <2>3. ASSUME NEW k \in 1 .. Len(down'), down'[k].kind = "close" PROVE k = Len(down')
    <3>1. k \notin 1 .. Len(down)
      BY <2>1, <2>2, <2>3
    <3>2. k \in Int /\ 1 <= k /\ k <= Len(down) + Len(u)
      BY <2>2
    <3>3. k > Len(down)
      BY <2>2, <3>1, <3>2
    <3> DEFINE m == Len(down)
               j == Len(u)
    <3>4. m \in Nat /\ j \in {0, 1} /\ k > m /\ k <= m + j /\ Len(down') = m + j
      BY <2>2, <3>2, <3>3
    <3> HIDE DEF m, j
    <3> QED
      BY <3>2, <3>4
  <2> QED
    BY <1>1, <2>1, <2>3 DEF Closing
<1>9. FlowOK'
  <2>1. WriterPlace = Between(Len(plans)) /\ WriterPlace' = Between(Len(plans))
    BY <1>1 DEF WriterPlace
  <2>2. ~cut => Path(WriterPlace, u, WriterPlace', plans, LZ4)
    <3>1. /\ Accepts(Between(Len(plans)), Marker, plans, LZ4)
          /\ After(Between(Len(plans)), Marker, LZ4) = Between(Len(plans))
      BY <1>1, MarkerFacts DEF Accepts, After, Between, Place
    <3> QED
      BY <1>2, <2>1, <3>1, PathOne
  <2> QED
    BY <1>1, <1>2, <1>3, <1>4, <2>2, FlowWritten
<1> QED
  BY <1>4, <1>5, <1>6, <1>7, <1>8, <1>9

-----------------------------------------------------------------------------
(* The reader.                                                                *)
LEMMA ReceivedTyped ==
  ASSUME TypeOK
  PROVE  /\ File \in Nat /\ File <= Forwards /\ received \in Seq(Seq(Nat))
         /\ received # <<>> => File > 0
         /\ \A i \in 1 .. File : received[i] \in Seq(Nat) /\ Len(received[i]) \in Nat
<1>1. received \in Seq(Seq(Nat))
  BY DEF TypeOK
<1>2. \A i \in 1 .. File : received[i] \in Seq(Nat)
  BY <1>1, ElementOfSeq DEF File
<1>3. \A i \in 1 .. File : Len(received[i]) \in Nat
  BY <1>2
<1> QED
  BY <1>1, <1>2, <1>3 DEF TypeOK, File

LEMMA Taken ==
  ASSUME TypeOK, Closing, up # <<>>, up' = Tail(up), UNCHANGED <<down, ended, opc, plans>>
  PROVE  Closing' /\ up' \in Seq(Unit) /\ Len(up') <= PipeSize /\ Head(up) \in Unit
<1>1. /\ up \in Seq(Unit) /\ Len(up) \in Nat \ {0} /\ Len(up) <= PipeSize
      /\ up' \in Seq(Unit) /\ Len(up') = Len(up) - 1 /\ Head(up) \in Unit
      /\ \A k \in 1 .. Len(up') : up'[k] = up[k + 1]
  BY HeadTailProperties DEF TypeOK
<1>3. ASSUME NEW k \in 1 .. Len(up'), up'[k].kind = "close"
      PROVE  opc = "done" /\ k = Len(up') /\ down = <<>>
  <2>1. k + 1 \in 1 .. Len(up) /\ up'[k] = up[k + 1]
    BY <1>1
  <2>2. opc = "done" /\ k + 1 = Len(up) /\ down = <<>>
    BY <1>3, <2>1 DEF Closing
  <2>3. k \in Int /\ Len(up) \in Int /\ Len(up') = Len(up) - 1
    BY <1>1
  <2> QED
    BY <2>2, <2>3
<1>4. Closing'
  BY <1>3 DEF Closing
<1> QED
  BY <1>1, <1>4, BufferFacts

(* Nothing ends a stream before all that was written to it was read, unless   *)
(* the connection is interrupted.                                             *)
LEMMA EndOfStream ==
  ASSUME TransferInv, AtEOF, ~refused, ~cut
  PROVE  ReaderAt = Between(Forwards)
<1>1. opc = "done" /\ down = <<>> /\ up = <<>> /\ Len(plans) = Forwards
  BY DEF TransferInv, Closing, AtEOF
<1>2. ReaderAt = WriterPlace
  BY <1>1, AllTaken DEF TransferInv, Short
<1>3. WriterPlace = Between(Forwards)
  BY <1>1 DEF WriterPlace
<1> QED
  BY <1>2, <1>3

LEMMA AcceptStreamInv == ASSUME TransferInv, AcceptStream PROVE TransferInv'
<1> USE DEF TransferInv
<1>1. /\ rpc = "init" /\ received = <<>> /\ File = 0 /\ ~refused /\ answer.at = "none" /\ ~aborted["remote"]
      /\ UNCHANGED <<compression, down, cut, ended, aborted, writer, received, left, want, got>>
      /\ LZ4' = LZ4 /\ File' = File /\ UNCHANGED <<opc, plans, sent>>
  BY DEF AcceptStream, AtR, ReaderOK, Agreed, File, LZ4, writer
<1>2. WriterOK' /\ WriterPlace' = WriterPlace /\ Short' = Short
  BY <1>1, WriterSame
<1>3. AbortsExplained'
  BY <1>1 DEF AbortsExplained
<1>4. ReaderAt = Place("init", 0, 0)
  BY <1>1 DEF ReaderAt
<1>5. rpc' \in {"ready", "done"}
  BY DEF AcceptStream
<1>6. ReaderOK' /\ ReaderAt' = Between(0)
  <2>1. ReaderAt' = Between(0)
    BY <1>1, <1>5 DEF ReaderAt
  <2>2. \A i : i \notin 1 .. File'
    BY <1>1
  <2>3. ReaderOK'
    BY <1>1, <1>5, <2>2, PlansTyped DEF ReaderOK
  <2> QED
    BY <2>1, <2>3
<1>7. CASE AtEOF /\ rpc' = "done" /\ UNCHANGED <<up, lz4, answer, refused>>
  <2>1. cut
    <3>1. CASE ~cut
      <4>1. ReaderAt = Between(Forwards)
        BY <1>1, <1>7, <3>1, EndOfStream
      <4>2. Place("init", 0, 0).at # Between(Forwards).at
        BY DEF Place, Between
      <4> QED
        BY <1>4, <4>1, <4>2
    <3> QED
      BY <3>1
  <2>2. up = <<>> /\ up' = <<>> /\ cut'
    BY <1>1, <1>7, <2>1 DEF AtEOF
  <2>3. Closing'
    BY <1>1, <1>7 DEF Closing
  <2>4. TypeOK'
    BY <1>1, <1>7 DEF TypeOK
  <2>5. Agreed'
    BY <1>1, <1>7, <2>2 DEF Agreed
  <2>6. FlowOK'
    <3>1. Flow' = <<>>
      BY <2>2 DEF Flow
    <3>2. Path(ReaderAt', Flow', ReaderAt', plans', LZ4')
      BY <3>1, PathNone
    <3> QED
      BY <2>2, <3>2 DEF FlowOK
  <2> QED
    BY <1>2, <1>3, <1>6, <2>3, <2>4, <2>5, <2>6
<1> DEFINE okay == compression \in {"none", "lz4"}
<1>8. CASE /\ up # <<>> /\ up' = Tail(up)
           /\ refused' = ~okay /\ lz4' = [lz4 EXCEPT !["remote"] = LZ4]
           /\ answer' = Answer(okay) /\ rpc' = IF okay THEN "ready" ELSE "done"
  <2>1. /\ refused' = ~okay /\ lz4' = [lz4 EXCEPT !["remote"] = LZ4]
        /\ answer' = Answer(okay) /\ rpc' = IF okay THEN "ready" ELSE "done"
    BY <1>8
  <2>2. Closing' /\ up' \in Seq(Unit) /\ Len(up') <= PipeSize /\ Head(up) \in Unit
    BY <1>1, <1>8, Taken
  <2>3. /\ answer' \in [at : {"none", "sent", "arrived"}, okay : BOOLEAN, lz4 : BOOLEAN]
        /\ answer'.at = "sent" /\ answer'.lz4 = LZ4
    <3>1. okay \in BOOLEAN /\ (okay /\ compression = "lz4") \in BOOLEAN
      OBVIOUS
    <3>2. answer' = [at |-> "sent", okay |-> okay, lz4 |-> okay /\ compression = "lz4"]
      BY <2>1 DEF Answer
    <3>3. (okay /\ compression = "lz4") = LZ4
      BY DEF LZ4
    <3> HIDE DEF okay
    <3>4. answer'.at = "sent" /\ answer'.lz4 = LZ4
      BY <3>2, <3>3
    <3>5. answer' \in [at : {"none", "sent", "arrived"}, okay : BOOLEAN, lz4 : BOOLEAN]
      BY <3>1, <3>2
    <3> QED
      BY <3>4, <3>5
  <2>4. TypeOK'
    <3>1. refused' \in BOOLEAN /\ lz4' \in [Side -> BOOLEAN]
      BY <2>1 DEF TypeOK, Side, LZ4
    <3> QED
      BY <1>1, <1>5, <2>2, <2>3, <3>1 DEF TypeOK
  <2>5. Agreed'
    BY <1>1, <2>1, <2>3 DEF Agreed, TypeOK, Side
  <2>6. FlowOK'
    <3>1. CASE ~okay
      BY <2>1, <3>1 DEF FlowOK
    <3>2. CASE okay
      <4>1. After(ReaderAt, Head(up), LZ4) = Between(0)
        BY <1>4 DEF After, Place
      <4>2. refused' = refused
        BY <1>1, <2>1, <3>2 DEF TypeOK
      <4> QED
        BY <1>1, <1>6, <1>8, <4>1, <4>2, FlowRead
    <3> QED
      BY <3>1, <3>2
  <2> QED
    BY <1>2, <1>3, <1>6, <2>2, <2>4, <2>5, <2>6
<1>9. \/ AtEOF /\ rpc' = "done" /\ UNCHANGED <<up, lz4, answer, refused>>
      \/ /\ up # <<>> /\ up' = Tail(up)
         /\ refused' = ~okay /\ lz4' = [lz4 EXCEPT !["remote"] = LZ4]
         /\ answer' = Answer(okay) /\ rpc' = IF okay THEN "ready" ELSE "done"
  BY DEF AcceptStream, LZ4
<1> QED
  BY <1>7, <1>8, <1>9

LEMMA ReceiveFileInv == ASSUME TransferInv, ReceiveFile PROVE TransferInv'
<1> USE DEF TransferInv
<1>1. /\ rpc = "ready" /\ rpc' = "command" /\ File < Forwards /\ received' = Append(received, <<>>)
      /\ UNCHANGED <<compression, lz4, down, up, answer, cut, ended, aborted, writer, left, want, got, refused>>
      /\ LZ4' = LZ4 /\ UNCHANGED <<opc, plans, sent>>
  BY DEF ReceiveFile, AtR, File, LZ4, writer, pipes
<1>2. /\ File \in Nat /\ received' \in Seq(Seq(Nat)) /\ File' = File + 1 /\ received'[File + 1] = <<>>
      /\ \A i \in 1 .. File : received'[i] = received[i]
  <2>1. received \in Seq(Seq(Nat)) /\ <<>> \in Seq(Nat)
    BY DEF TypeOK
  <2> QED
    BY <1>1, <2>1, AppendProperties DEF File
<1>3. WriterOK' /\ WriterPlace' = WriterPlace /\ Short' = Short
  BY <1>1, WriterSame
<1>4. AbortsExplained' /\ Closing' /\ Agreed'
  BY <1>1 DEF AbortsExplained, Closing, Agreed
<1>5. TypeOK'
  BY <1>1, <1>2, BufferFacts DEF TypeOK, File
<1>6. ReaderAt' = ReaderAt
  <2>1. ReaderAt = Between(File) /\ ReaderAt' = Between(File' - 1)
    BY <1>1 DEF ReaderAt
  <2> QED
    BY <1>2, <2>1
<1>7. ReaderOK'
  <2>1. File <= Len(plans) /\ Len(plans) \in Nat
    BY <1>1, PlansTyped DEF ReaderOK
  <2>2. ASSUME NEW i \in 1 .. File'
        PROVE  Copied(received'[i]) /\ (i < File' /\ ~cut => Len(received'[i]) = Meant(plans[i]))
    <3>1. CASE i \in 1 .. File
      BY <1>1, <1>2, <3>1 DEF ReaderOK, Complete
    <3>2. CASE i = File + 1
      BY <1>2, <3>2 DEF Copied
    <3> QED
      BY <1>2, <3>1, <3>2
  <2>3. (\A i \in 1 .. File : Copied(received[i]))'
    BY <2>2 DEF Copied
  <2>4. (\A i \in 1 .. File : Complete(i) /\ ~cut => Len(received[i]) = Meant(plans[i]))'
    BY <1>1, <2>2 DEF Complete, Meant
  <2>5. /\ rpc' = "command" /\ (File > 0)' /\ (File <= Len(plans) + 1)' /\ (received[File] = <<>>)'
    <3>1. received'[File'] = <<>>
      BY <1>2
    <3>2. File' > 0 /\ File' <= Len(plans') + 1
      <4>1. plans' = plans /\ File' = File + 1 /\ File \in Nat
        BY <1>1, <1>2
      <4> HIDE DEF File
      <4> QED
        BY <2>1, <4>1
    <3> QED
      BY <1>1, <3>1, <3>2
  <2> QED
    BY <2>3, <2>4, <2>5 DEF ReaderOK
<1>8. FlowOK'
  BY <1>1, <1>3, <1>6, FlowQuiet DEF Flow
<1> QED
  BY <1>3, <1>4, <1>5, <1>7, <1>8

LEMMA ReadCutShortInv == ASSUME TransferInv, ReadCutShort PROVE TransferInv'
<1> USE DEF TransferInv
<1>1. /\ rpc \in {"command", "length", "header"} /\ ~refused
      /\ aborted' = [aborted EXCEPT !["remote"] = TRUE] /\ AtEOF
      /\ UNCHANGED <<compression, lz4, down, up, answer, cut, ended, writer, reader, refused>>
      /\ LZ4' = LZ4 /\ UNCHANGED <<opc, plans, sent>>
      /\ UNCHANGED <<rpc, received, left, want, got>> /\ File' = File
  BY DEF ReadCutShort, AtR, File, LZ4, writer, pipes, reader, Abort, Agreed
<1>2. aborted'["originator"] = aborted["originator"] /\ aborted' \in [Side -> BOOLEAN]
  BY <1>1 DEF TypeOK, Side
<1>3. WriterOK' /\ WriterPlace' = WriterPlace /\ Short' = Short
  BY <1>1, <1>2, WriterSame
<1>4. Closing' /\ Agreed' /\ TypeOK'
  BY <1>1, <1>2 DEF Closing, Agreed, TypeOK
<1>5. ReaderAt' = ReaderAt
  BY <1>1 DEF ReaderAt
<1>6. ReaderOK'
  BY <1>1 DEF ReaderOK, Complete, Copied, Meant
<1>7. AbortsExplained'
  <2>1. cut
    <3>1. CASE ~cut
      <4>1. ReaderAt = Between(Forwards)
        BY <1>1, <3>1, EndOfStream
      <4>2. /\ rpc = "command" => ReaderAt = Between(File - 1)
            /\ rpc = "length" => ReaderAt = Place("length", File, 0)
            /\ rpc = "header" => ReaderAt = Place("header", File, Len(received[File]))
        BY DEF ReaderAt
      <4>3. rpc = "command" /\ Between(File - 1) = Between(Forwards)
        <5>1. Between(Forwards).at = "between" /\ \A i, j : Place("length", i, j).at = "length" /\ Place("header", i, j).at = "header"
          BY DEF Place, Between
        <5> QED
          BY <1>1, <4>1, <4>2, <5>1
      <4>4. File - 1 = Forwards
        <5>1. Between(File - 1).file = File - 1 /\ Between(Forwards).file = Forwards
          BY DEF Between, Place
        <5> QED
          BY <4>3, <5>1
      <4> QED
        BY <4>4, ReceivedTyped, BufferFacts
    <3> QED
      BY <3>1
  <2> QED
    BY <1>1, <2>1 DEF AbortsExplained
<1>8. FlowOK'
  BY <1>1, <1>3, <1>5, FlowQuiet DEF Flow
<1> QED
  BY <1>3, <1>4, <1>6, <1>7, <1>8

LEMMA InFile ==
  ASSUME TransferInv, rpc \in {"command", "length", "header", "data", "finish"}
  PROVE  /\ ~refused /\ File \in Nat /\ File \in 1 .. File /\ LZ4 = lz4["remote"] /\ LZ4 \in BOOLEAN
         /\ received[File] \in Seq(Nat) /\ Len(received[File]) \in Nat
         /\ rpc # "command" => /\ File \in DOMAIN plans /\ File \in 1 .. Len(plans)
                               /\ plans[File].size \in Nat
                               /\ plans[File].bound \in Nat \cup {Unbounded}
<1>1. File > 0 /\ (rpc # "command" => File <= Len(plans))
  BY DEF TransferInv, ReaderOK
<1>2. ~refused /\ LZ4 = lz4["remote"] /\ LZ4 \in BOOLEAN
  BY DEF TransferInv, Agreed, LZ4
<1>3. File \in Nat /\ File \in 1 .. File
  BY <1>1, ReceivedTyped DEF TransferInv
<1>4. received[File] \in Seq(Nat) /\ Len(received[File]) \in Nat
  BY <1>3, ReceivedTyped DEF TransferInv
<1>5. ASSUME rpc # "command"
      PROVE  /\ File \in DOMAIN plans /\ File \in 1 .. Len(plans)
             /\ plans[File].size \in Nat
             /\ plans[File].bound \in Nat \cup {Unbounded}
  <2>1. File \in 1 .. Len(plans)
    BY <1>1, <1>3, <1>5, PlansTyped DEF TransferInv
  <2> QED
    BY <2>1, PlansTyped DEF TransferInv
<1> QED
  BY <1>2, <1>3, <1>4, <1>5

(* What every action that takes a unit has in common.                         *)
LEMMA ReadInv ==
  ASSUME TransferInv, rpc \in {"command", "length", "header", "data"},
         rpc' \in {"length", "header", "data", "finish"},
         up # <<>>, up' = Tail(up),
         UNCHANGED <<compression, lz4, down, answer, cut, ended, writer, refused>>,
         aborted' \in [Side -> BOOLEAN], aborted'["originator"] = aborted["originator"],
         received' \in Seq(Seq(Nat)), File' = File,
         left' \in Nat \cup {Unbounded}, want' \in Nat, got' \in 0 .. want',
         AbortsExplained', ReaderOK', ReaderAt' = After(ReaderAt, Head(up), LZ4)
  PROVE  TransferInv'
<1> USE DEF TransferInv
<1>1. UNCHANGED <<opc, plans, sent>> /\ LZ4' = LZ4 /\ ~refused
  BY InFile DEF writer, LZ4
<1>2. Closing' /\ up' \in Seq(Unit) /\ Len(up') <= PipeSize /\ Head(up) \in Unit
  BY <1>1, Taken
<1>3. WriterOK' /\ WriterPlace' = WriterPlace /\ Short' = Short
  BY <1>1, WriterSame
<1>4. TypeOK'
  BY <1>1, <1>2 DEF TypeOK, File
<1>5. Agreed'
  BY <1>1 DEF Agreed
<1>6. FlowOK'
  BY <1>1, FlowRead
<1> QED
  BY <1>2, <1>3, <1>4, <1>5, <1>6

(* A file that is still open keeps the bytes it has.                          *)
LEMMA FilesKept ==
  ASSUME ReaderOK, UNCHANGED <<received, plans, cut>>, rpc' \notin {"ready", "finish"}
  PROVE  /\ (\A i \in 1 .. File : Copied(received[i]))'
         /\ (\A i \in 1 .. File : Complete(i) /\ ~cut => Len(received[i]) = Meant(plans[i]))'
<1>1. File' = File
  BY DEF File
<1>2. \A i \in 1 .. File : Complete(i)' => Complete(i)
  BY <1>1 DEF Complete
<1> QED
  BY <1>1, <1>2 DEF ReaderOK, Copied, Meant

LEMMA ReadCommandInv == ASSUME TransferInv, ReadCommand PROVE TransferInv'
<1> USE DEF TransferInv
<1> DEFINE u == Head(up)
<1>1. /\ rpc = "command" /\ ~aborted["remote"] /\ up # <<>> /\ up' = Tail(up) /\ u.kind = "command"
      /\ rpc' = (IF u.n = Bounded THEN "length" ELSE "header") /\ left' = Unbounded
      /\ UNCHANGED <<compression, lz4, down, answer, cut, ended, aborted, writer, received, want,
                     got, refused>>
      /\ UNCHANGED <<opc, plans, sent>> /\ File' = File
  BY DEF ReadCommand, AtR, Commands, writer, File
<1>2. ~refused /\ File \in Nat /\ File \in 1 .. File
  BY <1>1, InFile
<1>3. received[File] = <<>>
  BY <1>1 DEF ReaderOK
<1>4. ReaderAt = Between(File - 1)
  BY <1>1 DEF ReaderAt
<1>5. Accepts(Between(File - 1), u, plans, LZ4)
  BY <1>1, <1>2, <1>4, FirstAccepted
<1>6. (File - 1) + 1 = File
  BY <1>2
<1>7. /\ File \in DOMAIN plans
      /\ u.n = IF plans[File].bound = Unbounded THEN Unbounded ELSE Bounded
  BY <1>1, <1>5, <1>6, MarkerFacts DEF Accepts, Between, Place
<1>8. File \in 1 .. Len(plans) /\ plans[File].size \in Nat /\ plans[File].bound \in Nat \cup {Unbounded}
  BY <1>7, PlansTyped
<1>9. ReaderAt' = After(ReaderAt, u, LZ4)
  <2>1. CASE plans[File].bound = Unbounded
    <3>1. u.n = Unbounded /\ rpc' = "header"
      BY <1>1, <1>7, <2>1 DEF Bounded, Unbounded
    <3>2. After(ReaderAt, u, LZ4) = Place("header", File, 0)
      BY <1>1, <1>4, <1>6, <3>1 DEF After, Between, Place
    <3>3. ReaderAt' = Place("header", File, Len(received[File]))
      BY <1>1, <3>1 DEF ReaderAt
    <3>4. Len(received[File]) = 0
      BY <1>3
    <3> QED
      BY <3>2, <3>3, <3>4
  <2>2. CASE plans[File].bound # Unbounded
    <3>1. u.n = Bounded /\ u.n # Unbounded /\ rpc' = "length"
      BY <1>1, <1>7, <2>2 DEF Bounded, Unbounded
    <3>2. After(ReaderAt, u, LZ4) = Place("length", File, 0)
      BY <1>1, <1>4, <1>6, <3>1 DEF After, Between, Place
    <3>3. ReaderAt' = Place("length", File, 0)
      BY <1>1, <3>1 DEF ReaderAt
    <3> QED
      BY <3>2, <3>3
  <2> QED
    BY <2>1, <2>2
<1>10. rpc' \in {"length", "header"} /\ (rpc' = "length" <=> plans[File].bound # Unbounded)
  BY <1>1, <1>7 DEF Bounded, Unbounded
<1>11. ReaderOK'
  <2>1. /\ (\A i \in 1 .. File : Copied(received[i]))'
        /\ (\A i \in 1 .. File : Complete(i) /\ ~cut => Len(received[i]) = Meant(plans[i]))'
    BY <1>1, <1>10, FilesKept
  <2>2. Len(received[File]) <= plans[File].size /\ File > 0 /\ File <= Len(plans)
    BY <1>2, <1>3, <1>8
  <2>3. UNCHANGED <<received, plans, File>> /\ left' = Unbounded
    BY <1>1
  <2> HIDE DEF File
  <2> QED
    BY <1>3, <1>10, <2>1, <2>2, <2>3 DEF ReaderOK
<1>12. AbortsExplained'
  BY <1>1 DEF AbortsExplained
<1>13. /\ aborted' \in [Side -> BOOLEAN] /\ aborted'["originator"] = aborted["originator"]
       /\ received' \in Seq(Seq(Nat)) /\ want' \in Nat /\ got' \in 0 .. want'
  BY <1>1 DEF TypeOK
<1> HIDE DEF u
<1> QED
  BY <1>1, <1>9, <1>10, <1>11, <1>12, <1>13, ReadInv DEF u

LEMMA ReadLengthInv == ASSUME TransferInv, ReadLength PROVE TransferInv'
<1> USE DEF TransferInv
<1> DEFINE u == Head(up)
<1>1. /\ rpc = "length" /\ ~aborted["remote"] /\ up # <<>> /\ up' = Tail(up) /\ u.kind = "length"
      /\ rpc' = "data" /\ left' = u.n /\ want' = Smaller(u.n, BufferSize) /\ got' = 0
      /\ UNCHANGED <<compression, lz4, down, answer, cut, ended, aborted, writer, received, refused>>
      /\ UNCHANGED <<opc, plans, sent>> /\ File' = File /\ LZ4' = LZ4
  BY DEF ReadLength, AtR, Commands, writer, File, Expect, LZ4
<1>2. /\ ~refused /\ File \in Nat /\ File \in 1 .. File /\ File \in 1 .. Len(plans)
      /\ plans[File].size \in Nat /\ plans[File].bound \in Nat \cup {Unbounded}
  BY <1>1, InFile
<1>3. received[File] = <<>> /\ plans[File].bound # Unbounded /\ Len(received[File]) = 0
  BY <1>1 DEF ReaderOK
<1>4. ReaderAt = Place("length", File, 0)
  BY <1>1 DEF ReaderAt
<1>5. Accepts(Place("length", File, 0), u, plans, LZ4)
  BY <1>1, <1>2, <1>4, FirstAccepted
<1>6. u.n = plans[File].bound
  BY <1>5 DEF Accepts, Place
<1>7. /\ left' \in Nat /\ left' # Unbounded /\ left' = plans[File].bound /\ want' \in Nat
      /\ want' = Smaller(left', BufferSize) /\ want' <= BufferSize
      /\ 0 < want' \/ (want' = 0 /\ left' = 0)
  BY <1>1, <1>2, <1>3, <1>6, BufferFacts DEF Smaller, Unbounded
<1>8. ReaderAt' = After(ReaderAt, u, LZ4)
  <2>1. After(ReaderAt, u, LZ4) = InData(File, 0, u.n, Smaller(u.n, BufferSize), 0)
    BY <1>4 DEF After, Place, NextBuffer
  <2>2. ReaderAt' = InData(File, Len(received[File]), left', want', 0)
    BY <1>1 DEF ReaderAt
  <2> QED
    BY <1>1, <1>3, <2>1, <2>2
<1>9. ReaderOK'
  <2>1. /\ (\A i \in 1 .. File : Copied(received[i]))'
        /\ (\A i \in 1 .. File : Complete(i) /\ ~cut => Len(received[i]) = Meant(plans[i]))'
    BY <1>1, FilesKept
  <2>2. /\ UNCHANGED <<received, plans, File>> /\ left' \in Nat /\ rpc' = "data" /\ got' = 0
        /\ 0 <= Len(received[File]) /\ Len(received[File]) <= plans[File].size /\ File > 0 /\ File <= Len(plans)
        /\ Len(received[File]) - got' + left' = plans[File].bound
    BY <1>1, <1>2, <1>3, <1>7
  <2> HIDE DEF File
  <2> QED
    BY <1>3, <1>7, <2>1, <2>2 DEF ReaderOK
<1>10. AbortsExplained'
  BY <1>1 DEF AbortsExplained
<1>11. /\ aborted' \in [Side -> BOOLEAN] /\ aborted'["originator"] = aborted["originator"]
       /\ received' \in Seq(Seq(Nat)) /\ got' \in 0 .. want'
  BY <1>1, <1>7 DEF TypeOK
<1> HIDE DEF u
<1> QED
  BY <1>1, <1>7, <1>8, <1>9, <1>10, <1>11, ReadInv DEF u

LEMMA ReadHeaderInv == ASSUME TransferInv, ReadHeader PROVE TransferInv'
<1> USE DEF TransferInv
<1> DEFINE u == Head(up)
           pos == Len(received[File])
<1>1. /\ rpc = "header" /\ ~aborted["remote"] /\ up # <<>> /\ up' = Tail(up) /\ u.kind = "command"
      /\ got' = 0
      /\ u.n = End => rpc' = "finish" /\ want' = 0
      /\ u.n # End => rpc' = "data" /\ want' = u.n
      /\ UNCHANGED <<compression, lz4, down, answer, cut, ended, aborted, writer, received, left,
                     refused>>
      /\ UNCHANGED <<opc, plans, sent>> /\ File' = File /\ LZ4' = LZ4
  BY DEF ReadHeader, AtR, Commands, writer, File, LZ4
<1>2. /\ ~refused /\ File \in Nat /\ File \in 1 .. File /\ File \in 1 .. Len(plans) /\ pos \in Nat
      /\ plans[File].size \in Nat /\ plans[File].bound \in Nat \cup {Unbounded}
  BY <1>1, InFile
<1>3. plans[File].bound = Unbounded /\ left = Unbounded /\ pos <= plans[File].size
  BY <1>1 DEF ReaderOK
<1>4. ReaderAt = Place("header", File, pos)
  BY <1>1 DEF ReaderAt
<1>5. Accepts(Place("header", File, pos), u, plans, LZ4)
  BY <1>1, <1>2, <1>4, FirstAccepted
<1>6. u.n = IF pos = plans[File].size THEN End ELSE Smaller(BufferSize, plans[File].size - pos)
  BY <1>5 DEF Accepts, Place
<1>7. \/ u.n = End /\ pos = plans[File].size
      \/ u.n # End /\ u.n \in Nat \ {0} /\ u.n <= BufferSize /\ pos + u.n <= plans[File].size
  BY <1>2, <1>3, <1>6, BufferFacts DEF Smaller, End
<1>8. ReaderAt' = After(ReaderAt, u, LZ4)
  <2>1. CASE u.n = End
    BY <1>1, <1>4, <2>1 DEF After, Place, Between, ReaderAt
  <2>2. CASE u.n # End
    <3>1. After(ReaderAt, u, LZ4) = InData(File, pos, Unbounded, u.n, 0)
      BY <1>4, <2>2 DEF After, Place
    <3>2. ReaderAt' = InData(File, pos, left', want', 0)
      BY <1>1, <2>2 DEF ReaderAt
    <3> QED
      BY <1>1, <1>3, <2>2, <3>1, <3>2
  <2> QED
    BY <2>1, <2>2
<1>9. UNCHANGED <<received, plans, cut, File, left>> /\ File > 0 /\ File <= Len(plans)
  BY <1>1, <1>2
<1>10. CASE u.n = End
  <2>1. rpc' = "finish"
    BY <1>1, <1>10
  <2>2. Meant(plans[File]) = pos
    BY <1>3, <1>7, <1>10 DEF Meant
  <2>3. (\A i \in 1 .. File : Complete(i) /\ ~cut => Len(received[i]) = Meant(plans[i]))'
    <3> SUFFICES ASSUME NEW i \in 1 .. File, ~cut PROVE Len(received[i]) = Meant(plans[i])
      BY <1>9 DEF Meant
    <3>1. CASE i = File
      BY <2>2, <3>1
    <3>2. CASE i < File
      BY <3>2 DEF ReaderOK, Complete
    <3> QED
      BY <1>2, <3>1, <3>2
  <2>4. (\A i \in 1 .. File : Copied(received[i]))'
    BY <1>9 DEF ReaderOK, Copied
  <2>5. ReaderOK'
    BY <1>9, <2>1, <2>3, <2>4 DEF ReaderOK
  <2>6. AbortsExplained'
    BY <1>1 DEF AbortsExplained
  <2>7. /\ aborted' \in [Side -> BOOLEAN] /\ aborted'["originator"] = aborted["originator"]
        /\ received' \in Seq(Seq(Nat)) /\ want' \in Nat /\ got' \in 0 .. want'
        /\ left' \in Nat \cup {Unbounded}
    BY <1>1, <1>10 DEF TypeOK
  <2> HIDE DEF u
  <2> QED
    BY <1>1, <1>8, <2>1, <2>5, <2>6, <2>7, ReadInv DEF u
<1>11. CASE u.n # End
  <2>1. rpc' = "data" /\ want' = u.n /\ got' = 0
    BY <1>1, <1>11
  <2>2. /\ (\A i \in 1 .. File : Copied(received[i]))'
        /\ (\A i \in 1 .. File : Complete(i) /\ ~cut => Len(received[i]) = Meant(plans[i]))'
    BY <1>1, <2>1, FilesKept
  <2>3. /\ 0 <= pos /\ got' < want' /\ want' <= BufferSize /\ pos - got' + want' <= plans[File].size
        /\ want' \in Nat /\ got' \in 0 .. want'
    BY <1>2, <1>7, <1>11, <2>1
  <2>4. ReaderOK'
    <3> HIDE DEF File, u
    <3> QED
      BY <1>3, <1>9, <2>1, <2>2, <2>3 DEF ReaderOK
  <2>5. AbortsExplained'
    BY <1>1 DEF AbortsExplained
  <2>6. /\ aborted' \in [Side -> BOOLEAN] /\ aborted'["originator"] = aborted["originator"]
        /\ received' \in Seq(Seq(Nat)) /\ left' \in Nat \cup {Unbounded}
    BY <1>1 DEF TypeOK
  <2> HIDE DEF u
  <2> QED
    BY <1>1, <1>8, <2>1, <2>3, <2>4, <2>5, <2>6, ReadInv DEF u
<1> QED
  BY <1>10, <1>11

LEMMA CopiedMore ==
  ASSUME NEW s \in Seq(Nat), Copied(s), NEW n \in Nat
  PROVE  LET t == s \o [i \in 1 .. n |-> Len(s) + i - 1]
         IN  t \in Seq(Nat) /\ Len(t) = Len(s) + n /\ Copied(t)
<1> DEFINE e == [i \in 1 .. n |-> Len(s) + i - 1]
           t == s \o e
<1>1. Len(s) \in Nat /\ e \in Seq(Nat) /\ Len(e) = n /\ \A i \in 1 .. n : e[i] = Len(s) + i - 1
  <2>1. Len(s) \in Nat
    OBVIOUS
  <2>2. e \in [1 .. n -> Nat]
    BY <2>1
  <2> QED
    BY <2>1, <2>2, SeqDef
<1> HIDE DEF e
<1>2. /\ t \in Seq(Nat) /\ Len(t) = Len(s) + n
      /\ \A i \in 1 .. Len(s) + n : t[i] = IF i <= Len(s) THEN s[i] ELSE e[i - Len(s)]
  BY <1>1, ConcatProperties
<1>3. \A i \in 1 .. Len(s) : s[i] = i - 1
  BY DEF Copied
<1>4. ASSUME NEW i \in 1 .. Len(s) + n PROVE t[i] = i - 1
  <2>1. CASE i <= Len(s)
    BY <1>1, <1>2, <1>3, <2>1
  <2>2. CASE i > Len(s)
    <3>1. i - Len(s) \in 1 .. n /\ t[i] = e[i - Len(s)]
      BY <1>1, <1>2, <2>2
    <3>2. e[i - Len(s)] = Len(s) + (i - Len(s)) - 1
      BY <1>1, <3>1
    <3>3. Len(s) + (i - Len(s)) - 1 = i - 1
      BY <1>1
    <3> QED
      BY <3>1, <3>2, <3>3
  <2> QED
    BY <1>1, <2>1, <2>2
<1>5. t = [i \in 1 .. Len(t) |-> i - 1]
  <2> HIDE DEF t
  <2>1. t \in [1 .. Len(t) -> Nat]
    BY <1>2, LenProperties
  <2>2. \A i \in 1 .. Len(t) : t[i] = i - 1
    BY <1>2, <1>4
  <2> QED
    BY <2>1, <2>2
<1>6. Copied(t)
  BY <1>5 DEF Copied
<1> QED
  BY <1>2, <1>6 DEF e

(* What is written to the file: n more of its bytes.                          *)
LEMMA FileWritten ==
  ASSUME TransferInv, rpc = "data", NEW n \in Nat, Write(Len(received[File]), n)
  PROVE  /\ received' \in Seq(Seq(Nat)) /\ File' = File
         /\ Len(received'[File]) = Len(received[File]) + n
         /\ \A i \in 1 .. File : Copied(received'[i]) /\ (i # File => received'[i] = received[i])
<1> USE DEF TransferInv
<1> DEFINE s == received[File]
           t == s \o [i \in 1 .. n |-> Len(s) + i - 1]
<1>1. File \in Nat /\ File \in 1 .. File /\ s \in Seq(Nat)
  BY InFile
<1>2. received \in Seq(Seq(Nat)) /\ Len(received) = File
  BY DEF TypeOK, File
<1>3. \A i \in 1 .. File : Copied(received[i])
  BY DEF ReaderOK
<1>4. t \in Seq(Nat) /\ Len(t) = Len(s) + n /\ Copied(t)
  BY <1>1, <1>3, CopiedMore
<1>5. received' = [received EXCEPT ![File] = t]
  BY DEF Write, File
<1> HIDE DEF t, s
<1>6. /\ received' \in Seq(Seq(Nat)) /\ Len(received') = Len(received)
      /\ \A i \in 1 .. File : received'[i] = IF i = File THEN t ELSE received[i]
  BY <1>1, <1>2, <1>4, <1>5, ExceptSeq
<1> QED
  BY <1>1, <1>3, <1>4, <1>6 DEF File, s

(* A unit of data is read into the buffer, which is written when it is full.  *)
LEMMA DataInv ==
  ASSUME TransferInv, AtR("data"), up # <<>>, up' = Tail(up),
         Write(Head(up).at, Head(up).n), got + Head(up).n = want \/ ~LZ4,
         IF got + Head(up).n = want THEN AfterBuffer
         ELSE got' = got + 1 /\ UNCHANGED <<rpc, left, want>>,
         UNCHANGED <<compression, lz4, down, answer, cut, ended, writer, refused, aborted>>
  PROVE  TransferInv'
<1> USE DEF TransferInv
<1> DEFINE u == Head(up)
           pos == Len(received[File])
           n == u.n
           b == plans[File].bound
           z == plans[File].size
<1>1. /\ rpc = "data" /\ ~aborted["remote"] /\ UNCHANGED <<opc, plans, sent>> /\ LZ4' = LZ4
      /\ ~aborted'["remote"]
  BY DEF AtR, writer, LZ4
<1>2. /\ ~refused /\ File \in Nat /\ File \in 1 .. File /\ File \in 1 .. Len(plans) /\ pos \in Nat
      /\ z \in Nat /\ b \in Nat \cup {Unbounded} /\ LZ4 \in BOOLEAN
      /\ want \in Nat /\ got \in Nat /\ left \in Nat \cup {Unbounded}
  BY <1>1, InFile DEF TypeOK
<1>3. /\ want <= BufferSize /\ got <= pos /\ pos <= z
      /\ LZ4 => got = 0
      /\ b = Unbounded => left = Unbounded /\ pos - got + want <= z
      /\ b # Unbounded => left # Unbounded /\ want = Smaller(left, BufferSize) /\ pos - got + left = b
  BY <1>1 DEF ReaderOK
<1>4. ReaderAt = InData(File, pos, left, want, got)
  BY <1>1 DEF ReaderAt
<1>5. Accepts(InData(File, pos, left, want, got), u, plans, LZ4)
  BY <1>1, <1>2, <1>4, FirstAccepted
<1>6. /\ got < want /\ pos < z /\ u.at = pos
      /\ n = IF LZ4 THEN Smaller(want, z - pos) ELSE 1
  BY <1>5 DEF Accepts, InData
<1>7. n \in Nat \ {0} /\ got + n <= want /\ pos + n <= z /\ (~LZ4 => n = 1)
  <2>1. CASE LZ4
    BY <1>2, <1>3, <1>6, <2>1 DEF Smaller
  <2>2. CASE ~LZ4
    <3>1. n = 1
      BY <1>6, <2>2
    <3> HIDE DEF n, pos, z
    <3> QED
      BY <1>2, <1>6, <2>2, <3>1
  <2> QED
    BY <2>1, <2>2
<1>8. /\ received' \in Seq(Seq(Nat)) /\ File' = File /\ Len(received'[File]) = pos + n
      /\ \A i \in 1 .. File : Copied(received'[i]) /\ (i # File => received'[i] = received[i])
  BY <1>1, <1>6, <1>7, FileWritten
<1>9. (\A i \in 1 .. File : Copied(received[i]))'
  BY <1>8 DEF Copied
<1>10. ASSUME rpc' # "finish", rpc' # "ready"
       PROVE  (\A i \in 1 .. File : Complete(i) /\ ~cut => Len(received[i]) = Meant(plans[i]))'
  <2> SUFFICES ASSUME NEW i \in 1 .. File, i < File, ~cut PROVE Len(received'[i]) = Meant(plans[i])
    BY <1>1, <1>8, <1>10 DEF Complete, Meant
  <2>1. received'[i] = received[i]
    BY <1>2, <1>8
  <2> QED
    BY <2>1 DEF ReaderOK, Complete
<1>11. AbortsExplained'
  BY <1>1 DEF AbortsExplained
<1>12. aborted' \in [Side -> BOOLEAN] /\ aborted'["originator"] = aborted["originator"]
  BY DEF TypeOK
<1>13. /\ File > 0 /\ File <= Len(plans) /\ UNCHANGED <<plans, cut, aborted>>
       /\ plans'[File] = plans[File] /\ Len(plans') = Len(plans)
  BY <1>1, <1>2
<1> HIDE DEF u
<1>14. ASSUME rpc' \in {"header", "data", "finish"}, left' \in Nat \cup {Unbounded},
              want' \in Nat, got' \in 0 .. want', ReaderOK',
              ReaderAt' = After(ReaderAt, Head(up), LZ4)
       PROVE  TransferInv'
  BY <1>1, <1>8, <1>11, <1>12, <1>14, ReadInv
<1>15. CASE got + n = want /\ left = Unbounded
  <2>1. rpc' = "header" /\ UNCHANGED <<left, want, got>>
    BY <1>15 DEF AfterBuffer, u
  <2>2. ReaderAt' = Place("header", File, pos + n)
    BY <1>8, <2>1 DEF ReaderAt
  <2>3. After(ReaderAt, u, LZ4) = Place("header", File, pos + n)
    BY <1>4, <1>15 DEF After, InData, Filled
  <2>4. b = Unbounded
    BY <1>3, <1>15
  <2>5. ReaderOK'
    <3> HIDE DEF File
    <3> QED
      BY <1>7, <1>8, <1>9, <1>10, <1>13, <1>15, <2>1, <2>4 DEF ReaderOK
  <2>6. got' \in 0 .. want'
    BY <2>1 DEF TypeOK
  <2> QED
    BY <1>2, <1>14, <2>1, <2>2, <2>3, <2>5, <2>6 DEF u
<1>16. CASE got + n = want /\ left # Unbounded /\ left = want
  <2>1. rpc' = "finish" /\ left' = 0 /\ UNCHANGED <<want, got>>
    BY <1>16 DEF AfterBuffer, u
  <2>2. ReaderAt' = Between(File)
    BY <1>8, <2>1 DEF ReaderAt
  <2>3. After(ReaderAt, u, LZ4) = Between(File)
    BY <1>4, <1>16 DEF After, InData, Filled
  <2>4. b # Unbounded /\ b = pos + n
    BY <1>2, <1>3, <1>7, <1>16
  <2>5. Meant(plans[File]) = pos + n
    BY <1>7, <2>4 DEF Meant, Smaller
  <2>6. (\A i \in 1 .. File : Complete(i) /\ ~cut => Len(received[i]) = Meant(plans[i]))'
    <3> SUFFICES ASSUME NEW i \in 1 .. File, ~cut PROVE Len(received'[i]) = Meant(plans[i])
      BY <1>1, <1>8 DEF Meant
    <3>1. CASE i = File
      BY <1>8, <2>5, <3>1
    <3>2. CASE i < File
      <4>1. received'[i] = received[i]
        BY <1>2, <1>8, <3>2
      <4> QED
        BY <3>2, <4>1 DEF ReaderOK, Complete
    <3> QED
      BY <1>2, <3>1, <3>2
  <2>7. ReaderOK'
    <3> HIDE DEF File
    <3> QED
      BY <1>8, <1>9, <1>13, <2>1, <2>6 DEF ReaderOK
  <2>8. got' \in 0 .. want'
    BY <2>1 DEF TypeOK
  <2> QED
    BY <1>2, <1>14, <2>1, <2>2, <2>3, <2>7, <2>8 DEF u
<1>17. CASE got + n = want /\ left # Unbounded /\ left # want
  <2>1. rpc' = "data" /\ left' = left - want /\ want' = Smaller(left - want, BufferSize) /\ got' = 0
    BY <1>17 DEF AfterBuffer, Expect, u
  <2>2. ReaderAt' = InData(File, pos + n, left', want', 0)
    BY <1>1, <1>8, <2>1 DEF ReaderAt
  <2>3. After(ReaderAt, u, LZ4) = NextBuffer(File, pos + n, left - want)
    BY <1>4, <1>17 DEF After, InData, Filled
  <2>4. ReaderAt' = After(ReaderAt, u, LZ4)
    BY <2>1, <2>2, <2>3 DEF NextBuffer
  <2>5. /\ b # Unbounded /\ want < left /\ left \in Nat
    BY <1>2, <1>3, <1>17 DEF Smaller
  <2>6. /\ left' \in Nat \ {0} /\ left' # Unbounded /\ want' \in Nat \ {0} /\ want' <= BufferSize
        /\ want' = Smaller(left', BufferSize) /\ got' < want' /\ got' \in 0 .. want'
        /\ got' <= pos + n /\ pos + n - got' + left' = b
    <3>1. left' \in Nat \ {0} /\ left' # Unbounded
      BY <1>2, <2>1, <2>5 DEF Unbounded
    <3>2. want' \in Nat \ {0} /\ want' <= BufferSize /\ want' = Smaller(left', BufferSize)
      BY <2>1, <3>1, BufferFacts DEF Smaller
    <3>3. got' < want' /\ got' \in 0 .. want' /\ got' <= pos + n
      BY <1>2, <1>7, <2>1, <3>2
    <3>4. pos + n - got' + left' = b
      <4>1. pos - got + left = b /\ left' = left - want /\ got + n = want /\ got' = 0
        BY <1>3, <1>17, <2>1, <2>5
      <4>2. pos \in Int /\ n \in Int /\ got \in Int /\ left \in Int /\ want \in Int
        BY <1>2, <1>7, <2>5
      <4> HIDE DEF pos, n, b
      <4> QED
        BY <4>1, <4>2
    <3> QED
      BY <3>1, <3>2, <3>3, <3>4
  <2>7. ReaderOK'
    <3> HIDE DEF File
    <3> QED
      BY <1>7, <1>8, <1>9, <1>10, <1>13, <2>1, <2>5, <2>6 DEF ReaderOK
  <2> QED
    BY <1>2, <1>14, <2>1, <2>4, <2>6, <2>7 DEF u
<1>18. CASE got + n # want
  <2>1. rpc' = "data" /\ got' = got + 1 /\ UNCHANGED <<left, want>> /\ ~LZ4 /\ n = 1
    BY <1>1, <1>7, <1>18 DEF u
  <2>2. ReaderAt' = InData(File, pos + n, left, want, got + n)
    BY <1>1, <1>8, <2>1 DEF ReaderAt
  <2>3. After(ReaderAt, u, LZ4) = InData(File, pos + n, left, want, got + n)
    BY <1>4, <1>18, <2>1 DEF After, InData
  <2>4. /\ got' < want' /\ got' \in 0 .. want' /\ want' = want /\ left' = left
        /\ got' <= pos + n /\ (pos + n) - got' = pos - got
    BY <1>2, <1>3, <1>7, <1>18, <2>1
  <2>5. ReaderOK'
    <3> HIDE DEF File
    <3> QED
      BY <1>1, <1>3, <1>7, <1>8, <1>9, <1>10, <1>13, <2>1, <2>4 DEF ReaderOK
  <2> QED
    BY <1>2, <1>14, <2>1, <2>2, <2>3, <2>4, <2>5 DEF u
<1> QED
  BY <1>15, <1>16, <1>17, <1>18

LEMMA ReadByteInv == ASSUME TransferInv, ReadByte PROVE TransferInv'
<1> USE DEF TransferInv
<1>1. /\ AtR("data") /\ ~lz4["remote"] /\ up # <<>> /\ up' = Tail(up)
      /\ Write(Head(up).at, Head(up).n)
      /\ IF got + 1 = want THEN AfterBuffer ELSE got' = got + 1 /\ UNCHANGED <<rpc, left, want>>
      /\ UNCHANGED <<compression, lz4, down, answer, cut, ended, writer, refused, aborted>>
  BY DEF ReadByte
<1>2. rpc = "data" /\ ~LZ4 /\ ~refused /\ ~aborted["remote"]
  BY <1>1, InFile DEF AtR
<1>3. Head(up).n = 1
  <2>1. Accepts(ReaderAt, Head(up), plans, LZ4)
    BY <1>1, <1>2, FirstAccepted
  <2>2. ReaderAt.at = "data"
    BY <1>2 DEF ReaderAt, InData
  <2> QED
    BY <1>2, <2>1, <2>2 DEF Accepts
<1> QED
  BY <1>1, <1>2, <1>3, DataInv

LEMMA ReadPacketInv == ASSUME TransferInv, ReadPacket PROVE TransferInv'
<1> USE DEF TransferInv
<1> DEFINE u == Head(up)
           pos == Len(received[File])
           b == plans[File].bound
           z == plans[File].size
<1>1. /\ rpc = "data" /\ ~aborted["remote"] /\ AtR("data") /\ lz4["remote"] /\ up # <<>> /\ up' = Tail(up)
      /\ UNCHANGED <<compression, lz4, down, answer, cut, ended, writer, refused>>
      /\ UNCHANGED <<opc, plans, sent>> /\ LZ4' = LZ4
  BY DEF ReadPacket, AtR, writer, LZ4
<1>2. /\ ~refused /\ File \in Nat /\ File \in 1 .. File /\ File \in 1 .. Len(plans) /\ pos \in Nat
      /\ z \in Nat /\ b \in Nat \cup {Unbounded} /\ LZ4
      /\ want \in Nat /\ left \in Nat \cup {Unbounded}
  BY <1>1, InFile DEF TypeOK
<1>3. /\ got = 0 /\ want <= BufferSize /\ pos <= z
      /\ b = Unbounded => pos - got + want <= z
      /\ b # Unbounded => left # Unbounded /\ want = Smaller(left, BufferSize) /\ pos - got + left = b
  BY <1>1, <1>2 DEF ReaderOK
<1>4. ReaderAt = InData(File, pos, left, want, got)
  BY <1>1 DEF ReaderAt
<1>5. Accepts(InData(File, pos, left, want, got), u, plans, LZ4)
  BY <1>1, <1>2, <1>4, FirstAccepted
<1>6. pos < z /\ got < want /\ u.n = Smaller(want, z - pos)
  BY <1>2, <1>5 DEF Accepts, InData
<1>7. CASE Fits(u)
  <2>1. Write(u.at, u.n) /\ AfterBuffer /\ aborted' = aborted
    BY <1>7 DEF ReadPacket
  <2>2. got + u.n = want
    BY <1>2, <1>3, <1>7 DEF Fits
  <2> QED
    BY <1>1, <2>1, <2>2, DataInv
<1>8. CASE ~Fits(u)
  <2>1. aborted' = [aborted EXCEPT !["remote"] = TRUE] /\ UNCHANGED <<rpc, received, left, want, got>>
    BY <1>8 DEF ReadPacket, Abort
  <2>2. /\ aborted' \in [Side -> BOOLEAN] /\ aborted'["originator"] = aborted["originator"]
        /\ aborted'["remote"]
    BY <2>1 DEF TypeOK, Side
  <2>3. z - pos < want
    BY <1>2, <1>6, <1>8 DEF Fits, Smaller
  <2>4. b # Unbounded /\ b > z
    <3>1. b # Unbounded
      BY <1>2, <1>3, <2>3
    <3>2. want <= left /\ left \in Nat
      BY <1>2, <1>3, <3>1 DEF Smaller
    <3> QED
      BY <1>2, <1>3, <2>3, <3>1, <3>2
  <2>5. AbortsExplained'
    <3>1. File \in DOMAIN plans /\ Overasked(plans[File])
      BY <1>2, <2>4, PlansTyped DEF Overasked
    <3> QED
      BY <1>1, <3>1 DEF AbortsExplained, Overasked
  <2>6. ReaderAt' = Place("short", File, 0) /\ File' = File
    BY <1>1, <1>2, <2>1, <2>2 DEF ReaderAt, File
  <2>7. After(ReaderAt, u, LZ4) = Place("short", File, 0)
    <3>1. got + u.n # want
      BY <1>2, <1>3, <1>6, <1>8 DEF Fits, Smaller
    <3> QED
      BY <1>2, <1>4, <3>1 DEF After, InData
  <2>8. ReaderOK'
    BY <1>1, <2>1, <2>6 DEF ReaderOK, Complete, Copied, Meant
  <2>9. received' \in Seq(Seq(Nat)) /\ left' \in Nat \cup {Unbounded} /\ want' \in Nat /\ got' \in 0 .. want'
    BY <2>1 DEF TypeOK
  <2> HIDE DEF u
  <2> QED
    BY <1>1, <2>1, <2>2, <2>5, <2>6, <2>7, <2>8, <2>9, ReadInv DEF u
<1> QED
  BY <1>7, <1>8

LEMMA ReadEOFInv == ASSUME TransferInv, ReadEOF PROVE TransferInv'
<1> USE DEF TransferInv
<1>1. /\ rpc = "data" /\ ~aborted["remote"]
      /\ UNCHANGED <<compression, lz4, down, up, answer, cut, ended, writer, received, left, want, got, refused>>
      /\ UNCHANGED <<opc, plans, sent>> /\ LZ4' = LZ4 /\ File' = File
  BY DEF ReadEOF, AtR, writer, LZ4, pipes, File
<1>2. /\ ~refused /\ File \in Nat /\ File \in 1 .. File /\ File \in 1 .. Len(plans) /\ LZ4 = lz4["remote"]
      /\ plans[File].bound \in Nat \cup {Unbounded}
  BY <1>1, InFile
<1>3. Closing'
  BY <1>1 DEF Closing
<1>4. CASE want = 0 /\ ~lz4["remote"]
  <2>1. aborted' = [aborted EXCEPT !["remote"] = TRUE] /\ rpc' = rpc
    BY <1>4 DEF ReadEOF, Abort
  <2>2. aborted' \in [Side -> BOOLEAN] /\ aborted'["originator"] = aborted["originator"]
    BY <2>1 DEF TypeOK, Side
  <2>3. WriterOK' /\ WriterPlace' = WriterPlace /\ Short' = Short
    BY <1>1, <2>2, WriterSame
  <2>4. plans[File].bound = 0
    BY <1>1, <1>4 DEF ReaderOK, TypeOK
  <2>5. AbortsExplained'
    <3>1. File \in DOMAIN plans /\ Overasked(plans[File])
      BY <1>2, <2>4, PlansTyped DEF Overasked
    <3> QED
      BY <1>1, <3>1 DEF AbortsExplained, Overasked
  <2>6. ReaderAt' = ReaderAt
    BY <1>1, <1>2, <1>4, <2>1 DEF ReaderAt
  <2>7. ReaderOK'
    BY <1>1, <2>1 DEF ReaderOK, Complete, Copied, Meant
  <2>8. TypeOK' /\ Agreed'
    BY <1>1, <2>1, <2>2 DEF TypeOK, Agreed
  <2>9. FlowOK'
    BY <1>1, <2>3, <2>6, FlowQuiet DEF Flow
  <2> QED
    BY <1>3, <2>3, <2>5, <2>7, <2>8, <2>9
<1>5. CASE ~(want = 0 /\ ~lz4["remote"])
  <2>1. AtEOF /\ rpc' = "finish" /\ aborted' = aborted
    BY <1>5 DEF ReadEOF
  <2>2. cut
    <3>1. CASE ~cut
      <4>1. ReaderAt = Between(Forwards)
        BY <1>2, <2>1, <3>1, EndOfStream
      <4>2. ReaderAt = InData(File, Len(received[File]), left, want, got)
        BY <1>1 DEF ReaderAt
      <4>3. Between(Forwards).at = "between" /\ InData(File, Len(received[File]), left, want, got).at = "data"
        BY DEF Between, Place, InData
      <4> QED
        BY <4>1, <4>2, <4>3
    <3> QED
      BY <3>1
  <2>3. WriterOK' /\ WriterPlace' = WriterPlace /\ Short' = Short
    BY <1>1, <2>1, WriterSame
  <2>4. AbortsExplained'
    BY <1>1, <2>1 DEF AbortsExplained
  <2>5. ReaderOK'
    BY <1>1, <1>2, <2>1, <2>2 DEF ReaderOK, Complete, Copied
  <2>6. TypeOK' /\ Agreed'
    BY <1>1, <2>1 DEF TypeOK, Agreed
  <2>7. FlowOK'
    <3>1. Flow' = <<>> /\ cut'
      BY <1>1, <2>1, <2>2 DEF Flow, AtEOF
    <3>2. Path(ReaderAt', Flow', ReaderAt', plans', LZ4')
      BY <3>1, PathNone
    <3> QED
      BY <3>1, <3>2 DEF FlowOK
  <2> QED
    BY <1>3, <2>3, <2>4, <2>5, <2>6, <2>7
<1> QED
  BY <1>4, <1>5

LEMMA FinishFileInv == ASSUME TransferInv, FinishFile PROVE TransferInv'
<1> USE DEF TransferInv
<1>1. /\ rpc = "finish" /\ rpc' = "ready" /\ ~aborted["remote"]
      /\ UNCHANGED <<compression, lz4, down, up, answer, cut, ended, writer, received, left, want, got, refused>>
      /\ UNCHANGED <<opc, plans, sent>> /\ LZ4' = LZ4 /\ File' = File
  BY DEF FinishFile, AtR, writer, LZ4, pipes, File
<1>2. /\ ~refused /\ File \in Nat /\ File \in 1 .. File /\ File \in 1 .. Len(plans)
      /\ plans[File].size \in Nat /\ plans[File].bound \in Nat \cup {Unbounded}
  BY <1>1, InFile
<1>3. PICK told \in {Unbounded, plans[File].bound} :
        aborted' = [aborted EXCEPT !["remote"] = told # Unbounded /\ Len(received[File]) # told]
  BY DEF FinishFile, File
<1>4. aborted' \in [Side -> BOOLEAN] /\ aborted'["originator"] = aborted["originator"]
  BY <1>3 DEF TypeOK, Side
<1>5. WriterOK' /\ WriterPlace' = WriterPlace /\ Short' = Short
  BY <1>1, <1>4, WriterSame
<1>6. Closing'
  BY <1>1 DEF Closing
<1>7. AbortsExplained'
  <2>1. CASE told # Unbounded /\ Len(received[File]) # told /\ ~cut
    <3>1. Len(received[File]) = Meant(plans[File])
      BY <1>1, <1>2, <2>1 DEF ReaderOK, Complete
    <3>2. Overasked(plans[File])
      BY <1>2, <1>3, <2>1, <3>1 DEF Meant, Smaller, Overasked
    <3>3. File \in DOMAIN plans
      BY <1>2, PlansTyped
    <3> QED
      BY <1>1, <3>2, <3>3 DEF AbortsExplained, Overasked
  <2>2. CASE cut
    BY <1>1, <2>2 DEF AbortsExplained
  <2>3. CASE ~(told # Unbounded /\ Len(received[File]) # told)
    <3>1. \A s \in Side : aborted'[s] => aborted[s]
      BY <1>3, <2>3 DEF TypeOK, Side
    <3> QED
      BY <1>1, <3>1 DEF AbortsExplained
  <2> QED
    BY <2>1, <2>2, <2>3
<1>8. ReaderOK'
  BY <1>1 DEF ReaderOK, Complete, Copied, Meant
<1>9. ReaderAt' = ReaderAt
  BY <1>1 DEF ReaderAt
<1>10. TypeOK' /\ Agreed'
  BY <1>1, <1>4 DEF TypeOK, Agreed
<1>11. FlowOK'
  BY <1>1, <1>5, <1>9, FlowQuiet DEF Flow
<1> QED
  BY <1>5, <1>6, <1>7, <1>8, <1>10, <1>11

-----------------------------------------------------------------------------
LEMMA TransferInvInit == Init => TransferInv
<1> SUFFICES ASSUME Init PROVE TransferInv
  OBVIOUS
<1>1. TypeOK
  <2>1. <<>> \in Seq(Unit) /\ <<>> \in Seq(Seq(Nat))
        /\ <<>> \in Seq([size : Sizes, bound : Bounds \cup {Unbounded}]) /\ Len(<<>>) = 0
    OBVIOUS
  <2>2. 0 <= PipeSize /\ 0 <= Forwards /\ 0 \in 0 .. 0
    BY BufferFacts
  <2>3. /\ compression \in Compressions /\ lz4 \in [Side -> BOOLEAN] /\ aborted \in [Side -> BOOLEAN]
        /\ answer \in [at : {"none", "sent", "arrived"}, okay : BOOLEAN, lz4 : BOOLEAN]
    BY DEF Init
  <2> QED
    BY <2>1, <2>2, <2>3 DEF Init, TypeOK
<1>2. Agreed /\ WriterOK
  BY DEF Init, Agreed, WriterOK, Short, Side
<1>3. ReaderOK /\ Closing /\ AbortsExplained
  <2>1. Len(<<>>) = 0
    OBVIOUS
  <2> QED
    BY <2>1 DEF Init, ReaderOK, Closing, AbortsExplained, File, Side
<1>4. FlowOK
  <2>1. Flow = <<>>
    BY DEF Init, Flow
  <2>2. ReaderAt = WriterPlace
    BY DEF Init, ReaderAt, WriterPlace
  <2>3. Path(ReaderAt, Flow, WriterPlace, plans, LZ4)
    BY <2>1, <2>2, PathNone
  <2> QED
    BY <2>3 DEF FlowOK
<1> QED
  BY <1>1, <1>2, <1>3, <1>4 DEF TransferInv

LEMMA TransferInvStep == TransferInv /\ [Next]_vars => TransferInv'
<1> SUFFICES ASSUME TransferInv, [Next]_vars PROVE TransferInv'
  OBVIOUS
<1>1. CASE Plex
  BY <1>1, MoveInv, MoveAnswerInv DEF Plex
<1>2. CASE Send
  BY <1>2, CreateStreamInv, StreamCreatedInv, ForwardFileInv, ForwardChunkInv, ForwardEndInv,
     CloseStreamInv DEF Send
<1>3. CASE Receive
  BY <1>3, AcceptStreamInv, ReceiveFileInv, ReadCutShortInv, ReadCommandInv, ReadLengthInv,
     ReadHeaderInv, ReadByteInv, ReadPacketInv, ReadEOFInv, FinishFileInv DEF Receive
<1>4. CASE Cut
  BY <1>4, CutInv
<1>5. CASE UNCHANGED vars
  <2> USE DEF TransferInv
  <2>0. /\ UNCHANGED <<compression, lz4, down, up, answer, cut, ended, aborted, writer, reader, refused>>
        /\ UNCHANGED <<opc, plans, sent>> /\ LZ4' = LZ4 /\ Flow' = Flow
    BY <1>5 DEF vars, pipes, writer, LZ4, Flow
  <2>1. WriterOK' /\ WriterPlace' = WriterPlace /\ Short' = Short
    BY <2>0, WriterSame
  <2>2. ReaderOK' /\ ReaderAt' = ReaderAt
    BY <2>0, ReaderSame
  <2>3. FlowOK'
    BY <2>0, <2>1, <2>2, FlowQuiet
  <2>4. TypeOK' /\ Agreed' /\ Closing' /\ AbortsExplained'
    BY <2>0 DEF TypeOK, Agreed, Closing, AbortsExplained, reader
  <2> QED
    BY <2>1, <2>2, <2>3, <2>4
<1> QED
  BY <1>1, <1>2, <1>3, <1>4, <1>5 DEF Next

LEMMA TransferInvAlways == Spec => []TransferInv
BY TransferInvInit, TransferInvStep, PTL DEF Spec

(* Type correctness of Transfer: what the threads, the pipes and the plexers  *)
(* keep for a stream has the form the code gives it, and the pipes their size. *)
THEOREM TransferTypeCorrect == Spec => []TypeOK
<1>1. TransferInv => TypeOK
  BY DEF TransferInv
<1> QED
  BY <1>1, TransferInvAlways, PTL

(* No end takes for a command, a length or data what the other wrote for      *)
(* something else, in whatever order the two run, however the plexers cut the *)
(* stream and whatever the compression: the first unit there is is the next   *)
(* of the path, and the path tells what may come where the reader is.  The    *)
(* marker of a close, which may come as data and in no framing, is behind the *)
(* last file and what the pipe ends with.                                     *)
THEOREM FramingCorrect == Spec => []FramingAgrees
<1>1. TransferInv => FramingAgrees
  <2> SUFFICES ASSUME TransferInv PROVE FramingAgrees
    OBVIOUS
  <2> USE DEF TransferInv
  <2>1. answer.at = "arrived" /\ opc = "await" => answer.lz4 = lz4["originator"]
    BY DEF Agreed, LZ4
  <2>2. ASSUME up # <<>>, ~refused
        PROVE  \/ /\ Head(up).lz4 = lz4["remote"]
                  /\ [kind |-> Head(up).kind, n |-> Head(up).n] \in Expected
               \/ up = <<Marker>> /\ AllRead
    <3> DEFINE u == Head(up)
    <3>1. Accepts(ReaderAt, u, plans, LZ4)
      BY <2>2, FirstAccepted
    <3>3. rpc # "done"
      BY <2>2 DEF Agreed, AtEOF, TransferInv
    <3>10. CASE u = Marker
      <4>1. ReaderAt.at = "between" /\ ReaderAt.file = Forwards
        BY <3>1, <3>10, MarkerFacts DEF Accepts
      <4>2. rpc \in {"command", "ready", "finish"}
        BY <3>3, <4>1 DEF ReaderAt, Place, InData, TypeOK
      <4>3. /\ rpc = "command" => File - 1 = Forwards
            /\ rpc # "command" => File = Forwards
        BY <4>1, <4>2 DEF ReaderAt, Between, Place
      <4>4. AllRead
        <5>1. File \in Nat /\ File <= Forwards
          BY ReceivedTyped
        <5> QED
          BY <4>2, <4>3, <5>1, BufferFacts DEF AllRead, File
      <4>5. up = <<Marker>>
        <5>1. up \in Seq(Unit) /\ Len(up) \in Nat /\ 1 \in 1 .. Len(up) /\ Head(up) = up[1]
          BY <2>2 DEF TypeOK
        <5>2. up[1] = Marker
          BY <3>10, <5>1
        <5>3. 1 = Len(up)
          BY <5>1, <5>2, MarkerFacts DEF Closing
        <5> QED
          BY <5>1, <5>2, <5>3
      <4> QED
        BY <4>4, <4>5
    <3> SUFFICES ASSUME u # Marker
                 PROVE  /\ Head(up).lz4 = lz4["remote"]
                        /\ [kind |-> Head(up).kind, n |-> Head(up).n] \in Expected
      BY <3>10
    <3>2. u # Marker
      OBVIOUS
    <3> HIDE DEF u
    <3>4. CASE rpc = "init"
      <4>1. ReaderAt.at = "init"
        BY <3>4 DEF ReaderAt, Place
      <4>2. u.kind = "init" /\ u.n = 0 /\ u.lz4 = FALSE
        <5>1. u \in Unit
          BY <2>2, HeadTailProperties DEF TypeOK, u
        <5> QED
          BY <3>1, <4>1, <5>1 DEF Accepts, Unit
      <4>3. lz4["remote"] = FALSE
        BY <3>4 DEF Agreed
      <4> QED
        BY <3>4, <4>2, <4>3 DEF Expected, u
    <3>5. CASE rpc \in {"ready", "finish"}
      <4>1. ReaderAt.at = "between"
        BY <3>5 DEF ReaderAt, Between, Place
      <4>2. u.kind = "command" /\ u.n \in {Bounded, Unbounded} /\ u.lz4 = LZ4
        BY <3>1, <3>2, <4>1 DEF Accepts
      <4>3. lz4["remote"] = LZ4
        BY <3>5 DEF Agreed, LZ4
      <4> QED
        BY <3>5, <4>2, <4>3 DEF Expected, u
    <3>6. CASE rpc = "command"
      <4>1. ReaderAt.at = "between"
        BY <3>6 DEF ReaderAt, Between, Place
      <4>2. u.kind = "command" /\ u.n \in {Bounded, Unbounded} /\ u.lz4 = LZ4
        BY <3>1, <3>2, <4>1 DEF Accepts
      <4> QED
        BY <3>6, <4>2, InFile DEF Expected, u
    <3>7. CASE rpc = "length"
      <4>1. ReaderAt.at = "length" /\ ReaderAt.file = File
        BY <3>7 DEF ReaderAt, Place
      <4>2. u.kind = "length" /\ u.n = plans[File].bound /\ u.lz4 = LZ4
        BY <3>1, <4>1 DEF Accepts
      <4>3. plans[File].bound \in Bounds
        <5>1. plans[File].bound # Unbounded
          BY <3>7 DEF ReaderOK
        <5>2. File \in 1 .. Len(plans)
          BY <3>7, InFile
        <5> QED
          BY <5>1, <5>2, PlansTyped
      <4> QED
        BY <3>7, <4>2, <4>3, InFile DEF Expected, u
    <3>8. CASE rpc = "header"
      <4>1. ReaderAt.at = "header" /\ ReaderAt.file = File /\ ReaderAt.pos = Len(received[File])
        BY <3>8 DEF ReaderAt, Place
      <4>2. /\ u.kind = "command" /\ u.lz4 = LZ4
            /\ u.n = IF Len(received[File]) = plans[File].size THEN End
                     ELSE Smaller(BufferSize, plans[File].size - Len(received[File]))
        BY <3>1, <4>1 DEF Accepts
      <4>3. /\ Len(received[File]) \in Nat /\ plans[File].size \in Nat
            /\ Len(received[File]) <= plans[File].size
        BY <3>8, InFile DEF ReaderOK
      <4>4. u.n \in {End} \cup 1 .. BufferSize
        BY <4>2, <4>3, BufferFacts DEF Smaller
      <4> QED
        BY <3>8, <4>2, <4>4, InFile DEF Expected, u
    <3>9. CASE rpc = "data"
      <4>1. ~(LZ4 /\ aborted["remote"])
        BY <3>1, <3>9 DEF ReaderAt, Place, Accepts
      <4>2. ReaderAt = InData(File, Len(received[File]), left, want, got)
        BY <3>9, <4>1 DEF ReaderAt
      <4>3. /\ u.kind = "data" /\ u.lz4 = LZ4 /\ got < want /\ Len(received[File]) < plans[File].size
            /\ u.n = IF LZ4 THEN Smaller(want, plans[File].size - Len(received[File])) ELSE 1
        BY <3>1, <4>2 DEF Accepts, InData
      <4>4. Len(received[File]) \in Nat /\ plans[File].size \in Nat /\ want \in Nat /\ got \in Nat
            /\ want <= BufferSize
        BY <3>9, InFile DEF ReaderOK, TypeOK
      <4>5. u.n \in 1 .. BufferSize
        BY <4>3, <4>4, BufferFacts DEF Smaller
      <4> QED
        BY <3>9, <4>3, <4>5, InFile DEF Expected, u
    <3> QED
      BY <3>3, <3>4, <3>5, <3>6, <3>7, <3>8, <3>9 DEF TypeOK, u
  <2> QED
    BY <2>1, <2>2 DEF FramingAgrees
<1> QED
  BY <1>1, TransferInvAlways, PTL

(* What a forward writes is the beginning of the sender's file and, if the    *)
(* connection was not interrupted, all that was to be sent: for any number of *)
(* files of any size, with bounds or without, over buffers and pipes of any   *)
(* size.                                                                      *)
THEOREM FilesCorrect == Spec => []FilesArrive
<1>1. TransferInv => FilesArrive
  <2> SUFFICES ASSUME TransferInv, NEW i \in DOMAIN received
               PROVE  /\ received[i] = [j \in 1 .. Len(received[i]) |-> j - 1]
                      /\ (Received(i) /\ ~cut) => Len(received[i]) = Meant(plans[i])
    BY DEF FilesArrive
  <2>1. i \in 1 .. File
    BY LenProperties DEF TransferInv, TypeOK, File
  <2> QED
    BY <2>1 DEF TransferInv, ReaderOK, Copied, Complete, Received, File
<1> QED
  BY <1>1, TransferInvAlways, PTL

(* An assertion of the library ends neither process unless the connection was *)
(* interrupted or the sender asked for more than its file has, or for nothing. *)
THEOREM AbortsCorrect == Spec => []AbortsExplained
<1>1. TransferInv => AbortsExplained
  BY DEF TransferInv
<1> QED
  BY <1>1, TransferInvAlways, PTL
=============================================================================
