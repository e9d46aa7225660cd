------------------------- MODULE ServerResponseProofs -------------------------
(***************************************************************************)
(* Proofs about ServerResponse, for any requests, handlers, buffer and     *)
(* limits.  First the sum of the bytes on the wire, by induction over its  *)
(* length; then what each step of the response keeps; at the end the       *)
(* inductive invariant and the properties of the runs.                     *)
(***************************************************************************)
EXTENDS ServerResponse, SequenceTheorems, FiniteSetTheorems,
        WellFoundedInduction, TLAPS

Info == {"1xx", "100"}
NoHeader == [cls |-> <<>>]
SentHeader ==
  [cls : Seq(Nat), tes : {<<>>, <<"chunked">>}, conn : SUBSET {"close", "keep-alive"},
   trailer : {"none"}]
WireItem ==
  [t : Info \cup {"data", "chunk", "end"}, n : Nat, h : {NoHeader}, status : {0}]
    \cup [t : {"hdr"}, n : {0}, h : SentHeader, status : 0..999]

-----------------------------------------------------------------------------
(* Induction, and sums over a sequence *)

\* A set of numbers that holds 0 and with each number the next holds them all.
LEMMA SetInduction ==
  ASSUME NEW S, 0 \in S, \A n \in Nat : n \in S => n + 1 \in S
  PROVE  Nat \subseteq S
<1> DEFINE T == Nat \ S
<1> SUFFICES ASSUME T # {} PROVE FALSE
  OBVIOUS
<1>1. \E x \in T : \A y \in T : ~ (<<y, x>> \in OpToRel(<, Nat))
  BY NatLessThanWellFounded, WFMin
<1>2. PICK x \in T : \A y \in T : ~ (<<y, x>> \in OpToRel(<, Nat))
  BY <1>1
<1>3. x \in Nat /\ x # 0 /\ x \notin S
  BY <1>2
<1>4. x - 1 \in Nat /\ (x - 1) + 1 = x
  BY <1>3
<1>5. x - 1 \in T
  BY <1>3, <1>4
<1>6. <<x - 1, x>> \in Nat \X Nat /\ <<x - 1, x>>[1] < <<x - 1, x>>[2]
  BY <1>3, <1>4
<1>7. <<x - 1, x>> \in OpToRel(<, Nat)
  BY <1>6 DEF OpToRel
<1>8. QED
  BY <1>2, <1>5, <1>7

\* The number of bytes in an item is a natural number.
LEMMA BodyBytesType ==
  ASSUME NEW x \in WireItem
  PROVE  BodyBytes(x) \in Nat
BY DEF BodyBytes, WireItem, Info

Alike(f, d, g, b, n) ==
  /\ f[d] = g[0]
  /\ \A i \in 1..n : f[d + i] = f[d + i - 1] + b[i] /\ g[i] = g[i - 1] + b[i]

\* Two functions that start equal and grow by the same amounts stay equal.
LEMMA SameSteps ==
  ASSUME NEW f, NEW g, NEW b, NEW d \in Nat, NEW n \in Nat,
         Alike(f, d, g, b, n)
  PROVE  f[d + n] = g[n]
<1> DEFINE S == {i \in Nat : i <= n => f[d + i] = g[i]}
<1> USE DEF Alike
<1>1. 0 \in S
  OBVIOUS
<1>2. ASSUME NEW i \in Nat, i \in S PROVE i + 1 \in S
  <2>1. CASE i + 1 <= n
    <3>1. i + 1 \in 1..n /\ d + (i + 1) - 1 = d + i /\ (i + 1) - 1 = i /\ i <= n
      BY <2>1
    <3>2. f[d + (i + 1)] = f[d + (i + 1) - 1] + b[i + 1] /\ g[i + 1] = g[(i + 1) - 1] + b[i + 1]
      BY <3>1
    <3>3. f[d + i] = g[i]
      BY <1>2, <3>1
    <3>4. f[d + (i + 1)] = g[i + 1]
      BY <3>1, <3>2, <3>3
    <3>5. QED
      BY <3>4
  <2>2. CASE ~(i + 1 <= n)
    BY <2>2
  <2>3. QED
    BY <2>1, <2>2
<1>3. Nat \subseteq S
  <2> HIDE DEF S
  <2>1. QED
    BY <1>1, <1>2, SetInduction
<1>4. n \in S
  BY <1>3
<1>5. QED
  BY <1>4

SumsOf(f, items, n) ==
  f = [i \in 0..n |-> IF i = 0 THEN 0 ELSE f[i - 1] + BodyBytes(items[i])]

\* The partial sums of any sequence exist.
LEMMA SumsExist ==
  ASSUME NEW items, NEW n \in Nat
  PROVE  \E f : SumsOf(f, items, n)
<1> DEFINE S == {i \in Nat : \E f : SumsOf(f, items, i)}
<1>1. 0 \in S
  <2> DEFINE z == [i \in 0..0 |-> 0]
  <2>1. z = [i \in 0..0 |-> IF i = 0 THEN 0 ELSE z[i - 1] + BodyBytes(items[i])]
    OBVIOUS
  <2>2. SumsOf(z, items, 0)
    BY <2>1 DEF SumsOf
  <2>3. QED
    BY <2>2
<1>2. ASSUME NEW i \in Nat, i \in S PROVE i + 1 \in S
  <2>1. PICK f : SumsOf(f, items, i)
    BY <1>2
  <2>2. f = [j \in 0..i |-> IF j = 0 THEN 0 ELSE f[j - 1] + BodyBytes(items[j])]
    BY <2>1 DEF SumsOf
  <2> DEFINE g == [j \in 0..(i + 1) |-> IF j = i + 1 THEN f[i] + BodyBytes(items[j]) ELSE f[j]]
             h == [j \in 0..(i + 1) |-> IF j = 0 THEN 0 ELSE g[j - 1] + BodyBytes(items[j])]
  <2>3. ASSUME NEW j \in 0..(i + 1) PROVE g[j] = h[j]
    <3>1. CASE j = 0
      <4>1. 0 \in 0..i /\ f[0] = 0
        BY <2>2
      <4>2. QED
        BY <3>1, <4>1
    <3>2. CASE j = i + 1
      <4>1. j - 1 = i /\ i \in 0..(i + 1) /\ i # i + 1 /\ j # 0
        BY <3>2
      <4>2. QED
        BY <3>2, <4>1
    <3>3. CASE j \in 1..i
      <4>1. j \in 0..i /\ j # 0 /\ j # i + 1 /\ j - 1 \in 0..(i + 1) /\ j - 1 # i + 1
        BY <3>3
      <4>2. f[j] = f[j - 1] + BodyBytes(items[j])
        BY <2>2, <4>1
      <4>3. QED
        BY <4>1, <4>2
    <3>4. QED
      BY <3>1, <3>2, <3>3
  <2>4. g = h
    BY <2>3
  <2>5. SumsOf(g, items, i + 1)
    BY <2>4 DEF SumsOf
  <2>6. QED
    BY <2>5
<1>3. Nat \subseteq S
  <2> HIDE DEF S
  <2>1. QED
    BY <1>1, <1>2, SetInduction
<1>4. QED
  BY <1>3

\* Bytes adds the items up one by one.
LEMMA BytesSteps ==
  ASSUME NEW items \in Seq(WireItem)
  PROVE  /\ Bytes(items)[0] = 0
         /\ \A i \in 1..Len(items) : Bytes(items)[i] = Bytes(items)[i - 1] + BodyBytes(items[i])
<1>1. Len(items) \in Nat
  OBVIOUS
<1>2. \E f : SumsOf(f, items, Len(items))
  BY <1>1, SumsExist
<1>3. SumsOf(Bytes(items), items, Len(items))
  BY <1>2 DEF Bytes, SumsOf
<1>4. QED
  <2> DEFINE f == Bytes(items)
  <2>1. f = [i \in 0..Len(items) |-> IF i = 0 THEN 0 ELSE f[i - 1] + BodyBytes(items[i])]
    BY <1>3 DEF SumsOf
  <2> HIDE DEF f
  <2>2. 0 \in 0..Len(items) /\ \A i \in 1..Len(items) : i \in 0..Len(items) /\ i # 0
    BY <1>1
  <2>3. f[0] = 0 /\ \A i \in 1..Len(items) : f[i] = f[i - 1] + BodyBytes(items[i])
    BY <2>1, <2>2
  <2>4. QED
    BY <2>3 DEF f

\* What is on the wire is a number of bytes.
LEMMA AmountType ==
  ASSUME NEW items \in Seq(WireItem)
  PROVE  Amount(items) \in Nat
<1> DEFINE f == Bytes(items)
           S == {i \in Nat : i <= Len(items) => f[i] \in Nat}
<1>1. /\ f[0] = 0 /\ Len(items) \in Nat
      /\ \A i \in 1..Len(items) : f[i] = f[i - 1] + BodyBytes(items[i])
  BY BytesSteps
<1> HIDE DEF f
<1>2. 0 \in S
  BY <1>1
<1>3. ASSUME NEW i \in Nat, i \in S PROVE i + 1 \in S
  <2>1. CASE i + 1 <= Len(items)
    <3>1. i + 1 \in 1..Len(items) /\ (i + 1) - 1 = i /\ i <= Len(items)
      BY <1>1, <2>1
    <3>2. items[i + 1] \in WireItem
      BY <3>1, ElementOfSeq
    <3>3. BodyBytes(items[i + 1]) \in Nat
      BY <3>2, BodyBytesType
    <3>4. f[i + 1] = f[i] + BodyBytes(items[i + 1]) /\ f[i] \in Nat
      BY <1>1, <1>3, <3>1
    <3>5. QED
      BY <3>3, <3>4
  <2>2. CASE ~(i + 1 <= Len(items))
    BY <2>2
  <2>3. QED
    BY <2>1, <2>2
<1>4. Nat \subseteq S
  <2> HIDE DEF S
  <2>1. QED
    BY <1>2, <1>3, SetInduction
<1>5. Len(items) \in S
  BY <1>1, <1>4
<1>6. QED
  BY <1>1, <1>5 DEF Amount, f

\* Append adds the bytes of the item.
LEMMA AmountAppend ==
  ASSUME NEW items \in Seq(WireItem), NEW x \in WireItem
  PROVE  Amount(Append(items, x)) = Amount(items) + BodyBytes(x)
<1> DEFINE t == Append(items, x)  n == Len(items)
           f == Bytes(t)  g == Bytes(items)
           b == [i \in 1..n |-> BodyBytes(items[i])]
<1>1. /\ t \in Seq(WireItem) /\ Len(t) = n + 1 /\ n \in Nat /\ t[n + 1] = x
      /\ \A i \in 1..n : t[i] = items[i]
  BY AppendProperties
<1> HIDE DEF t, n
<1>2. f[0] = 0 /\ \A i \in 1..(n + 1) : f[i] = f[i - 1] + BodyBytes(t[i])
  BY <1>1, BytesSteps
<1>3. g[0] = 0 /\ \A i \in 1..n : g[i] = g[i - 1] + BodyBytes(items[i])
  BY BytesSteps DEF n
<1> HIDE DEF f, g
<1>4. ASSUME NEW i \in 1..n
      PROVE  f[0 + i] = f[0 + i - 1] + b[i] /\ g[i] = g[i - 1] + b[i]
  <2>1. i \in 1..(n + 1) /\ 0 + i = i /\ t[i] = items[i]
    BY <1>1
  <2>2. QED
    BY <1>2, <1>3, <2>1
<1> HIDE DEF b
<1>5. f[0 + n] = g[n]
  <2>1. \A i \in 1..n : f[0 + i] = f[0 + i - 1] + b[i] /\ g[i] = g[i - 1] + b[i]
    BY <1>4
  <2>2. f[0] = g[0] /\ 0 \in Nat /\ n \in Nat
    BY <1>1, <1>2, <1>3
  <2>3. Alike(f, 0, g, b, n)
    BY <2>1, <2>2 DEF Alike
  <2>4. QED
    BY <2>2, <2>3, SameSteps
<1>6. n + 1 \in 1..(n + 1) /\ (n + 1) - 1 = n /\ 0 + n = n
  BY <1>1
<1>7. f[n + 1] = g[n] + BodyBytes(x)
  BY <1>1, <1>2, <1>5, <1>6
<1>8. QED
  BY <1>1, <1>7 DEF Amount, f, g, n, t

\* An empty wire holds nothing.
LEMMA AmountEmpty == Amount(<<>>) = 0
<1>1. <<>> \in Seq(WireItem) /\ Len(<<>>) = 0
  OBVIOUS
<1>2. Bytes(<<>>)[0] = 0
  BY <1>1, BytesSteps
<1>3. QED
  BY <1>1, <1>2 DEF Amount

\* Items in front that hold no bytes of the body may be left out.
LEMMA AmountBehind ==
  ASSUME NEW items \in Seq(WireItem), NEW k \in 1..Len(items),
         \A i \in 1..k : BodyBytes(items[i]) = 0
  PROVE  Amount(SubSeq(items, k + 1, Len(items))) = Amount(items)
<1> DEFINE n == Len(items)  t == SubSeq(items, k + 1, n)
           f == Bytes(items)  g == Bytes(t)
<1>1. n \in Nat /\ k \in Nat /\ k <= n /\ n - k \in Nat /\ \A i \in 1..n : items[i] \in WireItem
  BY ElementOfSeq
<1>2. t \in Seq(WireItem) /\ Len(t) = n - k /\ \A i \in 1..(n - k) : t[i] = items[k + i]
  <2>1. k + 1 \in Int /\ n \in Int /\ \A i \in (k + 1)..n : items[i] \in WireItem
    BY <1>1
  <2>2. /\ t \in Seq(WireItem)
        /\ Len(t) = IF k + 1 <= n THEN n - (k + 1) + 1 ELSE 0
        /\ \A i \in 1..(n - (k + 1) + 1) : t[i] = items[k + 1 + i - 1]
    BY <2>1, SubSeqProperties
  <2> HIDE DEF t, n
  <2>3. n - (k + 1) + 1 = n - k /\ (~(k + 1 <= n) => n - k = 0)
    BY <1>1
  <2>4. \A i \in 1..(n - k) : k + 1 + i - 1 = k + i
    BY <1>1
  <2>5. QED
    BY <2>2, <2>3, <2>4
<1>3. f[0] = 0 /\ \A i \in 1..n : f[i] = f[i - 1] + BodyBytes(items[i])
  BY BytesSteps
<1> HIDE DEF t, f
<1>4. g[0] = 0 /\ \A i \in 1..(n - k) : g[i] = g[i - 1] + BodyBytes(t[i])
  BY <1>2, BytesSteps
<1> HIDE DEF g, n
<1>5. f[k] = 0
  <2> DEFINE z == [i \in 0..k |-> 0]
  <2>1. ASSUME NEW i \in 1..k
        PROVE  f[0 + i] = f[0 + i - 1] + z[i] /\ z[i] = z[i - 1] + z[i]
    <3>1. i \in 1..n /\ i \in 0..k /\ i - 1 \in 0..k /\ 0 + i = i
      BY <1>1
    <3>2. f[i] = f[i - 1] + 0
      BY <1>3, <3>1
    <3>3. QED
      BY <3>1, <3>2
  <2>2. z[0] = 0 /\ z[k] = 0
    BY <1>1
  <2> HIDE DEF z
  <2>3. f[0 + k] = z[k]
    <3>1. \A i \in 1..k : f[0 + i] = f[0 + i - 1] + z[i] /\ z[i] = z[i - 1] + z[i]
      BY <2>1
    <3>2. f[0] = z[0] /\ 0 \in Nat /\ k \in Nat
      BY <1>1, <1>3, <2>2
    <3>3. Alike(f, 0, z, z, k)
      BY <3>1, <3>2 DEF Alike
    <3>4. QED
      BY <3>2, <3>3, SameSteps
  <2>4. QED
    BY <1>1, <2>2, <2>3
<1> DEFINE b == [i \in 1..(n - k) |-> BodyBytes(t[i])]
<1>6. ASSUME NEW i \in 1..(n - k)
      PROVE  f[k + i] = f[k + i - 1] + b[i] /\ g[i] = g[i - 1] + b[i]
  <2>1. k + i \in 1..n /\ t[i] = items[k + i]
    BY <1>1, <1>2
  <2>2. QED
    BY <1>3, <1>4, <2>1
<1> HIDE DEF b
<1>7. f[k + (n - k)] = g[n - k]
  <2> DEFINE m == n - k
  <2>1. \A i \in 1..m : f[k + i] = f[k + i - 1] + b[i] /\ g[i] = g[i - 1] + b[i]
    BY <1>6
  <2>2. f[k] = g[0] /\ k \in Nat /\ m \in Nat
    BY <1>1, <1>4, <1>5
  <2> HIDE DEF m
  <2>3. Alike(f, k, g, b, m)
    BY <2>1, <2>2 DEF Alike
  <2>4. f[k + m] = g[m]
    BY <2>2, <2>3, SameSteps
  <2>5. QED
    BY <2>4 DEF m
<1>8. k + (n - k) = n
  BY <1>1
<1>9. QED
  BY <1>2, <1>7, <1>8 DEF Amount, f, g, t, n

-----------------------------------------------------------------------------
(* What holds of a response at any time *)

Flag    == BOOLEAN
Status  == 0..999
Length  == Nat \cup {Unknown}
Held    == 0..BufSize
Wire    == Seq(WireItem)
Left    == 0..rq.n

Response ==
  [wroteHeader : Flag, status : Status, contentLength : Length, written : Nat,
   closeAfterReply : Flag, bodyLimitHit : Flag, handlerDone : Flag,
   canWriteContinue : Flag, wroteContinue : Flag, ecrSawEOF : Flag,
   cwWroteHeader : Flag, chunking : Flag, buffered : Held, wire : Wire, left : Left,
   sawEOF : Flag, closed : Flag, earlyClose : Flag]

BodyTag(s) == IF s.chunking THEN "chunk" ELSE "data"

(* The final header x says of the body what the chunkWriter does with it,  *)
(* and that the connection closes when it will.                            *)
HeaderTells(s, x) ==
  /\ x.status = s.status
  /\ x.h.tes = IF s.chunking THEN <<"chunked">> ELSE <<>>
  /\ s.chunking => rq.proto = 11 /\ ~IsHEAD /\ BodyAllowed(s) /\ x.h.cls = <<>>
  /\ x.h.cls # <<>> => s.contentLength \in Nat /\ x.h.cls = <<s.contentLength>>
  /\ x.h.cls = <<>> /\ ~s.chunking => IsHEAD \/ ~BodyAllowed(s) \/ s.closeAfterReply
  /\ s.closeAfterReply /\ rq.proto = 11 /\ ~rq.duplex => "close" \in x.h.conn

(* What may follow the final header; `ended' once the chunks are closed.   *)
Behind(s, i, ended) ==
  \/ s.wire[i].t = "100"
  \/ s.wire[i].t = BodyTag(s) /\ ~IsHEAD /\ BodyAllowed(s) /\ s.written > 0
  \/ s.wire[i].t = "end" /\ s.chunking /\ ended /\ i = Len(s.wire)

HeaderAt(s, k, ended) ==
  /\ s.wire[k].t = "hdr" /\ HeaderTells(s, s.wire[k])
  /\ \A i \in 1..(k - 1) : s.wire[i].t \in Info
  /\ \A i \in (k + 1)..Len(s.wire) : Behind(s, i, ended)
  /\ ended /\ s.chunking => s.wire[Len(s.wire)].t = "end"

WireInv(s, ended) ==
  /\ ~s.cwWroteHeader => \A i \in 1..Len(s.wire) : s.wire[i].t \in Info
  /\ s.cwWroteHeader => \E k \in 1..Len(s.wire) : HeaderAt(s, k, ended)

(* The stages of the header: logical, with the handler's Content-Length    *)
(* cl, then on the wire.                                                   *)
StageInv(s, cl) ==
  /\ ~s.wroteHeader => /\ s.contentLength = Unknown /\ s.written = 0 /\ s.buffered = 0
                       /\ ~s.cwWroteHeader
  /\ s.wroteHeader /\ ~s.cwWroteHeader => s.contentLength = cl
  /\ ~BodyAllowed(s) => s.written = 0 /\ s.buffered = 0
  /\ s.cwWroteHeader /\ rq.expect = "other" => s.closeAfterReply

(* Until a write was refused, what was written is on the wire, or buffered, *)
(* or among the `pending' bytes of the write under way.                     *)
Counted(s, pending) ==
  /\ s.buffered + pending <= s.written
  /\ ~IsHEAD /\ (s.contentLength = Unknown \/ s.written <= s.contentLength)
       => Amount(s.wire) + s.buffered + pending = s.written

(* Once the header is out and promises to keep the connection, the body of *)
(* the request was read to its end; one that the handler replaced is       *)
(* closed, so that no read can meet its limit any more.                    *)
RequestInv(s) ==
  /\ s.sawEOF => s.left = 0
  /\ s.ecrSawEOF => s.sawEOF
  /\ s.earlyClose => HasBody
  /\ s.cwWroteHeader /\ HasBody /\ ~rq.duplex /\ ~s.closeAfterReply =>
       /\ rq.wrapped => s.closed
       /\ ~rq.wrapped => s.sawEOF

-----------------------------------------------------------------------------
(* The request body *)

\* The fields of a request and of a response.
LEMMA RequestFields ==
  ASSUME rq \in Request
  PROVE  /\ rq.proto \in {10, 11} /\ rq.conn \in {"", "close", "keep-alive"}
         /\ rq.expect \in {"", "100-continue", "other"}
         /\ rq.body \in {"none", "limited", "chunked"} /\ rq.n \in Nat
         /\ rq.ok \in BOOLEAN /\ rq.wrapped \in BOOLEAN /\ rq.duplex \in BOOLEAN
BY DEF Request

\* The fields of a response have their types.
LEMMA ResponseFields ==
  ASSUME NEW s \in Response
  PROVE  /\ s.wroteHeader \in BOOLEAN /\ s.status \in 0..999
         /\ s.contentLength \in Nat \cup {Unknown} /\ s.written \in Nat
         /\ s.closeAfterReply \in BOOLEAN /\ s.bodyLimitHit \in BOOLEAN
         /\ s.handlerDone \in BOOLEAN /\ s.canWriteContinue \in BOOLEAN
         /\ s.wroteContinue \in BOOLEAN /\ s.ecrSawEOF \in BOOLEAN
         /\ s.cwWroteHeader \in BOOLEAN /\ s.chunking \in BOOLEAN
         /\ s.buffered \in 0..BufSize /\ s.wire \in Seq(WireItem) /\ s.left \in 0..rq.n
         /\ s.sawEOF \in BOOLEAN /\ s.closed \in BOOLEAN /\ s.earlyClose \in BOOLEAN
<1>1. /\ s.wroteHeader \in Flag /\ s.status \in Status /\ s.contentLength \in Length
      /\ s.written \in Nat /\ s.closeAfterReply \in Flag /\ s.bodyLimitHit \in Flag
      /\ s.handlerDone \in Flag /\ s.canWriteContinue \in Flag /\ s.wroteContinue \in Flag
      /\ s.ecrSawEOF \in Flag /\ s.cwWroteHeader \in Flag /\ s.chunking \in Flag
      /\ s.buffered \in Held /\ s.wire \in Wire /\ s.left \in Left
      /\ s.sawEOF \in Flag /\ s.closed \in Flag /\ s.earlyClose \in Flag
  BY DEF Response
<1>2. QED
  BY <1>1 DEF Flag, Status, Length, Held, Wire, Left

SameOutput(s, t) ==
  /\ t.wroteHeader = s.wroteHeader /\ t.status = s.status
  /\ t.contentLength = s.contentLength /\ t.written = s.written
  /\ t.handlerDone = s.handlerDone /\ t.cwWroteHeader = s.cwWroteHeader
  /\ t.chunking = s.chunking /\ t.buffered = s.buffered /\ t.wire = s.wire
SameReply(s, t) == SameOutput(s, t) /\ t.closeAfterReply = s.closeAfterReply

BodyMoves(s, t) ==
  /\ t.ecrSawEOF = s.ecrSawEOF /\ t.wroteContinue = s.wroteContinue
  /\ t.canWriteContinue = s.canWriteContinue
  /\ t.earlyClose => s.earlyClose \/ HasBody
  /\ s.sawEOF => t.sawEOF
  /\ s.closed => t.closed
  /\ t.sawEOF => t.left = 0

\* What is said of the reply does not depend on the request body.
LEMMA SameReplyKeeps ==
  ASSUME NEW s, NEW t, NEW cl, NEW e, NEW d, SameReply(s, t)
  PROVE  /\ WireInv(s, e) => WireInv(t, e)
         /\ StageInv(s, cl) => StageInv(t, cl)
         /\ Counted(s, d) => Counted(t, d)
<1> USE DEF SameReply, SameOutput
<1>1. BodyAllowed(t) = BodyAllowed(s) /\ BodyTag(t) = BodyTag(s)
  BY DEF BodyAllowed, BodyTag
<1>2. \A x : HeaderTells(t, x) = HeaderTells(s, x)
  BY <1>1 DEF HeaderTells
<1>3. \A i : Behind(t, i, e) = Behind(s, i, e)
  BY <1>1 DEF Behind
<1>4. \A k : HeaderAt(t, k, e) = HeaderAt(s, k, e)
  BY <1>2, <1>3 DEF HeaderAt
<1>5. WireInv(s, e) => WireInv(t, e)
  BY <1>4 DEF WireInv
<1>6. StageInv(s, cl) => StageInv(t, cl)
  BY <1>1 DEF StageInv
<1>7. Counted(s, d) => Counted(t, d)
  BY DEF Counted
<1>8. QED
  BY <1>5, <1>6, <1>7

\* Reading on keeps what holds of the request body.
LEMMA BodyMovesKeeps ==
  ASSUME NEW s, NEW t, SameReply(s, t), BodyMoves(s, t), RequestInv(s)
  PROVE  RequestInv(t)
BY DEF SameReply, SameOutput, BodyMoves, RequestInv

\* io.CopyN changes nothing but the body, and io.EOF means its end was seen.
LEMMA AfterCopyFacts ==
  ASSUME rq \in Request, NEW s \in Response, NEW k \in Nat \ {0}, s.sawEOF => s.left = 0
  PROVE  /\ AfterCopy(s, k) \in Response
         /\ SameReply(s, AfterCopy(s, k)) /\ BodyMoves(s, AfterCopy(s, k))
         /\ AfterCopy(s, k).closed = s.closed
         /\ CopyResult(s, k) = "eof" => AfterCopy(s, k).sawEOF
         /\ CopyResult(s, k) = "closed" => s.closed
<1>0. rq.n \in Nat /\ rq.ok \in BOOLEAN
  BY RequestFields
<1>a. s.left \in 0..rq.n /\ s.sawEOF \in BOOLEAN /\ s.closed \in BOOLEAN
  BY ResponseFields
<1>1. s.left \in Nat /\ s.left <= rq.n /\ rq.n \in Nat /\ rq.ok \in BOOLEAN
      /\ s.sawEOF \in BOOLEAN /\ s.closed \in BOOLEAN
  BY <1>0, <1>a
<1>2. CASE s.closed \/ s.sawEOF
  <2>1. AfterCopy(s, k) = s
    BY <1>2 DEF AfterCopy
  <2>2. CopyResult(s, k) = "eof" => s.sawEOF
    BY <1>1, <1>2 DEF CopyResult
  <2>3. CopyResult(s, k) = "closed" => s.closed
    BY <1>1, <1>2 DEF CopyResult
  <2>4. QED
    BY <2>1, <2>2, <2>3 DEF SameReply, SameOutput, BodyMoves
<1>3. CASE ~s.closed /\ ~s.sawEOF
  <2> DEFINE l == IF s.left > k THEN s.left - k ELSE 0
             eof == rq.ok /\ (s.left < k \/ (s.left = k /\ rq.body = "limited"))
             t == [s EXCEPT !.left = l, !.sawEOF = eof]
  <2>1. AfterCopy(s, k) = t
    BY <1>3 DEF AfterCopy
  <2>2. l \in Left /\ eof \in Flag /\ (eof => l = 0)
    BY <1>1 DEF Left, Flag
  <2>3. CopyResult(s, k) = "eof" => eof
    BY <1>1, <1>3 DEF CopyResult
  <2>4. CopyResult(s, k) # "closed"
    BY <1>1, <1>3 DEF CopyResult
  <2> HIDE DEF l, eof
  <2>5. t \in Response /\ t.left = l /\ t.sawEOF = eof /\ t.closed = s.closed
    BY <2>2 DEF Response
  <2>6. SameReply(s, t) /\ t.ecrSawEOF = s.ecrSawEOF
        /\ t.earlyClose = s.earlyClose /\ t.wroteContinue = s.wroteContinue
        /\ t.canWriteContinue = s.canWriteContinue
    BY DEF Response, SameReply, SameOutput
  <2> HIDE DEF t
  <2>7. BodyMoves(s, t)
    BY <1>3, <2>2, <2>5, <2>6 DEF BodyMoves
  <2>8. QED
    BY <2>1, <2>3, <2>4, <2>5, <2>6, <2>7
<1>4. QED
  BY <1>1, <1>2, <1>3

\* body.Close closes it.
LEMMA CloseBodyFacts ==
  ASSUME rq \in Request, NEW s \in Response, s.sawEOF => s.left = 0
  PROVE  /\ CloseBody(s) \in Response
         /\ SameReply(s, CloseBody(s)) /\ BodyMoves(s, CloseBody(s))
         /\ HasBody => CloseBody(s).closed
<1>1. s.left \in Nat /\ s.sawEOF \in BOOLEAN /\ s.closed \in BOOLEAN /\ MaxPost \in Nat \ {0}
  BY ResponseAssumption, ResponseFields
<1> DEFINE yes == TRUE
           pointless == rq.body = "limited" /\ RequestCloses
           tooLong == rq.body = "limited" /\ s.left > MaxPost
           d == AfterCopy(s, MaxPost)
           s1 == [s EXCEPT !.closed = yes]
           s2 == [s EXCEPT !.closed = yes, !.earlyClose = yes]
           early == s.left >= MaxPost
           s3 == [d EXCEPT !.closed = yes, !.earlyClose = early]
<1>2. /\ d \in Response /\ SameReply(s, d) /\ BodyMoves(s, d)
  BY <1>1, AfterCopyFacts
<1>3. SameReply(s, s) /\ BodyMoves(s, s)
  BY DEF SameReply, SameOutput, BodyMoves
<1>4. /\ CloseBody(s) \in {s, s1, s2, s3} /\ (~HasBody => CloseBody(s) = s)
      /\ CloseBody(s) = s => ~HasBody \/ s.closed \/ s \in {s1, s2, s3}
  BY <1>1 DEF CloseBody
<1>y. yes \in Flag /\ yes
  BY DEF Flag
<1>e. early \in Flag
  BY <1>1 DEF Flag
<1> HIDE DEF d, yes, early
<1>5. s1 \in Response /\ SameReply(s, s1) /\ BodyMoves(s, s1) /\ s1.closed
  BY <1>y, ZenonT(60) DEF Response, SameReply, SameOutput, BodyMoves
<1>6. s2 \in Response /\ SameReply(s, s2) /\ s2.closed /\ (HasBody => BodyMoves(s, s2))
  BY <1>y, ZenonT(60) DEF Response, SameReply, SameOutput, BodyMoves
<1>7. s3 \in Response /\ SameReply(s, s3) /\ s3.closed /\ (HasBody => BodyMoves(s, s3))
  <2>2. s3 \in Response /\ s3.closed
    BY <1>2, <1>y, <1>e, ZenonT(60) DEF Response
  <2>3. SameReply(d, s3) /\ (HasBody => BodyMoves(d, s3))
    BY <1>2, <1>y, <1>e DEF Response, SameReply, SameOutput, BodyMoves
  <2>4. QED
    BY <1>2, <2>2, <2>3 DEF SameReply, SameOutput, BodyMoves
<1> HIDE DEF s1, s2, s3
<1>8. QED
  BY <1>3, <1>4, <1>5, <1>6, <1>7

-----------------------------------------------------------------------------
(* The final header *)

\* What writeHeader reads off the request body leaves the reply as it is; if
\* it asks for no close, the body was read to its end (or, when the handler
\* replaced it, is closed).
LEMMA ConsumeBodyFacts ==
  ASSUME rq \in Request, NEW s \in Response, s.sawEOF => s.left = 0, ~s.closeAfterReply
  PROVE  /\ ConsumeBody(s) \in Response
         /\ SameOutput(s, ConsumeBody(s)) /\ BodyMoves(s, ConsumeBody(s))
         /\ /\ HasBody /\ BodyType # "expectContinueReader" /\ ~TooBig(s)
            /\ ~ConsumeBody(s).closeAfterReply
            => /\ rq.wrapped => ConsumeBody(s).closed
               /\ ~rq.wrapped => ConsumeBody(s).sawEOF
<1> DEFINE result == CopyResult(s, MaxPost + 1)
           copied == AfterCopy(s, MaxPost + 1)
           yes == TRUE
           c1 == CloseBody(copied)
           c2 == [copied EXCEPT !.closeAfterReply = yes]
           cut == BodyType = "body" /\ s.closed /\ ~s.sawEOF
           c4 == [s EXCEPT !.closeAfterReply = cut]
           t == ConsumeBody(s)
<1>0. s.sawEOF \in BOOLEAN /\ s.closed \in BOOLEAN /\ s.closeAfterReply \in BOOLEAN
      /\ s.left \in 0..rq.n
  BY ResponseFields
<1>1. MaxPost + 1 \in Nat \ {0}
  BY ResponseAssumption
<1>2. /\ copied \in Response /\ SameReply(s, copied) /\ BodyMoves(s, copied)
      /\ copied.closed = s.closed
      /\ result = "eof" => copied.sawEOF
      /\ result = "closed" => s.closed
  BY <1>1, AfterCopyFacts
<1>3. result \in {"closed", "eof", "nil", "err"}
  BY DEF CopyResult
<1>4. /\ Discards(s) /\ result = "eof" => t = c1
      /\ Discards(s) /\ result = "err" => t = c2
      /\ Discards(s) /\ result \in {"nil", "closed"} => t = copied
      /\ ~Discards(s) => t = c4
  BY <1>3 DEF ConsumeBody
<1>5. (result = "nil" /\ Discards(s)) => TooBig(s)
  BY DEF TooBig
<1>6. /\ BodyType = "body" /\ ~Discards(s) /\ ~TooBig(s) => s.closed
      /\ BodyType = "body" /\ Discards(s) => ~s.closed
      /\ BodyType = "other" => Discards(s)
      /\ rq.wrapped <=> BodyType = "other"
      /\ BodyType \in {"other", "body", "expectContinueReader"}
  BY <1>0, RequestFields DEF BodyType, Discards, TooBig
<1> HIDE DEF result, copied, t
<1>7. /\ c1 \in Response /\ SameReply(copied, c1) /\ BodyMoves(copied, c1)
      /\ (HasBody => c1.closed)
  BY <1>2, CloseBodyFacts DEF BodyMoves
<1> HIDE DEF c1
<1>8. yes \in Flag /\ yes /\ cut \in Flag
  BY <1>0 DEF Flag
<1>c. cut <=> BodyType = "body" /\ s.closed /\ ~s.sawEOF
  OBVIOUS
<1> HIDE DEF yes, cut
<1>9. c2 \in Response /\ SameOutput(copied, c2) /\ BodyMoves(copied, c2) /\ c2.closeAfterReply
  BY <1>2, <1>8, ZenonT(60) DEF Response, SameOutput, BodyMoves
<1>10. /\ c4 \in Response /\ SameOutput(s, c4) /\ BodyMoves(s, c4)
       /\ c4.closeAfterReply = cut /\ c4.sawEOF = s.sawEOF /\ c4.closed = s.closed
  BY <1>8 DEF Response, SameOutput, BodyMoves
<1> HIDE DEF c2, c4
<1>11. t \in Response /\ SameOutput(s, t) /\ BodyMoves(s, t)
  <2>1. SameOutput(s, c1) /\ BodyMoves(s, c1) /\ SameOutput(s, c2) /\ BodyMoves(s, c2)
    BY <1>2, <1>7, <1>9 DEF SameReply, SameOutput, BodyMoves
  <2>2. SameOutput(s, copied)
    BY <1>2 DEF SameReply
  <2>3. QED
    BY <2>1, <2>2, <1>2, <1>3, <1>4, <1>7, <1>9, <1>10
<1>12. ASSUME HasBody, BodyType # "expectContinueReader", ~TooBig(s), ~t.closeAfterReply
       PROVE  (rq.wrapped => t.closed) /\ (~rq.wrapped => t.sawEOF)
  <2>1. CASE Discards(s) /\ result = "eof"
    BY <2>1, <1>2, <1>4, <1>7, <1>12 DEF BodyMoves
  <2>2. CASE Discards(s) /\ result = "err"
    BY <2>2, <1>4, <1>9, <1>12
  <2>3. CASE Discards(s) /\ result = "nil"
    BY <2>3, <1>5, <1>12
  <2>4. CASE Discards(s) /\ result = "closed"
    BY <2>4, <1>2, <1>4, <1>6, <1>12
  <2>5. CASE ~Discards(s)
    BY <2>5, <1>0, <1>4, <1>6, <1>c, <1>10, <1>12
  <2>6. QED
    BY <2>1, <2>2, <2>3, <2>4, <2>5, <1>3
<1>13. QED
  BY <1>11, <1>12 DEF t

Flushable(s) ==
  /\ s \in Response /\ s.wroteHeader
  /\ WireInv(s, FALSE) /\ StageInv(s, hh.cl) /\ RequestInv(s)
  /\ rq.expect = "other" => hh.conn = "close"

Onward(s, t) ==
  /\ t.wroteHeader = s.wroteHeader /\ t.status = s.status /\ t.written = s.written
  /\ t.buffered = s.buffered /\ t.handlerDone = s.handlerDone
  /\ t.contentLength = s.contentLength \/ (s.contentLength = Unknown /\ s.handlerDone)

(* 100 Continue behind the final header.                                   *)
Late(wire) ==
  \E i, j \in DOMAIN wire : wire[i].t = "100" /\ wire[j].t = "hdr" /\ ~(i < j)

(* From s to t the response moves on as the reader of the body that waits  *)
(* to write 100 Continue must see it: its right to write is not given, and *)
(* a final header that goes out while it has read no io.EOF says that the  *)
(* connection closes.                                                      *)
Forward(s, t) ==
  /\ t.canWriteContinue => s.canWriteContinue
  /\ t.wroteContinue = s.wroteContinue /\ t.ecrSawEOF = s.ecrSawEOF
  /\ s.cwWroteHeader => t.cwWroteHeader /\ (s.closeAfterReply => t.closeAfterReply)
  /\ ~s.cwWroteHeader /\ t.cwWroteHeader /\ BodyType = "expectContinueReader"
       => t.closeAfterReply \/ t.ecrSawEOF
  /\ Late(t.wire) => Late(s.wire)

\* What is appended to the wire makes no 100 Continue late, unless it is one.
LEMMA LateAppend ==
  ASSUME NEW items \in Seq(WireItem), NEW x \in WireItem, x.t # "100"
  PROVE  Late(Append(items, x)) => Late(items)
<1> DEFINE n == Len(items)  t == Append(items, x)
<1>1. /\ n \in Nat /\ DOMAIN items = 1..n /\ DOMAIN t = 1..(n + 1) /\ t[n + 1] = x
      /\ \A i \in 1..n : t[i] = items[i]
  BY AppendProperties
<1> HIDE DEF t, n
<1>2. SUFFICES ASSUME NEW i \in 1..(n + 1), NEW j \in 1..(n + 1),
                      t[i].t = "100", t[j].t = "hdr", ~(i < j)
               PROVE  Late(items)
  BY <1>1 DEF Late, t
<1>3. i # n + 1
  BY <1>1, <1>2
<1>4. i \in 1..n /\ j \in 1..n
  BY <1>1, <1>2, <1>3
<1>5. items[i].t = "100" /\ items[j].t = "hdr"
  BY <1>1, <1>2, <1>4
<1>6. QED
  BY <1>1, <1>2, <1>4, <1>5 DEF Late

\* No step at all moves on, and neither do two steps that do.
LEMMA ForwardTwice ==
  ASSUME NEW s, NEW t, NEW u
  PROVE  Forward(s, s) /\ (Forward(s, t) /\ Forward(t, u) => Forward(s, u))
BY DEF Forward

\* The Connection fields are known ones, and say close when it will close.
LEMMA ConnectionSentFacts ==
  ASSUME rq \in Request, hh \in HandlerHeader, NEW c \in BOOLEAN, NEW b \in BOOLEAN,
         NEW k \in BOOLEAN
  PROVE  /\ ConnectionSent(c, b, k) \subseteq {"close", "keep-alive"}
         /\ (c \/ b) /\ rq.proto = 11 => "close" \in ConnectionSent(c, b, k)
<1>1. hh.conn \in {"", "close", "keep-alive"}
  BY DEF HandlerHeader
<1> DEFINE deleted == c /\ (~keep \/ hh.conn # "close")
           theirs == IF deleted \/ b THEN {} ELSE {hh.conn}
           ours == CASE b \/ (deleted /\ rq.proto >= 11) -> {"close"}
                     [] ~b /\ ~(deleted /\ rq.proto >= 11) /\ k /\ hh.conn = "" -> {"keep-alive"}
                     [] OTHER -> {}
<1>2. ConnectionSent(c, b, k) = (theirs \cup ours) \ {""}
  BY DEF ConnectionSent
<1>3. theirs \subseteq {"", "close", "keep-alive"}
  BY <1>1
<1>4. ours \in {{"close"}, {"keep-alive"}, {}}
  OBVIOUS
<1>5. ASSUME c \/ b, rq.proto = 11 PROVE "close" \in theirs \cup ours
  <2>1. CASE b \/ deleted
    <3>0. b \/ (deleted /\ rq.proto >= 11)
      BY <1>5, <2>1
    <3>1. ours = {"close"}
      BY <3>0
    <3>2. QED
      BY <3>1
  <2>2. CASE ~(b \/ deleted)
    <3>1. hh.conn = "close" /\ theirs = {hh.conn}
      BY <1>5, <2>2
    <3>2. QED
      BY <3>1
  <2>3. QED
    BY <2>1, <2>2
<1> HIDE DEF theirs, ours
<1>6. QED
  BY <1>2, <1>3, <1>4, <1>5

\* writeHeader puts one final header on the wire, one that tells the client
\* what the chunkWriter is going to do, and leaves the rest as it was.
LEMMA PutHeaderFacts ==
  ASSUME rq \in Request, hh \in HandlerHeader, keep \in BOOLEAN, NEW s, Flushable(s),
         ~s.cwWroteHeader, NEW p \in Nat
  PROVE  /\ Flushable(PutHeader(s, p)) /\ Onward(s, PutHeader(s, p))
         /\ PutHeader(s, p).cwWroteHeader
         /\ Amount(PutHeader(s, p).wire) = Amount(s.wire)
         /\ Forward(s, PutHeader(s, p))
<1> DEFINE hasTE   == hh.te # ""
           auto    == AutoLength(s, p)
           length  == IF auto THEN p ELSE s.contentLength
           hasCL   == length # Unknown
           stays10 == Wants10KeepAlive /\ (IsHEAD \/ hasCL \/ ~BodyAllowed(s))
           told    == s.closeAfterReply
                        /\ ~(Wants10KeepAlive /\ keep /\ hh.cl # Unknown /\ hh.conn = "keep-alive")
           close1  == \/ told
                      \/ ~stays10 /\ (rq.proto < 11 \/ rq.conn = "close")
                      \/ hh.conn = "close" \/ ~keep
                      \/ BodyType = "expectContinueReader" /\ ~s.ecrSawEOF
           consume == HasBody /\ ~close1 /\ ~rq.duplex
           tooBig  == consume /\ TooBig(s)
           s1      == [s EXCEPT !.contentLength = length, !.closeAfterReply = close1]
           s2      == IF consume THEN ConsumeBody(s1) ELSE s1
           both    == hasCL /\ hasTE /\ hh.te # "identity"
           bodied  == ~IsHEAD /\ BodyAllowed(s) /\ ~(hasCL /\ ~both)
           identity == bodied /\ rq.proto >= 11 /\ hh.te = "identity"
           chunking == bodied /\ rq.proto >= 11 /\ ~identity
           close2  == s2.closeAfterReply \/ tooBig \/ identity \/ (bodied /\ rq.proto < 11)
           explicit == hh.cl # Unknown /\ BodyAllowed(s) /\ ~both /\ ~chunking
           cls     == IF auto THEN <<p>> ELSE IF explicit THEN <<hh.cl>> ELSE <<>>
           tes     == IF chunking THEN <<"chunked">> ELSE <<>>
           conn    == ConnectionSent(close2, tooBig, stays10)
           h       == [cls |-> cls, tes |-> tes, conn |-> conn, trailer |-> "none"]
           x       == FinalHeader(s.status, h)
           yes     == TRUE
           limit   == s2.bodyLimitHit \/ tooBig
           t       == [s2 EXCEPT !.cwWroteHeader = yes, !.chunking = chunking,
                                 !.closeAfterReply = close2, !.bodyLimitHit = limit,
                                 !.wire = Append(s2.wire, x)]
<1>0. PutHeader(s, p) = t
  BY DEF PutHeader
<1>1. /\ hh.cl \in Nat \cup {Unknown} /\ hh.te \in {"", "identity", "chunked"}
      /\ hh.conn \in {"", "close", "keep-alive"}
  BY DEF HandlerHeader
<1>2. rq.proto \in {10, 11} /\ rq.duplex \in BOOLEAN /\ rq.wrapped \in BOOLEAN
  BY RequestFields
<1>3. /\ s \in Response /\ s.wroteHeader /\ s.contentLength = hh.cl
      /\ s.status \in 0..999 /\ s.wire \in Seq(WireItem) /\ s.ecrSawEOF \in BOOLEAN
      /\ s.closeAfterReply \in BOOLEAN
  BY ResponseFields DEF Flushable, StageInv
<1>4. auto \in BOOLEAN /\ (auto => hh.cl = Unknown /\ hh.te = "" /\ BodyAllowed(s) /\ s.handlerDone)
  BY DEF AutoLength
<1>5. BodyAllowed(s) \in BOOLEAN /\ IsHEAD \in BOOLEAN /\ HasBody \in BOOLEAN
      /\ Wants10KeepAlive \in BOOLEAN /\ TooBig(s) \in BOOLEAN
  BY DEF BodyAllowed, IsHEAD, HasBody, Wants10KeepAlive, TooBig, BodyAllowedForStatus
<1>6. length \in Length /\ (length = s.contentLength \/ (s.contentLength = Unknown /\ s.handlerDone))
  BY <1>1, <1>3, <1>4, ZenonT(60) DEF Length
<1>7. close1 \in Flag /\ stays10 \in BOOLEAN
  BY DEF Flag
(* What is known of the booleans, without their definitions. *)
<1>8. /\ hh.conn = "close" => close1
      /\ ~close1 => keep /\ (BodyType = "expectContinueReader" => s.ecrSawEOF)
  OBVIOUS
<1>9. /\ consume <=> HasBody /\ ~close1 /\ ~rq.duplex
      /\ tooBig <=> consume /\ TooBig(s)
      /\ consume \in BOOLEAN /\ tooBig \in BOOLEAN
  BY <1>5
<1>10. /\ identity => bodied /\ ~chunking
       /\ chunking => bodied /\ rq.proto = 11 /\ ~IsHEAD /\ BodyAllowed(s)
       /\ bodied /\ ~chunking => identity \/ rq.proto < 11
       /\ chunking \in Flag
  <2>1. chunking \in Flag
    BY DEF Flag
  <2>2. (rq.proto >= 11 <=> rq.proto = 11) /\ (rq.proto >= 11 <=> ~(rq.proto < 11))
    BY <1>2
  <2>3. identity => bodied /\ ~chunking
    OBVIOUS
  <2>4. chunking => bodied /\ rq.proto = 11 /\ ~IsHEAD /\ BodyAllowed(s)
    BY <2>2
  <2>5. bodied /\ ~chunking => identity \/ rq.proto < 11
    BY <2>2
  <2>6. QED
    BY <2>1, <2>3, <2>4, <2>5
<1>11. auto => ~bodied
  <2>1. p # Unknown
    BY DEF Unknown
  <2>2. auto => hasCL
    BY <2>1
  <2>3. auto => ~both
    BY <1>4
  <2>4. QED
    BY <2>2, <2>3
<1>12. explicit => hh.cl \in Nat /\ ~chunking
  BY <1>1
<1>13. ~auto /\ ~explicit /\ ~chunking /\ ~IsHEAD /\ BodyAllowed(s) => bodied
  BY <1>3, ZenonT(60)
<1>14. cls = IF auto THEN <<p>> ELSE IF explicit THEN <<hh.cl>> ELSE <<>>
  OBVIOUS
<1>15. tes = IF chunking THEN <<"chunked">> ELSE <<>>
  OBVIOUS
<1>16. ~auto => length = hh.cl
  BY <1>3
<1>17. auto => length = p
  OBVIOUS
<1> HIDE DEF auto, length, stays10, close1, consume, tooBig, both, bodied, identity, chunking,
             explicit, cls, tes
<1>20. s1 \in Response /\ s1.closeAfterReply = close1 /\ s1.contentLength = length
       /\ s1.sawEOF = s.sawEOF /\ s1.closed = s.closed /\ s1.left = s.left
       /\ s1.ecrSawEOF = s.ecrSawEOF
       /\ s1.earlyClose = s.earlyClose /\ s1.wroteContinue = s.wroteContinue
       /\ s1.canWriteContinue = s.canWriteContinue
       /\ s1.wroteHeader = s.wroteHeader /\ s1.status = s.status /\ s1.written = s.written
       /\ s1.buffered = s.buffered /\ s1.handlerDone = s.handlerDone /\ s1.wire = s.wire
  BY <1>3, <1>6, <1>7, ZenonT(60) DEF Response
<1> HIDE DEF s1
<1>21. TooBig(s1) = TooBig(s)
  <2>1. Discards(s1) = Discards(s)
    BY <1>20 DEF Discards
  <2>2. CopyResult(s1, MaxPost + 1) = CopyResult(s, MaxPost + 1)
    BY <1>20 DEF CopyResult
  <2>3. QED
    BY <1>20, <2>1, <2>2 DEF TooBig
<1>22. s1.sawEOF => s1.left = 0
  BY <1>20 DEF Flushable, RequestInv
<1>23. consume => ~s1.closeAfterReply
  BY <1>9, <1>20
<1>24. /\ s2 \in Response /\ SameOutput(s1, s2) /\ BodyMoves(s1, s2)
       /\ ~consume => s2.closeAfterReply = close1
       /\ /\ HasBody /\ ~rq.duplex /\ ~s2.closeAfterReply /\ ~tooBig
          /\ BodyType # "expectContinueReader"
          => (rq.wrapped => s2.closed) /\ (~rq.wrapped => s2.sawEOF)
  <2>1. CASE consume
    <3>1. s2 = ConsumeBody(s1)
      BY <2>1
    <3>2. ~tooBig => ~TooBig(s1)
      BY <1>9, <1>21, <2>1
    <3> HIDE DEF s2
    <3>3. s2 \in Response /\ SameOutput(s1, s2) /\ BodyMoves(s1, s2)
      BY <1>20, <1>22, <1>23, <2>1, <3>1, ConsumeBodyFacts
    <3>4. HasBody /\ BodyType # "expectContinueReader" /\ ~TooBig(s1) /\ ~s2.closeAfterReply
          => (rq.wrapped => s2.closed) /\ (~rq.wrapped => s2.sawEOF)
      BY <1>20, <1>22, <1>23, <2>1, <3>1, ConsumeBodyFacts
    <3>5. QED
      BY <2>1, <3>2, <3>3, <3>4
  <2>2. CASE ~consume
    <3>1. s2 = s1
      BY <2>2
    <3> HIDE DEF s2
    <3>2. SameOutput(s1, s1) /\ BodyMoves(s1, s1)
      BY <1>22 DEF SameOutput, BodyMoves
    <3>3. HasBody /\ ~rq.duplex => close1
      BY <1>9, <2>2
    <3>4. QED
      BY <1>20, <2>2, <3>1, <3>2, <3>3
  <2>3. QED
    BY <2>1, <2>2
<1>25. s2.closeAfterReply \in BOOLEAN /\ s2.bodyLimitHit \in BOOLEAN /\ s2.wire = s.wire
       /\ s2.contentLength = length /\ s2.status = s.status
  BY <1>20, <1>24, ResponseFields DEF SameOutput
<1> HIDE DEF s2
<1>26. /\ close2 <=> s2.closeAfterReply \/ tooBig \/ identity \/ (bodied /\ rq.proto < 11)
       /\ close2 \in Flag /\ limit \in Flag
  BY <1>9, <1>25 DEF Flag
<1> HIDE DEF close2, limit
<1>27. conn \subseteq {"close", "keep-alive"} /\ (close2 /\ rq.proto = 11 => "close" \in conn)
  BY <1>7, <1>9, <1>26, ConnectionSentFacts DEF Flag
<1> HIDE DEF conn
<1>28. cls \in Seq(Nat) /\ tes \in {<<>>, <<"chunked">>}
  BY <1>12, <1>14, <1>15
<1>29. h \in SentHeader /\ h.cls = cls /\ h.tes = tes /\ h.conn = conn
  BY <1>27, <1>28, SMTT(60) DEF SentHeader
<1> HIDE DEF h
<1>30. x \in WireItem /\ x.t = "hdr" /\ x.h = h /\ x.status = s.status
  BY <1>3, <1>29 DEF FinalHeader, WireItem
<1>31. Append(s2.wire, x) \in Wire
  BY <1>3, <1>25, <1>30 DEF Wire
<1> HIDE DEF x
<1>32. yes \in Flag /\ yes
  BY DEF Flag
<1> HIDE DEF yes
<1>33. /\ t \in Response /\ t.cwWroteHeader /\ t.chunking = chunking
       /\ t.closeAfterReply = close2 /\ t.wire = Append(s.wire, x) /\ t.contentLength = length
       /\ t.wroteHeader = s.wroteHeader /\ t.status = s.status /\ t.written = s.written
       /\ t.buffered = s.buffered /\ t.handlerDone = s.handlerDone
       /\ t.sawEOF = s2.sawEOF /\ t.closed = s2.closed /\ t.left = s2.left
       /\ t.ecrSawEOF = s.ecrSawEOF /\ t.wroteContinue = s.wroteContinue
       /\ t.canWriteContinue = s.canWriteContinue
       /\ t.earlyClose => s.earlyClose \/ HasBody
  <2>1. /\ t \in Response /\ t.cwWroteHeader = yes /\ t.chunking = chunking
        /\ t.closeAfterReply = close2 /\ t.wire = Append(s2.wire, x)
        /\ t.contentLength = s2.contentLength
        /\ t.wroteHeader = s2.wroteHeader /\ t.status = s2.status /\ t.written = s2.written
        /\ t.buffered = s2.buffered /\ t.handlerDone = s2.handlerDone
        /\ t.sawEOF = s2.sawEOF /\ t.closed = s2.closed /\ t.left = s2.left
        /\ t.ecrSawEOF = s2.ecrSawEOF /\ t.earlyClose = s2.earlyClose
        /\ t.wroteContinue = s2.wroteContinue /\ t.canWriteContinue = s2.canWriteContinue
    BY <1>10, <1>24, <1>26, <1>31, <1>32, ZenonT(60) DEF Response
  <2> HIDE DEF t
  <2>2. QED
    BY <2>1, <1>20, <1>24, <1>25, <1>32 DEF SameOutput, BodyMoves
<1> HIDE DEF t
<1>34. BodyAllowed(t) = BodyAllowed(s)
  BY <1>33 DEF BodyAllowed
<1>35. HeaderTells(t, x)
  <2>1. t.chunking => rq.proto = 11 /\ ~IsHEAD /\ BodyAllowed(t) /\ x.h.cls = <<>>
    BY <1>10, <1>11, <1>12, <1>14, <1>29, <1>30, <1>33, <1>34
  <2>2. x.h.cls # <<>> => t.contentLength \in Nat /\ x.h.cls = <<t.contentLength>>
    <3>1. CASE auto
      BY <3>1, <1>14, <1>17, <1>29, <1>30, <1>33
    <3>2. CASE ~auto /\ explicit
      BY <3>2, <1>12, <1>14, <1>16, <1>29, <1>30, <1>33
    <3>3. CASE ~auto /\ ~explicit
      BY <3>3, <1>14, <1>29, <1>30
    <3>4. QED
      BY <3>1, <3>2, <3>3
  <2>3. x.h.cls = <<>> /\ ~t.chunking => IsHEAD \/ ~BodyAllowed(t) \/ t.closeAfterReply
    <3>1. cls = <<>> => ~auto /\ ~explicit
      BY <1>14
    <3>2. bodied /\ ~chunking => close2
      BY <1>10, <1>26
    <3>3. QED
      BY <1>13, <1>29, <1>30, <1>33, <1>34, <3>1, <3>2
  <2>4. t.closeAfterReply /\ rq.proto = 11 => "close" \in x.h.conn
    BY <1>27, <1>29, <1>30, <1>33
  <2>5. x.h.tes = IF t.chunking THEN <<"chunked">> ELSE <<>>
    BY <1>15, <1>29, <1>30, <1>33
  <2>6. x.status = t.status
    BY <1>30, <1>33
  <2>7. QED
    BY <2>1, <2>2, <2>3, <2>4, <2>5, <2>6 DEF HeaderTells
<1>36. WireInv(t, FALSE)
  <2> DEFINE n == Len(s.wire)
  <2>1. /\ n \in Nat /\ Len(t.wire) = n + 1 /\ t.wire[n + 1] = x
        /\ \A i \in 1..n : t.wire[i] = s.wire[i]
    BY <1>3, <1>30, <1>33, AppendProperties
  <2>2. \A i \in 1..n : s.wire[i].t \in Info
    BY DEF Flushable, WireInv
  <2> HIDE DEF n
  <2>3. \A i \in 1..(n + 1 - 1) : t.wire[i].t \in Info
    BY <2>1, <2>2
  <2>4. (n + 1 + 1)..Len(t.wire) = {} /\ n + 1 \in 1..Len(t.wire)
    BY <2>1
  <2>b. t.wire[n + 1].t = "hdr" /\ HeaderTells(t, t.wire[n + 1])
    BY <1>30, <1>35, <2>1
  <2>5. HeaderAt(t, n + 1, FALSE)
    <3> DEFINE k == n + 1
    <3>1. \A i \in 1..(k - 1) : t.wire[i].t \in Info
      BY <2>1, <2>3
    <3>2. \A i \in (k + 1)..Len(t.wire) : Behind(t, i, FALSE)
      BY <2>4
    <3>3. t.wire[k].t = "hdr" /\ HeaderTells(t, t.wire[k])
      BY <2>b
    <3> HIDE DEF k
    <3>4. HeaderAt(t, k, FALSE)
      BY <3>1, <3>2, <3>3 DEF HeaderAt
    <3>5. QED
      BY <3>4 DEF k
  <2>6. QED
    BY <1>33, <2>4, <2>5 DEF WireInv
<1>37. StageInv(t, hh.cl)
  <2>1. ~BodyAllowed(t) => t.written = 0 /\ t.buffered = 0
    BY <1>33, <1>34 DEF Flushable, StageInv
  <2>2. rq.expect = "other" => t.closeAfterReply
    <3>1. rq.expect = "other" => close1 /\ ~consume
      BY <1>8, <1>9 DEF Flushable
    <3>2. QED
      BY <3>1, <1>24, <1>26, <1>33
  <2>3. QED
    BY <2>1, <2>2, <1>3, <1>33 DEF StageInv
<1>38. RequestInv(t)
  <2>0. t.earlyClose => HasBody
    BY <1>33 DEF Flushable, RequestInv
  <2>1. t.sawEOF => t.left = 0
    BY <1>24, <1>33 DEF BodyMoves
  <2>2. t.ecrSawEOF => t.sawEOF
    BY <1>20, <1>24, <1>33 DEF BodyMoves, Flushable, RequestInv
  <2>3. ASSUME HasBody, ~rq.duplex, ~t.closeAfterReply
        PROVE  (rq.wrapped => t.closed) /\ (~rq.wrapped => t.sawEOF)
    <3>1. ~s2.closeAfterReply /\ ~tooBig /\ ~close1
      BY <2>3, <1>9, <1>24, <1>26, <1>33
    <3>2. CASE BodyType # "expectContinueReader"
      BY <2>3, <3>1, <3>2, <1>24, <1>33
    <3>3. CASE BodyType = "expectContinueReader"
      <4>1. ~rq.wrapped
        BY <3>3, <1>2 DEF BodyType
      <4>2. t.ecrSawEOF
        BY <3>1, <3>3, <1>8, <1>33
      <4>3. QED
        BY <4>1, <4>2, <2>2
    <3>4. QED
      BY <3>2, <3>3
  <2>4. QED
    BY <2>0, <2>1, <2>2, <2>3 DEF RequestInv
<1>39. Onward(s, t)
  BY <1>6, <1>33 DEF Onward
<1>40. Amount(t.wire) = Amount(s.wire)
  <2>1. BodyBytes(x) = 0
    BY <1>30 DEF BodyBytes
  <2>2. Amount(Append(s.wire, x)) = Amount(s.wire) + 0
    BY <1>3, <1>30, <2>1, AmountAppend
  <2>3. Amount(s.wire) \in Nat
    BY <1>3, AmountType
  <2>4. QED
    BY <1>33, <2>2, <2>3
<1>41. Flushable(t)
  BY <1>33, <1>3, <1>36, <1>37, <1>38, ZenonT(60) DEF Flushable
<1>42. Forward(s, t)
  <2>1. BodyType = "expectContinueReader" => t.closeAfterReply \/ t.ecrSawEOF
    <3>1. close1 => close2
      BY <1>9, <1>24, <1>26
    <3>2. QED
      BY <3>1, <1>8, <1>33
  <2>2. Late(t.wire) => Late(s.wire)
    BY <1>3, <1>30, <1>33, LateAppend
  <2>3. QED
    BY <2>1, <2>2, <1>33 DEF Forward
<1>43. QED
  BY <1>0, <1>33, <1>39, <1>40, <1>41, <1>42

-----------------------------------------------------------------------------
(* The wire *)

SameHead(s, t) ==
  /\ t.status = s.status /\ t.chunking = s.chunking /\ t.contentLength = s.contentLength
  /\ t.closeAfterReply = s.closeAfterReply /\ t.cwWroteHeader = s.cwWroteHeader

\* Counting more bytes as written changes nothing on the wire.
LEMMA WrittenGrows ==
  ASSUME NEW s \in Response, NEW t \in Response, SameHead(s, t), t.wire = s.wire,
         s.written <= t.written, WireInv(s, FALSE)
  PROVE  WireInv(t, FALSE)
<1>1. s.written \in Nat /\ t.written \in Nat
  BY ResponseFields
<1>2. BodyAllowed(t) = BodyAllowed(s) /\ BodyTag(t) = BodyTag(s) /\ (s.written > 0 => t.written > 0)
  BY <1>1 DEF SameHead, BodyAllowed, BodyTag
<1>3. \A x : HeaderTells(s, x) => HeaderTells(t, x)
  BY <1>2 DEF SameHead, HeaderTells
<1>4. \A i : Behind(s, i, FALSE) => Behind(t, i, FALSE)
  BY <1>2 DEF SameHead, Behind
<1>5. \A k : HeaderAt(s, k, FALSE) => HeaderAt(t, k, FALSE)
  BY <1>3, <1>4 DEF HeaderAt
<1>6. QED
  BY <1>5 DEF WireInv, SameHead

\* An item that may stand there is put at the end of the wire.
LEMMA ItemGoesOut ==
  ASSUME NEW s \in Response, NEW t \in Response, SameHead(s, t), NEW x \in WireItem,
         t.wire = Append(s.wire, x), t.written = s.written, WireInv(s, FALSE),
         ~s.cwWroteHeader => x.t \in Info,
         s.cwWroteHeader => \/ x.t = "100"
                            \/ x.t = BodyTag(s) /\ ~IsHEAD /\ BodyAllowed(s) /\ s.written > 0
  PROVE  WireInv(t, FALSE) /\ Amount(t.wire) = Amount(s.wire) + BodyBytes(x)
<1> DEFINE n == Len(s.wire)
<1>0. s.wire \in Seq(WireItem)
  BY ResponseFields
<1>1. /\ n \in Nat /\ Len(t.wire) = n + 1 /\ t.wire[n + 1] = x
      /\ \A i \in 1..n : t.wire[i] = s.wire[i]
  BY <1>0, AppendProperties
<1> HIDE DEF n
<1>2. Amount(t.wire) = Amount(s.wire) + BodyBytes(x)
  BY <1>0, AmountAppend
<1>3. BodyAllowed(t) = BodyAllowed(s) /\ BodyTag(t) = BodyTag(s)
  BY DEF SameHead, BodyAllowed, BodyTag
<1>4. ASSUME ~t.cwWroteHeader, NEW i \in 1..Len(t.wire) PROVE t.wire[i].t \in Info
  <2>1. ~s.cwWroteHeader /\ (i \in 1..n \/ i = n + 1)
    BY <1>1, <1>4 DEF SameHead
  <2>2. \A j \in 1..n : s.wire[j].t \in Info
    BY <2>1 DEF WireInv, n
  <2>3. QED
    BY <1>1, <2>1, <2>2
<1>5. ASSUME t.cwWroteHeader PROVE \E k \in 1..Len(t.wire) : HeaderAt(t, k, FALSE)
  <2>0. s.cwWroteHeader
    BY <1>5 DEF SameHead
  <2>1. PICK k \in 1..n : HeaderAt(s, k, FALSE)
    BY <2>0 DEF WireInv, n
  <2>2. k \in 1..Len(t.wire) /\ t.wire[k] = s.wire[k]
    BY <1>1
  <2>3. t.wire[k].t = "hdr" /\ HeaderTells(t, t.wire[k])
    <3>1. s.wire[k].t = "hdr" /\ HeaderTells(s, s.wire[k])
      BY <2>1 DEF HeaderAt
    <3>2. HeaderTells(t, s.wire[k])
      BY <3>1, <1>3 DEF HeaderTells, SameHead
    <3>3. QED
      BY <2>2, <3>1, <3>2
  <2>4. \A i \in 1..(k - 1) : t.wire[i].t \in Info
    <3>1. \A i \in 1..(k - 1) : s.wire[i].t \in Info
      BY <2>1 DEF HeaderAt
    <3>2. \A i \in 1..(k - 1) : i \in 1..n
      BY <1>1
    <3>3. QED
      BY <1>1, <3>1, <3>2
  <2>5. \A i \in (k + 1)..Len(t.wire) : Behind(t, i, FALSE)
    <3> TAKE i \in (k + 1)..Len(t.wire)
    <3>1. CASE i = n + 1
      <4>1. t.wire[i] = x
        BY <1>1, <3>1
      <4>2. QED
        BY <2>0, <4>1, <1>3 DEF Behind
    <3>2. CASE i # n + 1
      <4>1. i \in (k + 1)..n /\ i \in 1..n
        BY <1>1, <3>2
      <4>2. Behind(s, i, FALSE)
        BY <2>1, <4>1 DEF HeaderAt, n
      <4>3. t.wire[i] = s.wire[i]
        BY <1>1, <4>1
      <4>4. QED
        BY <1>3, <4>2, <4>3 DEF Behind
    <3>3. QED
      BY <3>1, <3>2
  <2>6. HeaderAt(t, k, FALSE)
    BY <2>3, <2>4, <2>5 DEF HeaderAt
  <2>7. QED
    BY <2>2, <2>6
<1>6. QED
  BY <1>2, <1>4, <1>5 DEF WireInv

\* cw.writeHeader is done at most once.
LEMMA HeaderOutFacts ==
  ASSUME rq \in Request, hh \in HandlerHeader, keep \in BOOLEAN, NEW s, Flushable(s),
         NEW p \in Nat
  PROVE  /\ Flushable(HeaderOut(s, p)) /\ Onward(s, HeaderOut(s, p))
         /\ HeaderOut(s, p).cwWroteHeader
         /\ Amount(HeaderOut(s, p).wire) = Amount(s.wire)
         /\ Forward(s, HeaderOut(s, p))
<1>1. CASE s.cwWroteHeader
  BY <1>1, ForwardTwice DEF HeaderOut, Onward
<1>2. CASE ~s.cwWroteHeader
  BY <1>2, PutHeaderFacts DEF HeaderOut
<1>3. QED
  BY <1>1, <1>2

\* chunkWriter.Write: the header if it is still to be written, then the bytes.
LEMMA PutFacts ==
  ASSUME rq \in Request, hh \in HandlerHeader, keep \in BOOLEAN, NEW s, Flushable(s),
         NEW p \in Nat, p > 0 => BodyAllowed(s) /\ s.written > 0
  PROVE  /\ Flushable(Put(s, p)) /\ Onward(s, Put(s, p)) /\ Put(s, p).cwWroteHeader
         /\ Amount(Put(s, p).wire) = Amount(s.wire) + (IF IsHEAD THEN 0 ELSE p)
         /\ Forward(s, Put(s, p))
<1> DEFINE s1 == HeaderOut(s, p)
           tag == IF s1.chunking THEN "chunk" ELSE "data"
           x == Item(tag, p)
           t == [s1 EXCEPT !.wire = Append(s1.wire, x)]
<1>1. /\ Flushable(s1) /\ Onward(s, s1) /\ s1.cwWroteHeader
      /\ Amount(s1.wire) = Amount(s.wire) /\ Forward(s, s1)
  BY HeaderOutFacts
<1>2. s1 \in Response /\ s1.wire \in Seq(WireItem) /\ Amount(s1.wire) \in Nat
  BY <1>1, ResponseFields, AmountType DEF Flushable
<1> HIDE DEF s1
<1>3. CASE IsHEAD \/ p = 0
  <2>1. Put(s, p) = s1
    BY <1>3 DEF Put, s1
  <2>2. Amount(s1.wire) = Amount(s.wire) + (IF IsHEAD THEN 0 ELSE p)
    BY <1>1, <1>2, <1>3
  <2>3. QED
    BY <1>1, <2>1, <2>2
<1>4. CASE ~IsHEAD /\ p # 0
  <2>1. Put(s, p) = t
    BY <1>4 DEF Put, s1
  <2>2. tag \in {"chunk", "data"} /\ tag = BodyTag(s1)
    BY DEF BodyTag
  <2> HIDE DEF tag
  <2>3. x \in WireItem /\ x.t = tag /\ BodyBytes(x) = p
    BY <2>2 DEF Item, WireItem, NoHeader, BodyBytes
  <2> HIDE DEF x
  <2>4. Append(s1.wire, x) \in Wire
    BY <1>2, <2>3 DEF Wire
  <2>5. /\ t \in Response /\ SameHead(s1, t) /\ t.wire = Append(s1.wire, x)
        /\ t.written = s1.written /\ t.wroteHeader = s1.wroteHeader
        /\ t.buffered = s1.buffered /\ t.handlerDone = s1.handlerDone
        /\ t.sawEOF = s1.sawEOF /\ t.left = s1.left /\ t.ecrSawEOF = s1.ecrSawEOF
        /\ t.earlyClose = s1.earlyClose
        /\ t.closed = s1.closed /\ t.wroteContinue = s1.wroteContinue
        /\ t.canWriteContinue = s1.canWriteContinue
    BY <1>2, <2>4 DEF Response, SameHead
  <2> HIDE DEF t
  <2>6. BodyAllowed(s1) /\ s1.written > 0
    BY <1>1, <1>4 DEF Onward, BodyAllowed
  <2>7. WireInv(t, FALSE) /\ Amount(t.wire) = Amount(s1.wire) + p
    <3>1. WireInv(s1, FALSE)
      BY <1>1 DEF Flushable
    <3>2. x.t = BodyTag(s1) /\ ~IsHEAD /\ BodyAllowed(s1) /\ s1.written > 0
      BY <1>4, <2>2, <2>3, <2>6
    <3>3. QED
      BY <1>1, <1>2, <2>3, <2>5, <3>1, <3>2, ItemGoesOut
  <2>8. BodyAllowed(t) = BodyAllowed(s1)
    BY <2>5 DEF SameHead, BodyAllowed
  <2>9. StageInv(t, hh.cl)
    BY <1>1, <2>5, <2>8 DEF Flushable, StageInv, SameHead
  <2>10. RequestInv(t)
    BY <1>1, <2>5 DEF Flushable, RequestInv, SameHead
  <2>11. Flushable(t)
    BY <1>1, <2>5, <2>7, <2>9, <2>10 DEF Flushable
  <2>12. Onward(s, t) /\ t.cwWroteHeader
    BY <1>1, <2>5 DEF Onward, SameHead
  <2>13. Forward(s, t)
    <3>1. x.t # "100"
      BY <2>2, <2>3
    <3>2. Late(t.wire) => Late(s1.wire)
      BY <1>2, <2>3, <2>5, <3>1, LateAppend
    <3>3. Forward(s1, t)
      BY <1>1, <2>5, <3>2 DEF Forward, SameHead
    <3>4. QED
      BY <1>1, <3>3, ForwardTwice
  <2>14. QED
    BY <1>1, <1>4, <2>1, <2>7, <2>11, <2>12, <2>13
<1>5. QED
  BY <1>3, <1>4

\* The buffer of response.w holds any number of bytes it has room for.
LEMMA Rebuffered ==
  ASSUME NEW s, Flushable(s), NEW n \in 0..BufSize, n > 0 => BodyAllowed(s)
  PROVE  LET t == [s EXCEPT !.buffered = n]
         IN  /\ Flushable(t) /\ t.buffered = n /\ t.wire = s.wire /\ t.written = s.written
             /\ t.contentLength = s.contentLength /\ t.status = s.status
             /\ t.cwWroteHeader = s.cwWroteHeader /\ t.handlerDone = s.handlerDone
             /\ Forward(s, t)
<1> DEFINE t == [s EXCEPT !.buffered = n]
<1>1. s \in Response /\ n \in Held
  BY DEF Flushable, Held
<1>2. /\ t \in Response /\ SameHead(s, t) /\ t.wire = s.wire /\ t.written = s.written
      /\ t.buffered = n /\ t.handlerDone = s.handlerDone /\ t.wroteHeader = s.wroteHeader
      /\ t.sawEOF = s.sawEOF /\ t.left = s.left /\ t.ecrSawEOF = s.ecrSawEOF
      /\ t.earlyClose = s.earlyClose
      /\ t.closed = s.closed /\ t.wroteContinue = s.wroteContinue
      /\ t.canWriteContinue = s.canWriteContinue
  BY <1>1 DEF Response, SameHead
<1> HIDE DEF t
<1>3. s.written \in Nat
  BY <1>1, ResponseFields
<1>4. WireInv(t, FALSE)
  <2>1. s.written <= t.written
    BY <1>2, <1>3
  <2>2. QED
    BY <1>1, <1>2, <2>1, WrittenGrows DEF Flushable
<1>5. BodyAllowed(t) = BodyAllowed(s)
  BY <1>2 DEF SameHead, BodyAllowed
<1>6. ~BodyAllowed(s) => n = 0
  OBVIOUS
<1>7. StageInv(t, hh.cl)
  BY <1>2, <1>5, <1>6 DEF Flushable, StageInv, SameHead
<1>8. RequestInv(t)
  BY <1>2 DEF Flushable, RequestInv, SameHead
<1>9. Flushable(t)
  BY <1>2, <1>4, <1>7, <1>8 DEF Flushable
<1>10. Forward(s, t)
  BY <1>2 DEF Forward, SameHead
<1>11. QED
  BY <1>2, <1>9, <1>10 DEF t, SameHead

\* The account of the bytes holds when they move on, out of the write or the
\* buffer towards the wire.
LEMMA CountedOnward ==
  ASSUME NEW s \in Response, NEW t \in Response, NEW d \in Nat, NEW e \in Nat,
         Counted(s, d), t.written = s.written,
         t.contentLength = s.contentLength \/ s.contentLength = Unknown,
         t.buffered + e <= s.buffered + d,
         ~IsHEAD => Amount(t.wire) + t.buffered + e = Amount(s.wire) + s.buffered + d
  PROVE  Counted(t, e)
<1>1. /\ s.written \in Nat /\ s.buffered \in Nat /\ t.buffered \in Nat
      /\ s.wire \in Seq(WireItem) /\ t.wire \in Seq(WireItem)
  BY ResponseFields, ResponseAssumption, SMTT(60)
<1>2. Amount(s.wire) \in Nat /\ Amount(t.wire) \in Nat
  BY <1>1, AmountType
<1>3. t.buffered + e <= t.written
  <2>1. s.buffered + d <= s.written
    BY DEF Counted
  <2>2. QED
    BY <1>1, <2>1, SMTT(60)
<1>4. ASSUME ~IsHEAD, t.contentLength = Unknown \/ t.written <= t.contentLength
      PROVE  Amount(t.wire) + t.buffered + e = t.written
  <2>1. s.contentLength = Unknown \/ s.written <= s.contentLength
    BY <1>4
  <2>2. Amount(s.wire) + s.buffered + d = s.written
    BY <1>4, <2>1 DEF Counted
  <2>3. QED
    BY <1>4, <2>2
<1>5. QED
  BY <1>3, <1>4 DEF Counted

\* bufio.Writer.Flush empties the buffer onto the wire.
LEMMA BufFlushFacts ==
  ASSUME rq \in Request, hh \in HandlerHeader, keep \in BOOLEAN, NEW s, Flushable(s),
         Counted(s, 0)
  PROVE  /\ Flushable(BufFlush(s)) /\ BufFlush(s).buffered = 0
         /\ Counted(BufFlush(s), 0) /\ BufFlush(s).handlerDone = s.handlerDone
         /\ Forward(s, BufFlush(s))
<1>1. s \in Response
  BY DEF Flushable
<1>2. s.buffered \in Nat /\ s.written \in Nat /\ s.wire \in Seq(WireItem)
  BY <1>1, ResponseFields, ResponseAssumption
<1>3. CASE s.buffered = 0
  BY <1>3, ForwardTwice DEF BufFlush
<1>4. CASE s.buffered # 0
  <2> DEFINE u == Put(s, s.buffered)
             t == [u EXCEPT !.buffered = 0]
  <2>1. BufFlush(s) = t
    BY <1>4 DEF BufFlush
  <2>2. BodyAllowed(s) /\ s.written > 0
    <3>1. BodyAllowed(s)
      BY <1>4 DEF Flushable, StageInv
    <3>2. s.buffered + 0 <= s.written
      BY DEF Counted
    <3>3. QED
      BY <1>2, <1>4, <3>1, <3>2
  <2>3. /\ Flushable(u) /\ Onward(s, u)
        /\ Amount(u.wire) = Amount(s.wire) + (IF IsHEAD THEN 0 ELSE s.buffered)
        /\ Forward(s, u)
    BY <1>2, <2>2, PutFacts
  <2> HIDE DEF u
  <2>4. /\ Flushable(t) /\ t.buffered = 0 /\ t.wire = u.wire /\ t.written = u.written
        /\ t.contentLength = u.contentLength /\ t.handlerDone = u.handlerDone
        /\ Forward(u, t)
    <3>1. 0 \in 0..BufSize
      BY ResponseAssumption
    <3>2. QED
      BY <2>3, <3>1, Rebuffered
  <2> HIDE DEF t
  <2>5. Counted(t, 0)
    <3>1. t \in Response /\ t.written = s.written
          /\ (t.contentLength = s.contentLength \/ s.contentLength = Unknown)
      BY <2>3, <2>4 DEF Onward, Flushable
    <3>2. t.buffered + 0 <= s.buffered + 0
      BY <1>2, <2>4
    <3>3. Amount(s.wire) \in Nat
      BY <1>2, AmountType
    <3>4. ~IsHEAD => Amount(t.wire) + t.buffered + 0 = Amount(s.wire) + s.buffered + 0
      BY <1>2, <2>3, <2>4, <3>3
    <3>5. QED
      BY <1>1, <3>1, <3>2, <3>4, CountedOnward
  <2>6. Forward(s, t)
    BY <2>3, <2>4, ForwardTwice
  <2>7. QED
    BY <2>1, <2>3, <2>4, <2>5, <2>6 DEF Onward
<1>5. QED
  BY <1>3, <1>4

\* bufio.Writer.Write takes n bytes: into the buffer, past it, or both.
LEMMA BufWriteFacts ==
  ASSUME rq \in Request, hh \in HandlerHeader, keep \in BOOLEAN, NEW s, Flushable(s),
         NEW n \in Nat \ {0}, Counted(s, n), BodyAllowed(s)
  PROVE  /\ Flushable(BufWrite(s, n)) /\ Counted(BufWrite(s, n), 0)
         /\ BufWrite(s, n).handlerDone = s.handlerDone /\ Forward(s, BufWrite(s, n))
<1>1. s \in Response
  BY DEF Flushable
<1>2. /\ s.buffered \in 0..BufSize /\ s.written \in Nat /\ s.wire \in Seq(WireItem)
      /\ BufSize \in Nat \ {0} /\ Amount(s.wire) \in Nat /\ s.buffered \in Nat
  BY <1>1, ResponseFields, AmountType, ResponseAssumption
<1>3. s.written > 0
  <2>1. s.buffered + n <= s.written
    BY DEF Counted
  <2>2. QED
    BY <1>2, <2>1
<1>4. CASE s.buffered + n <= BufSize
  <2> DEFINE m == s.buffered + n
             t == [s EXCEPT !.buffered = m]
  <2>0. s.buffered + n \in Nat /\ ~(s.buffered + n > BufSize)
    BY <1>2, <1>4
  <2>1. BufWrite(s, n) = t
    BY <1>4, <2>0 DEF BufWrite
  <2>2. m \in 0..BufSize /\ m = s.buffered + n
    BY <1>2, <1>4
  <2> HIDE DEF m
  <2>3. /\ Flushable(t) /\ t.buffered = m /\ t.wire = s.wire /\ t.written = s.written
        /\ t.contentLength = s.contentLength /\ t.handlerDone = s.handlerDone
        /\ Forward(s, t)
    BY <2>2, Rebuffered
  <2> HIDE DEF t
  <2>4. Counted(t, 0)
    <3>1. t \in Response
      BY <2>3 DEF Flushable
    <3>2. t.buffered + 0 <= s.buffered + n
      BY <1>2, <2>2, <2>3
    <3>3. Amount(t.wire) + t.buffered + 0 = Amount(s.wire) + s.buffered + n
      BY <1>2, <2>2, <2>3, SMTT(60)
    <3>4. QED
      BY <1>1, <2>3, <3>1, <3>2, <3>3, CountedOnward
  <2>5. QED
    BY <2>1, <2>3, <2>4
<1>5. CASE s.buffered + n > BufSize /\ s.buffered = 0
  <2> DEFINE t == Put(s, n)
  <2>1. BufWrite(s, n) = t
    BY <1>2, <1>5 DEF BufWrite
  <2>2. /\ Flushable(t) /\ Onward(s, t)
        /\ Amount(t.wire) = Amount(s.wire) + (IF IsHEAD THEN 0 ELSE n) /\ Forward(s, t)
    BY <1>3, PutFacts
  <2> HIDE DEF t
  <2>3. Counted(t, 0)
    <3>1. t \in Response /\ t.written = s.written /\ t.buffered = 0
          /\ (t.contentLength = s.contentLength \/ s.contentLength = Unknown)
      BY <1>5, <2>2 DEF Onward, Flushable
    <3>2. t.buffered + 0 <= s.buffered + n
      BY <1>2, <3>1
    <3>3. ~IsHEAD => Amount(t.wire) + t.buffered + 0 = Amount(s.wire) + s.buffered + n
      BY <1>2, <1>5, <2>2, <3>1
    <3>4. QED
      BY <1>1, <3>1, <3>2, <3>3, CountedOnward
  <2>4. QED
    BY <2>1, <2>2, <2>3 DEF Onward
<1>6. CASE s.buffered + n > BufSize /\ s.buffered # 0
  <2> DEFINE u == Put(s, BufSize)
             full == [u EXCEPT !.buffered = 0]
             rest == s.buffered + n - BufSize
             t1 == Put(full, rest)
             t2 == [full EXCEPT !.buffered = rest]
             t == IF rest > BufSize THEN t1 ELSE t2
  <2>1. BufWrite(s, n) = t
    BY <1>2, <1>6, SMTT(60) DEF BufWrite
  <2>2. rest \in Nat /\ rest + BufSize = s.buffered + n /\ rest > 0
    BY <1>2, <1>6, SMTT(60)
  <2>3. /\ Flushable(u) /\ Onward(s, u)
        /\ Amount(u.wire) = Amount(s.wire) + (IF IsHEAD THEN 0 ELSE BufSize)
        /\ Forward(s, u)
    BY <1>2, <1>3, PutFacts
  <2> HIDE DEF u, rest
  <2>4. /\ Flushable(full) /\ full.buffered = 0 /\ full.wire = u.wire /\ full.written = u.written
        /\ full.contentLength = u.contentLength /\ full.handlerDone = u.handlerDone
        /\ full.status = u.status /\ Forward(u, full)
    <3>1. 0 \in 0..BufSize /\ (0 > 0 => BodyAllowed(u))
      BY ResponseAssumption
    <3>2. Flushable(u)
      BY <2>3
    <3>3. QED
      BY <3>1, <3>2, Rebuffered
  <2> HIDE DEF full
  <2>5. /\ full.written = s.written /\ full.handlerDone = s.handlerDone
        /\ full.contentLength = s.contentLength \/ s.contentLength = Unknown
        /\ BodyAllowed(full) /\ full \in Response
        /\ Amount(full.wire) = Amount(s.wire) + (IF IsHEAD THEN 0 ELSE BufSize)
    BY <2>3, <2>4 DEF Onward, BodyAllowed, Flushable
  <2>f. Forward(s, full)
    BY <2>3, <2>4, ForwardTwice
  <2>6. Counted(full, rest)
    <3>1. full.buffered + rest <= s.buffered + n
      BY <1>2, <2>2, <2>4
    <3>2. ASSUME ~IsHEAD
          PROVE  Amount(full.wire) + full.buffered + rest = Amount(s.wire) + s.buffered + n
      <4>1. Amount(full.wire) = Amount(s.wire) + BufSize /\ full.buffered = 0
        BY <2>4, <2>5, <3>2
      <4>2. QED
        BY <1>2, <2>2, <4>1, SMTT(60)
    <3>3. QED
      BY <1>1, <2>2, <2>5, <3>1, <3>2, CountedOnward
  <2>7. CASE rest > BufSize
    <3>1. t = t1
      BY <2>7
    <3>2. /\ Flushable(t1) /\ Onward(full, t1)
          /\ Amount(t1.wire) = Amount(full.wire) + (IF IsHEAD THEN 0 ELSE rest)
          /\ Forward(full, t1)
      BY <1>3, <2>2, <2>4, <2>5, PutFacts
    <3> HIDE DEF t1, t
    <3>3. Counted(t1, 0)
      <4>1. t1 \in Response /\ t1.written = full.written /\ t1.buffered = 0
            /\ (t1.contentLength = full.contentLength \/ full.contentLength = Unknown)
        BY <2>4, <3>2 DEF Onward, Flushable
      <4>2. t1.buffered + 0 <= full.buffered + rest
        BY <2>2, <2>4, <4>1
      <4>3. Amount(full.wire) \in Nat
        BY <1>2, <2>5
      <4>4. ~IsHEAD => Amount(t1.wire) + t1.buffered + 0 = Amount(full.wire) + full.buffered + rest
        BY <2>2, <2>4, <3>2, <4>1, <4>3
      <4>5. QED
        BY <2>2, <2>5, <2>6, <4>1, <4>2, <4>4, CountedOnward
    <3>4. Forward(s, t1)
      BY <2>f, <3>2, ForwardTwice
    <3>5. QED
      BY <2>1, <2>5, <3>1, <3>2, <3>3, <3>4 DEF Onward
  <2>8. CASE ~(rest > BufSize)
    <3>1. t = t2
      BY <2>8
    <3>2. rest \in 0..BufSize
      BY <1>2, <2>2, <2>8
    <3>3. /\ Flushable(t2) /\ t2.buffered = rest /\ t2.wire = full.wire
          /\ t2.written = full.written
          /\ t2.contentLength = full.contentLength /\ t2.handlerDone = full.handlerDone
          /\ Forward(full, t2)
      BY <2>4, <2>5, <3>2, Rebuffered
    <3> HIDE DEF t2, t
    <3>4. Counted(t2, 0)
      <4>1. t2 \in Response
        BY <3>3 DEF Flushable
      <4>2. t2.buffered + 0 <= full.buffered + rest
        BY <2>2, <2>4, <3>3
      <4>3. Amount(full.wire) \in Nat
        BY <1>2, <2>5
      <4>4. Amount(t2.wire) + t2.buffered + 0 = Amount(full.wire) + full.buffered + rest
        BY <2>2, <2>4, <3>3, <4>3
      <4>5. QED
        BY <2>2, <2>5, <2>6, <3>3, <4>1, <4>2, <4>4, CountedOnward
    <3>5. Forward(s, t2)
      BY <2>f, <3>3, ForwardTwice
    <3>6. QED
      BY <2>1, <2>5, <3>1, <3>3, <3>4, <3>5
  <2>9. QED
    BY <2>7, <2>8
<1>7. QED
  BY <1>2, <1>4, <1>5, <1>6

-----------------------------------------------------------------------------
(* The response from WriteHeader to finishRequest *)

(* What is true of a response before finishRequest.                        *)
Open(s) == WireInv(s, FALSE) /\ StageInv(s, hh.cl) /\ RequestInv(s) /\ Counted(s, 0)

\* WriteHeader settles the status and the Content-Length; nothing is sent.
LEMMA SetStatusFacts ==
  ASSUME hh \in HandlerHeader, NEW s \in Response, NEW code \in Status, Open(s)
  PROVE  /\ SetStatus(s, code) \in Response /\ SetStatus(s, code).wroteHeader
         /\ Open(SetStatus(s, code))
         /\ SetStatus(s, code).handlerDone = s.handlerDone
         /\ SetStatus(s, code).cwWroteHeader = s.cwWroteHeader
         /\ Forward(s, SetStatus(s, code))
<1> USE DEF Open
<1>1. CASE s.wroteHeader
  BY <1>1, ForwardTwice DEF SetStatus
<1>2. CASE ~s.wroteHeader
  <2> DEFINE yes == TRUE
             length == IF hh.cl >= 0 THEN hh.cl ELSE Unknown
             t == [s EXCEPT !.wroteHeader = yes, !.status = code, !.contentLength = length]
  <2>1. SetStatus(s, code) = t
    BY <1>2 DEF SetStatus
  <2>2. hh.cl \in Nat \cup {Unknown}
    BY DEF HandlerHeader
  <2>3. length = hh.cl /\ length \in Length
    BY <2>2 DEF Unknown, Length
  <2>4. yes \in Flag /\ yes
    BY DEF Flag
  <2>5. /\ s.contentLength = Unknown /\ s.written = 0 /\ s.buffered = 0 /\ ~s.cwWroteHeader
    BY <1>2 DEF StageInv
  <2> HIDE DEF yes, length
  <2>6. /\ t \in Response /\ t.wroteHeader = yes /\ t.contentLength = length
        /\ t.written = s.written /\ t.buffered = s.buffered /\ t.wire = s.wire
        /\ t.cwWroteHeader = s.cwWroteHeader /\ t.handlerDone = s.handlerDone
        /\ t.sawEOF = s.sawEOF /\ t.left = s.left /\ t.ecrSawEOF = s.ecrSawEOF
        /\ t.earlyClose = s.earlyClose /\ t.wroteContinue = s.wroteContinue
        /\ t.canWriteContinue = s.canWriteContinue
    BY <2>3, <2>4, ZenonT(60) DEF Response
  <2> HIDE DEF t
  <2>7. WireInv(t, FALSE)
    BY <2>5, <2>6 DEF WireInv
  <2>8. StageInv(t, hh.cl)
    BY <2>3, <2>4, <2>5, <2>6 DEF StageInv
  <2>9. RequestInv(t)
    BY <2>5, <2>6 DEF RequestInv
  <2>10. Counted(t, 0)
    <3>1. s.wire \in Seq(WireItem)
      BY ResponseFields
    <3>2. Amount(s.wire) \in Nat
      BY <3>1, AmountType
    <3>3. ~IsHEAD => Amount(s.wire) = 0
      <4>1. ~IsHEAD => Amount(s.wire) + s.buffered + 0 = s.written
        BY <2>5 DEF Counted
      <4>2. QED
        BY <2>5, <3>2, <4>1
    <3>4. QED
      BY <2>5, <2>6, <3>3 DEF Counted
  <2>11. Forward(s, t)
    BY <2>5, <2>6 DEF Forward
  <2>12. QED
    BY <2>1, <2>4, <2>6, <2>7, <2>8, <2>9, <2>10, <2>11
<1>3. QED
  BY <1>1, <1>2

\* The last chunk closes the body.
LEMMA ChunksEnd ==
  ASSUME NEW s \in Response, NEW t \in Response, s.cwWroteHeader, SameHead(s, t),
         t.written = s.written, WireInv(s, FALSE),
         t.wire = IF s.chunking THEN Append(s.wire, Item("end", 0)) ELSE s.wire
  PROVE  WireInv(t, TRUE) /\ Amount(t.wire) = Amount(s.wire)
<1> DEFINE n == Len(s.wire)  x == Item("end", 0)
<1>0. s.wire \in Seq(WireItem)
  BY ResponseFields
<1>1. x \in WireItem /\ x.t = "end" /\ BodyBytes(x) = 0
  BY DEF Item, WireItem, NoHeader, BodyBytes
<1>2. Amount(t.wire) = Amount(s.wire)
  <2>1. Amount(Append(s.wire, x)) = Amount(s.wire) + 0
    BY <1>0, <1>1, AmountAppend
  <2>2. Amount(s.wire) \in Nat
    BY <1>0, AmountType
  <2>3. QED
    BY <2>1, <2>2
<1>3. BodyAllowed(t) = BodyAllowed(s) /\ BodyTag(t) = BodyTag(s)
  BY DEF SameHead, BodyAllowed, BodyTag
<1>4. /\ n \in Nat /\ \A i \in 1..n : t.wire[i] = s.wire[i]
      /\ s.chunking => Len(t.wire) = n + 1 /\ t.wire[n + 1] = x
      /\ ~s.chunking => Len(t.wire) = n
  <2>1. CASE s.chunking
    BY <2>1, <1>0, <1>1, AppendProperties
  <2>2. CASE ~s.chunking
    BY <2>2, <1>0
  <2>3. QED
    BY <2>1, <2>2
<1>5. PICK k \in 1..n : HeaderAt(s, k, FALSE)
  BY DEF WireInv
<1>6. \A i \in (k + 1)..n : Behind(s, i, FALSE)
  BY <1>5 DEF HeaderAt
<1> HIDE DEF n, x
<1>7. k \in 1..Len(t.wire) /\ t.wire[k] = s.wire[k]
  BY <1>4
<1>8. t.wire[k].t = "hdr" /\ HeaderTells(t, t.wire[k])
  <2>1. s.wire[k].t = "hdr" /\ HeaderTells(s, s.wire[k])
    BY <1>5 DEF HeaderAt
  <2>2. HeaderTells(t, s.wire[k])
    BY <2>1, <1>3 DEF HeaderTells, SameHead
  <2>3. QED
    BY <1>7, <2>1, <2>2
<1>9. \A i \in 1..(k - 1) : t.wire[i].t \in Info
  <2>1. \A i \in 1..(k - 1) : s.wire[i].t \in Info
    BY <1>5 DEF HeaderAt
  <2>2. \A i \in 1..(k - 1) : i \in 1..n
    BY <1>4
  <2>3. QED
    BY <1>4, <2>1, <2>2
<1>10. \A i \in (k + 1)..Len(t.wire) : Behind(t, i, TRUE)
  <2> TAKE i \in (k + 1)..Len(t.wire)
  <2>1. CASE i \in (k + 1)..n
    <3>0. i \in 1..n
      BY <1>4, <2>1
    <3>1. Behind(s, i, FALSE) /\ t.wire[i] = s.wire[i]
      BY <1>4, <1>6, <2>1, <3>0
    <3>2. QED
      BY <1>3, <3>1 DEF Behind
  <2>2. CASE i \notin (k + 1)..n
    <3>1. s.chunking /\ i = n + 1 /\ i = Len(t.wire)
      BY <1>4, <2>2
    <3>2. t.wire[i].t = "end" /\ t.chunking
      BY <1>1, <1>4, <3>1 DEF SameHead
    <3>3. QED
      BY <3>1, <3>2 DEF Behind
  <2>3. QED
    BY <2>1, <2>2
<1>11. t.chunking => t.wire[Len(t.wire)].t = "end"
  BY <1>1, <1>4 DEF SameHead
<1>12. HeaderAt(t, k, TRUE)
  BY <1>8, <1>9, <1>10, <1>11 DEF HeaderAt
<1>13. WireInv(t, TRUE)
  BY <1>7, <1>12 DEF WireInv, SameHead
<1>14. QED
  BY <1>2, <1>13

\* What is true of a response that finishRequest is done with.
Finished(s) ==
  /\ s \in Response /\ s.wroteHeader /\ s.cwWroteHeader /\ s.buffered = 0
  /\ WireInv(s, TRUE) /\ StageInv(s, hh.cl) /\ RequestInv(s) /\ Counted(s, 0)

\* chunkWriter.close writes the header if nothing did, and the last chunk.
LEMMA CloseChunksFacts ==
  ASSUME rq \in Request, hh \in HandlerHeader, keep \in BOOLEAN, NEW s, Flushable(s),
         s.buffered = 0, Counted(s, 0)
  PROVE  Finished(CloseChunks(s)) /\ Forward(s, CloseChunks(s))
<1> DEFINE u == HeaderOut(s, 0)
           x == Item("end", 0)
           t == IF u.chunking THEN [u EXCEPT !.wire = Append(u.wire, x)] ELSE u
<1>1. CloseChunks(s) = t
  BY DEF CloseChunks
<1>2. /\ Flushable(u) /\ Onward(s, u) /\ u.cwWroteHeader /\ Amount(u.wire) = Amount(s.wire)
      /\ Forward(s, u)
  BY HeaderOutFacts
<1> HIDE DEF u
<1>3. u \in Response /\ u.wire \in Seq(WireItem) /\ s \in Response
  BY <1>2, ResponseFields DEF Flushable
<1>4. x \in WireItem /\ x.t # "100"
  BY DEF Item, WireItem, NoHeader
<1>5. Append(u.wire, x) \in Wire
  BY <1>3, <1>4 DEF Wire
<1>6. /\ t \in Response /\ SameHead(u, t) /\ t.written = u.written /\ t.buffered = u.buffered
      /\ t.wroteHeader = u.wroteHeader /\ t.sawEOF = u.sawEOF /\ t.left = u.left
      /\ t.ecrSawEOF = u.ecrSawEOF /\ t.earlyClose = u.earlyClose /\ t.closed = u.closed
      /\ t.wroteContinue = u.wroteContinue /\ t.canWriteContinue = u.canWriteContinue
      /\ t.wire = IF u.chunking THEN Append(u.wire, x) ELSE u.wire
  BY <1>3, <1>5 DEF Response, SameHead
<1> HIDE DEF t
<1>7. WireInv(t, TRUE) /\ Amount(t.wire) = Amount(u.wire)
  <2>1. WireInv(u, FALSE)
    BY <1>2 DEF Flushable
  <2>2. QED
    BY <1>2, <1>3, <1>6, <2>1, ChunksEnd
<1>8. BodyAllowed(t) = BodyAllowed(u)
  BY <1>6 DEF SameHead, BodyAllowed
<1>9. StageInv(t, hh.cl)
  BY <1>2, <1>6, <1>8 DEF Flushable, StageInv, SameHead
<1>10. RequestInv(t)
  BY <1>2, <1>6 DEF Flushable, RequestInv, SameHead
<1>11. Counted(t, 0)
  <2>1. /\ t.written = s.written /\ t.buffered = s.buffered /\ Amount(t.wire) = Amount(s.wire)
        /\ t.contentLength = s.contentLength \/ s.contentLength = Unknown
    BY <1>2, <1>6, <1>7 DEF Onward, SameHead
  <2>2. s.buffered + 0 <= s.buffered + 0
    BY <1>3, ResponseFields
  <2>3. QED
    BY <1>3, <1>6, <2>1, <2>2, CountedOnward
<1>12. Finished(t)
  BY <1>1, <1>2, <1>6, <1>7, <1>9, <1>10, <1>11 DEF Finished, Flushable, Onward, SameHead
<1>13. Forward(s, t)
  <2>1. Late(t.wire) => Late(u.wire)
    BY <1>3, <1>4, <1>6, LateAppend
  <2>2. Forward(u, t)
    BY <1>2, <1>6, <2>1 DEF Forward, SameHead
  <2>3. QED
    BY <1>2, <2>2, ForwardTwice
<1>14. QED
  BY <1>1, <1>12, <1>13

\* finishRequest, from a response that the handler is done with.
LEMMA FinishFacts ==
  ASSUME rq \in Request, hh \in HandlerHeader, keep \in BOOLEAN, NEW s \in Response, Open(s),
         rq.expect = "other" => hh.conn = "close"
  PROVE  LET t == CloseBody(CloseChunks(BufFlush(SetStatus(s, 200))))
         IN  Finished(t) /\ (HasBody => t.closed) /\ Forward(s, t)
<1> DEFINE s1 == SetStatus(s, 200)
           s2 == BufFlush(s1)
           s3 == CloseChunks(s2)
           t  == CloseBody(s3)
<1>0. 200 \in Status
  BY DEF Status
<1>a. s1 \in Response /\ s1.wroteHeader /\ Open(s1) /\ Forward(s, s1)
  BY <1>0, SetStatusFacts
<1>1. Flushable(s1) /\ Counted(s1, 0)
  BY <1>a DEF Flushable, Open
<1> HIDE DEF s1
<1>2. Flushable(s2) /\ s2.buffered = 0 /\ Counted(s2, 0) /\ Forward(s1, s2)
  BY <1>1, BufFlushFacts
<1> HIDE DEF s2
<1>3. Finished(s3) /\ Forward(s2, s3)
  BY <1>2, CloseChunksFacts
<1> HIDE DEF s3
<1>4. s3 \in Response /\ RequestInv(s3)
  BY <1>3 DEF Finished
<1>5. /\ t \in Response /\ SameReply(s3, t) /\ BodyMoves(s3, t) /\ (HasBody => t.closed)
  BY <1>4, CloseBodyFacts DEF RequestInv
<1> HIDE DEF t
<1>6. RequestInv(t)
  BY <1>4, <1>5, BodyMovesKeeps
<1>7. WireInv(t, TRUE) /\ StageInv(t, hh.cl) /\ Counted(t, 0)
  BY <1>3, <1>5, SameReplyKeeps DEF Finished
<1>8. Finished(t)
  BY <1>3, <1>5, <1>6, <1>7 DEF Finished, SameReply, SameOutput
<1>9. Forward(s3, t)
  BY <1>5 DEF Forward, SameReply, SameOutput, BodyMoves
<1>10. Forward(s, t)
  <2>1. Forward(s, s2)
    BY <1>a, <1>2, ForwardTwice
  <2>2. Forward(s, s3)
    BY <1>3, <2>1, ForwardTwice
  <2>3. QED
    BY <1>9, <2>2, ForwardTwice
<1>11. QED
  BY <1>5, <1>8, <1>10 DEF t, s3, s2, s1

-----------------------------------------------------------------------------
(* The inductive invariant *)

Ended == pc \in {"decide", "reuse", "closed"}

TypeInv ==
  /\ rq \in Request /\ hh \in HandlerHeader /\ w \in Response
  /\ pc \in {"serve", "handler", "write", "finish", "decide", "reuse", "closed"}
  /\ rpc \in {"idle", "continue", "read"} /\ keep \in BOOLEAN

IInv ==
  /\ TypeInv
  /\ ~Ended => Open(w)
  /\ Ended => Finished(w) /\ (HasBody => w.closed)
  /\ pc = "serve" => ~w.wroteHeader
  /\ rq.expect = "other" /\ pc # "serve" => hh.conn = "close" /\ pc \notin {"handler", "write"}
  /\ pc \notin {"handler", "write"} => rpc = "idle"
  /\ rpc # "idle" => HasBody
  /\ pc = "reuse" => ShouldReuseConnection(w) /\ rq.expect # "other"
  /\ pc = "closed" => ~ShouldReuseConnection(w) \/ rq.expect = "other" \/ ~keep

\* What is known of the new response, said of w in the next state.
LEMMA NextResponse ==
  ASSUME NEW s, w' = s, rq' = rq
  PROVE  /\ s \in Response => (w \in Response)'
         /\ WireInv(s, FALSE) => WireInv(w, FALSE)'
         /\ WireInv(s, TRUE) => WireInv(w, TRUE)'
         /\ StageInv(s, hh'.cl) => StageInv(w, hh.cl)'
         /\ RequestInv(s) => RequestInv(w)'
         /\ Counted(s, 0) => Counted(w, 0)'
<1>0. IsHEAD' = IsHEAD /\ HasBody' = HasBody
  BY DEF IsHEAD, HasBody
<1>1. BodyAllowed(w)' = BodyAllowed(s) /\ BodyTag(w)' = BodyTag(s)
  BY DEF BodyAllowed, BodyTag
<1>2. s \in Response => (w \in Response)'
  BY DEF Response, Left
<1>3. \A x : HeaderTells(s, x) = HeaderTells(w, x)'
  BY <1>0, <1>1 DEF HeaderTells
<1>4. \A i : (Behind(s, i, FALSE) = Behind(w, i, FALSE)') /\ (Behind(s, i, TRUE) = Behind(w, i, TRUE)')
  BY <1>0, <1>1 DEF Behind
<1>5. \A k : (HeaderAt(s, k, FALSE) = HeaderAt(w, k, FALSE)') /\ (HeaderAt(s, k, TRUE) = HeaderAt(w, k, TRUE)')
  BY <1>3, <1>4 DEF HeaderAt
<1>6. (WireInv(s, FALSE) => WireInv(w, FALSE)') /\ (WireInv(s, TRUE) => WireInv(w, TRUE)')
  BY <1>5 DEF WireInv
<1>7. StageInv(s, hh'.cl) => StageInv(w, hh.cl)'
  BY <1>1 DEF StageInv
<1>8. RequestInv(s) => RequestInv(w)'
  BY <1>0 DEF RequestInv
<1>9. Counted(s, 0) => Counted(w, 0)'
  BY <1>0 DEF Counted
<1>10. QED
  BY <1>2, <1>6, <1>7, <1>8, <1>9

\* A response that is open in the next state.
LEMMA NextOpen ==
  ASSUME NEW s, w' = s, rq' = rq, hh'.cl = hh.cl, s \in Response, Open(s)
  PROVE  (w \in Response)' /\ Open(w)'
BY NextResponse DEF Open

\* A response that is finished in the next state.
LEMMA NextFinished ==
  ASSUME NEW s, w' = s, rq' = rq, hh'.cl = hh.cl, Finished(s)
  PROVE  Finished(w)'
<1>1. (w \in Response)' /\ WireInv(w, TRUE)' /\ StageInv(w, hh.cl)' /\ RequestInv(w)' /\ Counted(w, 0)'
  BY NextResponse DEF Finished
<1>2. w'.wroteHeader /\ w'.cwWroteHeader /\ w'.buffered = 0
  BY DEF Finished
<1>3. QED
  BY <1>1, <1>2 DEF Finished

\* A step of the handler or its reader, before finishRequest.
LEMMA StepWhileOpen ==
  ASSUME IInv, NEW s \in Response, Open(s), w' = s, rq' = rq, hh'.cl = hh.cl, keep' = keep,
         hh' \in HandlerHeader,
         pc' \in {"handler", "write", "finish"}, rpc' \in {"idle", "continue", "read"},
         rq.expect # "other", pc' = "finish" => rpc' = "idle", rpc' # "idle" => HasBody
  PROVE  IInv'
<1>1. (w \in Response)' /\ Open(w)'
  BY NextOpen
<1>2. TypeInv'
  BY <1>1 DEF IInv, TypeInv
<1>3. HasBody' = HasBody
  BY DEF HasBody
<1>4. QED
  BY <1>1, <1>2, <1>3 DEF IInv, Ended

\* A fresh response: nothing on the wire, nothing written, nothing read.
LEMMA InitIInv == Init => IInv
<1> SUFFICES ASSUME Init PROVE IInv
  OBVIOUS
<1>1. rq \in Request /\ hh \in HandlerHeader
  BY ResponseAssumption DEF Init
<1> DEFINE yes == TRUE  no == FALSE
<1>2. w = [wroteHeader |-> no, status |-> 0, contentLength |-> Unknown, written |-> 0,
           closeAfterReply |-> no, bodyLimitHit |-> no, handlerDone |-> no,
           canWriteContinue |-> no, wroteContinue |-> no, ecrSawEOF |-> no,
           cwWroteHeader |-> no, chunking |-> no, buffered |-> 0, wire |-> <<>>,
           left |-> rq.n, sawEOF |-> no, closed |-> no, earlyClose |-> no]
  BY DEF Init
<1>3. no \in Flag /\ ~no
  BY DEF Flag
<1>4. /\ 0 \in Status /\ Unknown \in Length /\ 0 \in Held /\ <<>> \in Wire /\ rq.n \in Left
  <2>1. rq.n \in Nat
    BY <1>1, RequestFields
  <2>2. 0 \in Status /\ Unknown \in Length
    BY DEF Status, Length
  <2>3. 0 \in Held
    BY ResponseAssumption DEF Held
  <2>4. <<>> \in Wire
    BY DEF Wire
  <2>5. rq.n \in Left
    BY <2>1 DEF Left
  <2>6. QED
    BY <2>2, <2>3, <2>4, <2>5
<1> HIDE DEF no
<1>5. /\ w \in Response
      /\ ~w.wroteHeader /\ ~w.cwWroteHeader /\ w.contentLength = Unknown /\ w.written = 0
      /\ w.buffered = 0 /\ w.wire = <<>> /\ ~w.sawEOF /\ ~w.ecrSawEOF /\ ~w.earlyClose
  BY <1>2, <1>3, <1>4 DEF Response
<1>6. Open(w)
  <2>1. WireInv(w, FALSE)
    <3>1. \A i \in 1..Len(w.wire) : w.wire[i].t \in Info
      BY <1>5
    <3>2. QED
      BY <1>5, <3>1 DEF WireInv
  <2>2. StageInv(w, hh.cl)
    BY <1>5 DEF StageInv
  <2>3. RequestInv(w)
    BY <1>5 DEF RequestInv
  <2>4. Counted(w, 0)
    BY <1>5, AmountEmpty DEF Counted
  <2>5. QED
    BY <2>1, <2>2, <2>3, <2>4 DEF Open
<1>7. QED
  BY <1>1, <1>5, <1>6 DEF Init, IInv, TypeInv, Ended

-----------------------------------------------------------------------------
(* One lemma per action *)

\* The invariant's parts, for the steps of the handler.
LEMMA HandlerFacts ==
  ASSUME IInv, pc \in {"handler", "write"}
  PROVE  /\ rq \in Request /\ hh \in HandlerHeader /\ keep \in BOOLEAN
         /\ w \in Response /\ Open(w) /\ rq.expect # "other"
BY DEF IInv, TypeInv, Ended

\* A response open with status set is ready to be flushed.
LEMMA OpenFlushable ==
  ASSUME NEW s \in Response, Open(s), s.wroteHeader, rq.expect # "other"
  PROVE  Flushable(s)
BY DEF Open, Flushable

\* A response ready to be flushed whose bytes are all accounted for is open.
LEMMA FlushableOpen ==
  ASSUME NEW s, Flushable(s), Counted(s, 0)
  PROVE  s \in Response /\ Open(s)
BY DEF Open, Flushable

SameFlow(s, t) ==
  /\ SameReply(s, t)
  /\ t.sawEOF = s.sawEOF /\ t.left = s.left /\ t.closed = s.closed /\ t.ecrSawEOF = s.ecrSawEOF
  /\ t.earlyClose = s.earlyClose

\* A step that changes neither the reply nor the request body stays open.
LEMMA SameFlowOpen ==
  ASSUME NEW s, NEW t, SameFlow(s, t), Open(s)
  PROVE  Open(t)
<1>1. SameReply(s, t)
  BY DEF SameFlow
<1>2. WireInv(t, FALSE) /\ StageInv(t, hh.cl) /\ Counted(t, 0)
  BY <1>1, SameReplyKeeps DEF Open
<1>3. RequestInv(t)
  BY <1>1 DEF Open, RequestInv, SameFlow, SameReply, SameOutput
<1>4. QED
  BY <1>2, <1>3 DEF Open

\* conn.serve hands the request over: only canWriteContinue changes.
LEMMA ServeKeeps == ASSUME IInv, Serve PROVE IInv'
<1> DEFINE t == [w EXCEPT !.canWriteContinue = Expecting]
<1>1. w \in Response /\ Open(w) /\ rpc = "idle" /\ hh \in HandlerHeader
  BY DEF IInv, TypeInv, Ended, Serve
<1>2. Expecting \in Flag
  BY DEF Expecting, Flag
<1>3. t \in Response /\ SameFlow(w, t)
  BY <1>1, <1>2 DEF Response, SameFlow, SameReply, SameOutput
<1> HIDE DEF t
<1>4. Open(t)
  BY <1>1, <1>3, SameFlowOpen
<1>5. w' = t
  BY DEF Serve, t
<1>6. QED
  BY <1>1, <1>3, <1>4, <1>5, StepWhileOpen DEF Serve

\* sendExpectationFailed: status 417, no length, Connection: close.
LEMMA SendExpectationFailedKeeps == ASSUME IInv, SendExpectationFailed PROVE IInv'
<1> DEFINE yes == TRUE
           cl == IF hh.cl >= 0 THEN hh.cl ELSE Unknown
           st == 417
           u == [w EXCEPT !.wroteHeader = yes, !.status = st, !.contentLength = cl]
           none == Unknown
           t == [u EXCEPT !.contentLength = none]
<1>1. /\ w \in Response /\ Open(w) /\ rpc = "idle" /\ hh \in HandlerHeader /\ rq \in Request
      /\ keep \in BOOLEAN /\ ~w.wroteHeader /\ rq.expect = "other"
  BY DEF IInv, TypeInv, Ended, SendExpectationFailed
<1>2. yes \in Flag /\ st \in Status /\ none \in Length /\ yes /\ none = Unknown
  BY DEF Flag, Status, Length
<1>a. cl \in Length
  <2>1. hh.cl \in Nat \cup {Unknown}
    BY <1>1 DEF HandlerHeader
  <2>2. QED
    BY <2>1 DEF Length
<1>3. w' = t
  <2>1. SetStatus(w, 417) = u
    BY <1>1 DEF SetStatus
  <2>2. QED
    BY <2>1, ZenonT(60) DEF SendExpectationFailed
<1> HIDE DEF yes, cl, none, st
<1>b. /\ u \in Response /\ u.wroteHeader /\ u.status = st
      /\ u.written = w.written /\ u.buffered = w.buffered /\ u.cwWroteHeader = w.cwWroteHeader
      /\ u.wire = w.wire /\ u.sawEOF = w.sawEOF /\ u.left = w.left /\ u.ecrSawEOF = w.ecrSawEOF
      /\ u.earlyClose = w.earlyClose
  BY <1>1, <1>2, <1>a, ZenonT(60) DEF Response
<1> HIDE DEF u
<1>4. /\ t \in Response /\ t.wroteHeader /\ t.status = st /\ t.contentLength = Unknown
      /\ t.written = w.written /\ t.buffered = w.buffered /\ t.cwWroteHeader = w.cwWroteHeader
      /\ t.wire = w.wire /\ t.sawEOF = w.sawEOF /\ t.left = w.left /\ t.ecrSawEOF = w.ecrSawEOF
      /\ t.earlyClose = w.earlyClose
  BY <1>2, <1>b DEF Response
<1> HIDE DEF t
<1>5. w.contentLength = Unknown /\ w.written = 0 /\ w.buffered = 0 /\ ~w.cwWroteHeader
  BY <1>1 DEF Open, StageInv
<1>6. WireInv(t, FALSE)
  BY <1>1, <1>4, <1>5 DEF Open, WireInv
<1>7. StageInv(t, Unknown)
  BY <1>4, <1>5 DEF StageInv
<1>8. RequestInv(t)
  BY <1>1, <1>4, <1>5 DEF Open, RequestInv
<1>9. Counted(t, 0)
  BY <1>1, <1>4, <1>5 DEF Open, Counted
<1>10. hh' \in HandlerHeader /\ hh'.cl = Unknown /\ hh'.conn = "close"
  <2>1. hh' = [hh EXCEPT !.conn = "close", !.cl = Unknown, !.te = "", !.trailer = FALSE]
    BY DEF SendExpectationFailed
  <2>2. QED
    BY <1>1, <2>1 DEF HandlerHeader
<1>11. rq' = rq /\ pc' = "finish" /\ rpc' = "idle" /\ keep' = keep
  BY <1>1 DEF SendExpectationFailed
<1>12. (w \in Response)' /\ Open(w)'
  BY <1>3, <1>4, <1>6, <1>7, <1>8, <1>9, <1>10, <1>11, NextResponse DEF Open
<1>13. TypeInv'
  BY <1>1, <1>10, <1>11, <1>12 DEF TypeInv
<1>14. QED
  BY <1>10, <1>11, <1>12, <1>13 DEF IInv, Ended

\* WriteHeader: an informational header goes out ahead of the final one, any
\* other status is only remembered.
LEMMA WriteHeaderKeeps ==
  ASSUME IInv, NEW code \in Codes, WriteHeader(code)
  PROVE  IInv'
<1>1. /\ rq \in Request /\ hh \in HandlerHeader /\ w \in Response /\ Open(w)
      /\ rq.expect # "other" /\ pc = "handler" /\ ~w.wroteHeader
  BY HandlerFacts DEF WriteHeader, HandlerCall
<1>2. hh' = hh /\ rq' = rq /\ pc' = "handler" /\ rpc' = rpc /\ keep' = keep
      /\ rpc \in {"idle", "continue", "read"} /\ (rpc # "idle" => HasBody)
  BY <1>1 DEF WriteHeader, HandlerCall, IInv, TypeInv
<1>3. code \in 100..999
  BY ResponseAssumption
<1>4. ASSUME NEW s \in Response, Open(s), w' = s PROVE IInv'
  BY <1>1, <1>2, <1>4, StepWhileOpen
<1>5. CASE Informational(code)
  <2> DEFINE x == Item("1xx", code)
             can == w.canWriteContinue /\ code # 100
             wr == Append(w.wire, x)
             t == [w EXCEPT !.canWriteContinue = can, !.wire = wr]
  <2>1. w' = t
    BY <1>5 DEF WriteHeader
  <2>2. x \in WireItem /\ x.t \in Info
    BY <1>3, SMTT(60) DEF Item, WireItem, Info, NoHeader
  <2>3. can \in Flag
    BY DEF Flag
  <2>4. w.wire \in Seq(WireItem) /\ wr \in Wire
    BY <1>1, <2>2, ResponseFields, AppendProperties DEF Wire
  <2>5. wr = Append(w.wire, x) /\ BodyBytes(x) = 0
    BY DEF BodyBytes, Item
  <2> HIDE DEF x, can, wr
  <2>6. t \in Response /\ SameHead(w, t) /\ t.wire = Append(w.wire, x) /\ t.written = w.written
        /\ t.wroteHeader = w.wroteHeader /\ t.buffered = w.buffered /\ t.sawEOF = w.sawEOF
        /\ t.left = w.left /\ t.ecrSawEOF = w.ecrSawEOF
        /\ t.earlyClose = w.earlyClose /\ t.closed = w.closed
    BY <1>1, <2>3, <2>4, <2>5 DEF Response, SameHead
  <2> HIDE DEF t
  <2>7. ~w.cwWroteHeader
    BY <1>1 DEF Open, StageInv
  <2>8. WireInv(t, FALSE) /\ Amount(t.wire) = Amount(w.wire) + BodyBytes(x)
    BY <1>1, <2>2, <2>6, <2>7, ItemGoesOut DEF Open
  <2>9. Amount(t.wire) = Amount(w.wire)
    BY <2>4, <2>5, <2>8, AmountType
  <2>10. StageInv(t, hh.cl)
    BY <1>1, <2>6 DEF Open, StageInv, SameHead, BodyAllowed
  <2>11. RequestInv(t)
    BY <1>1, <2>6 DEF Open, RequestInv, SameHead
  <2>12. Counted(t, 0)
    BY <1>1, <2>6, <2>9 DEF Open, Counted, SameHead
  <2>13. QED
    BY <1>4, <2>1, <2>6, <2>8, <2>10, <2>11, <2>12 DEF Open
<1>6. CASE ~Informational(code)
  <2>1. w' = SetStatus(w, code)
    BY <1>6 DEF WriteHeader
  <2>2. code \in Status
    BY <1>3 DEF Status
  <2>3. SetStatus(w, code) \in Response /\ Open(SetStatus(w, code))
    BY <1>1, <2>2, SetStatusFacts
  <2>4. QED
    BY <1>4, <2>1, <2>3
<1>7. QED
  BY <1>5, <1>6

\* Write takes the right to write 100 Continue away.
LEMMA StartWriteKeeps == ASSUME IInv, StartWrite PROVE IInv'
<1> DEFINE no == FALSE
           t == [w EXCEPT !.canWriteContinue = no]
<1>1. /\ hh \in HandlerHeader /\ w \in Response /\ Open(w) /\ rq.expect # "other"
      /\ pc = "handler" /\ rpc \in {"idle", "continue", "read"} /\ (rpc # "idle" => HasBody)
  BY HandlerFacts DEF StartWrite, HandlerCall, IInv, TypeInv
<1>2. no \in Flag
  BY DEF Flag
<1>3. w' = t
  BY DEF StartWrite
<1> HIDE DEF no
<1>4. t \in Response /\ SameFlow(w, t)
  BY <1>1, <1>2 DEF Response, SameFlow, SameReply, SameOutput
<1> HIDE DEF t
<1>5. Open(t)
  BY <1>1, <1>4, SameFlowOpen
<1>6. QED
  BY <1>1, <1>3, <1>4, <1>5, StepWhileOpen DEF StartWrite

\* Write: nothing, a refused write that only counts, or bytes for the buffer.
LEMMA WriteKeeps ==
  ASSUME IInv, NEW n \in 0..MaxWrite, Write(n)
  PROVE  IInv' /\ Forward(w, w')
<1> DEFINE s1 == SetStatus(w, 200)
           sum == s1.written + n
           s2 == [s1 EXCEPT !.written = sum]
<1>1. /\ rq \in Request /\ hh \in HandlerHeader /\ keep \in BOOLEAN /\ w \in Response /\ Open(w)
      /\ rq.expect # "other" /\ pc = "write"
  BY HandlerFacts DEF Write
<1>2. hh' = hh /\ rq' = rq /\ pc' = "handler" /\ rpc' = rpc /\ keep' = keep
      /\ rpc \in {"idle", "continue", "read"} /\ (rpc # "idle" => HasBody)
  BY <1>1 DEF Write, IInv, TypeInv
<1>3. n \in Nat
  BY ResponseAssumption
<1>4. ASSUME NEW s \in Response, Open(s), Forward(w, s), w' = s PROVE IInv' /\ Forward(w, w')
  BY <1>1, <1>2, <1>4, StepWhileOpen
<1>5. 200 \in Status
  BY DEF Status
<1>6. s1 \in Response /\ Open(s1) /\ s1.wroteHeader /\ Forward(w, s1)
  BY <1>1, <1>5, SetStatusFacts
<1>7. w' = CASE n = 0 \/ ~BodyAllowed(s1) -> s1
             [] n > 0 /\ BodyAllowed(s1) /\ s1.contentLength \in 0..(sum - 1) -> s2
             [] OTHER -> BufWrite(s2, n)
  <2>1. s2.written = sum
    BY <1>6 DEF Response
  <2>2. QED
    BY <2>1 DEF Write
<1> HIDE DEF s1
<1>8. s1.written \in Nat /\ s1.buffered \in Nat /\ s1.contentLength \in Nat \cup {Unknown}
      /\ Amount(s1.wire) \in Nat
  <2>1. s1.buffered \in 0..BufSize /\ BufSize \in Nat /\ s1.wire \in Seq(WireItem)
    BY <1>6, ResponseFields, ResponseAssumption
  <2>2. QED
    BY <1>6, <2>1, ResponseFields, AmountType
<1>9. sum \in Nat /\ sum = s1.written + n /\ s1.written <= sum
  BY <1>3, <1>8
<1> HIDE DEF sum
<1>10. /\ s2 \in Response /\ SameHead(s1, s2) /\ s2.wire = s1.wire /\ s2.written = sum
       /\ s2.wroteHeader /\ s2.buffered = s1.buffered /\ s2.sawEOF = s1.sawEOF
       /\ s2.left = s1.left /\ s2.ecrSawEOF = s1.ecrSawEOF
       /\ s2.earlyClose = s1.earlyClose /\ s2.closed = s1.closed
       /\ s2.wroteContinue = s1.wroteContinue /\ s2.canWriteContinue = s1.canWriteContinue
  BY <1>6, <1>9 DEF Response, SameHead
<1> HIDE DEF s2
<1>f. Forward(w, s2)
  <2>1. Forward(s1, s2)
    BY <1>10 DEF Forward, SameHead
  <2>2. QED
    BY <1>6, <2>1, ForwardTwice
<1>11. WireInv(s2, FALSE)
  BY <1>6, <1>9, <1>10, WrittenGrows DEF Open
<1>12. RequestInv(s2)
  BY <1>6, <1>10 DEF Open, RequestInv, SameHead
<1>13. BodyAllowed(s2) = BodyAllowed(s1)
  BY <1>10 DEF BodyAllowed, SameHead
<1>14. CASE n = 0 \/ ~BodyAllowed(s1)
  <2>1. w' = s1
    BY <1>7, <1>14
  <2>2. QED
    BY <1>4, <1>6, <2>1
<1>15. CASE n > 0 /\ BodyAllowed(s1)
  <2>1. StageInv(s2, hh.cl)
    BY <1>6, <1>10, <1>13, <1>15 DEF Open, StageInv, SameHead
  <2>2. s1.buffered + 0 <= s1.written
        /\ (~IsHEAD /\ (s1.contentLength = Unknown \/ s1.written <= s1.contentLength)
              => Amount(s1.wire) + s1.buffered + 0 = s1.written)
    BY <1>6 DEF Open, Counted
  <2>3. s2.contentLength = s1.contentLength
    BY <1>10 DEF SameHead
  <2>4. CASE s1.contentLength \in 0..(sum - 1)
    <3>1. w' = s2
      BY <1>7, <1>15, <2>4, <1>3
    <3>2. s2.buffered + 0 <= s2.written
      BY <1>8, <1>9, <1>10, <2>2
    <3>3. ~(s2.contentLength = Unknown \/ s2.written <= s2.contentLength)
      BY <1>9, <1>10, <2>3, <2>4 DEF Unknown
    <3>4. Counted(s2, 0)
      BY <3>2, <3>3 DEF Counted
    <3>5. QED
      BY <1>4, <1>f, <1>10, <1>11, <1>12, <2>1, <3>1, <3>4 DEF Open
  <2>5. CASE s1.contentLength \notin 0..(sum - 1)
    <3>1. w' = BufWrite(s2, n)
      <4>1. ~(n = 0 \/ ~BodyAllowed(s1))
        BY <1>3, <1>15
      <4>2. ~(n > 0 /\ BodyAllowed(s1) /\ s1.contentLength \in 0..(sum - 1))
        BY <2>5
      <4>3. QED
        BY <1>7, <4>1, <4>2
    <3>2. s2.buffered + n <= s2.written
      BY <1>3, <1>8, <1>9, <1>10, <2>2
    <3>3. ASSUME ~IsHEAD, s2.contentLength = Unknown \/ s2.written <= s2.contentLength
          PROVE  Amount(s2.wire) + s2.buffered + n = s2.written
      <4>1. s1.contentLength = Unknown \/ s1.written <= s1.contentLength
        BY <1>8, <1>9, <1>10, <2>3, <3>3 DEF Unknown
      <4>2. Amount(s1.wire) + s1.buffered + 0 = s1.written
        BY <2>2, <3>3, <4>1
      <4>3. QED
        BY <1>3, <1>8, <1>9, <1>10, <4>2
    <3>4. Counted(s2, n)
      BY <3>2, <3>3 DEF Counted
    <3>5. Flushable(s2)
      BY <1>1, <1>10, <1>11, <1>12, <2>1 DEF Flushable
    <3>6. n \in Nat \ {0} /\ BodyAllowed(s2)
      BY <1>3, <1>13, <1>15
    <3>7. /\ Flushable(BufWrite(s2, n)) /\ Counted(BufWrite(s2, n), 0)
          /\ Forward(s2, BufWrite(s2, n))
      BY <1>1, <3>4, <3>5, <3>6, BufWriteFacts
    <3>8. BufWrite(s2, n) \in Response /\ Open(BufWrite(s2, n))
      BY <3>7, FlushableOpen
    <3>9. Forward(w, BufWrite(s2, n))
      BY <1>f, <3>7, ForwardTwice
    <3>10. QED
      BY <1>4, <3>1, <3>8, <3>9
  <2>6. QED
    BY <2>4, <2>5
<1>16. QED
  BY <1>3, <1>14, <1>15

\* Flush: the buffer goes out, behind the header.
LEMMA FlushKeeps == ASSUME IInv, Flush PROVE IInv' /\ Forward(w, w')
<1> DEFINE s1 == SetStatus(w, 200)
           s2 == BufFlush(s1)
           s3 == HeaderOut(s2, 0)
<1>1. /\ rq \in Request /\ hh \in HandlerHeader /\ keep \in BOOLEAN /\ w \in Response /\ Open(w)
      /\ rq.expect # "other" /\ pc = "handler"
  BY HandlerFacts DEF Flush, HandlerCall
<1>2. rpc \in {"idle", "continue", "read"} /\ (rpc # "idle" => HasBody)
  BY DEF IInv, TypeInv
<1>3. w' = s3
  BY DEF Flush
<1>4. 200 \in Status /\ 0 \in Nat
  BY DEF Status
<1>5. s1 \in Response /\ Open(s1) /\ s1.wroteHeader /\ Forward(w, s1)
  BY <1>1, <1>4, SetStatusFacts
<1>6. Flushable(s1) /\ Counted(s1, 0)
  BY <1>1, <1>5, OpenFlushable, ZenonT(60) DEF Open
<1> HIDE DEF s1
<1>7. Flushable(s2) /\ Counted(s2, 0) /\ Forward(s1, s2)
  BY <1>1, <1>6, BufFlushFacts
<1> HIDE DEF s2
<1>8. Flushable(s3) /\ Onward(s2, s3) /\ Amount(s3.wire) = Amount(s2.wire) /\ Forward(s2, s3)
  BY <1>1, <1>4, <1>7, HeaderOutFacts
<1> HIDE DEF s3
<1>9. Counted(s3, 0)
  <2>1. s2 \in Response /\ s3 \in Response
    BY <1>7, <1>8 DEF Flushable
  <2>2. s3.written = s2.written /\ s3.buffered = s2.buffered
        /\ (s3.contentLength = s2.contentLength \/ s2.contentLength = Unknown)
    BY <1>8 DEF Onward
  <2>3. s2.buffered \in 0..BufSize /\ BufSize \in Nat
    BY <2>1, ResponseFields, ResponseAssumption
  <2>4. s3.buffered + 0 <= s2.buffered + 0
    BY <2>2, <2>3
  <2>5. Amount(s3.wire) + s3.buffered + 0 = Amount(s2.wire) + s2.buffered + 0
    BY <1>8, <2>2
  <2>6. QED
    BY <1>4, <1>7, <2>1, <2>2, <2>4, <2>5, CountedOnward
<1>10. s3 \in Response /\ Open(s3)
  BY <1>8, <1>9, FlushableOpen
<1>11. IInv'
  BY <1>1, <1>2, <1>3, <1>10, StepWhileOpen DEF Flush
<1>12. Forward(w, s3)
  <2>1. Forward(w, s2)
    BY <1>5, <1>7, ForwardTwice
  <2>2. QED
    BY <1>8, <2>1, ForwardTwice
<1>13. QED
  BY <1>3, <1>11, <1>12

\* expectContinueReader.Read decides about 100 Continue.
LEMMA StartReadKeeps == ASSUME IInv, StartRead PROVE IInv'
<1> DEFINE continue == Expecting /\ ~w.wroteContinue /\ w.canWriteContinue
           wrote == w.wroteContinue \/ continue
           t == [w EXCEPT !.wroteContinue = wrote]
<1>1. /\ hh \in HandlerHeader /\ w \in Response /\ Open(w) /\ rq.expect # "other"
      /\ pc \in {"handler", "write"} /\ HasBody
  BY HandlerFacts DEF StartRead
<1>2. wrote \in Flag
  BY DEF Flag
<1>3. w' = t /\ rpc' \in {"continue", "read"} /\ pc' = pc /\ rq' = rq /\ hh' = hh /\ keep' = keep
  BY DEF StartRead
<1> HIDE DEF wrote
<1>4. t \in Response /\ SameFlow(w, t)
  BY <1>1, <1>2 DEF Response, SameFlow, SameReply, SameOutput
<1> HIDE DEF t
<1>5. Open(t)
  BY <1>1, <1>4, SameFlowOpen
<1>6. QED
  BY <1>1, <1>3, <1>4, <1>5, StepWhileOpen

\* 100 Continue goes out, perhaps behind the header.
LEMMA WriteContinueKeeps == ASSUME IInv, WriteContinue PROVE IInv'
<1>1. rpc = "continue" /\ pc \in {"handler", "write"} /\ HasBody
  BY DEF WriteContinue, IInv
<1>2. /\ hh \in HandlerHeader /\ w \in Response /\ Open(w) /\ rq.expect # "other"
  BY <1>1, HandlerFacts
<1>3. rpc' = "read" /\ pc' = pc /\ rq' = rq /\ hh' = hh /\ keep' = keep
  BY DEF WriteContinue
<1>4. ASSUME NEW s \in Response, Open(s), w' = s PROVE IInv'
  BY <1>1, <1>2, <1>3, <1>4, StepWhileOpen
<1>5. CASE w.canWriteContinue
  <2> DEFINE x == Item("100", 100)
             no == FALSE
             wr == Append(w.wire, x)
             t == [w EXCEPT !.canWriteContinue = no, !.wire = wr]
  <2>1. w' = t
    BY <1>5 DEF WriteContinue
  <2>2. x \in WireItem /\ x.t = "100" /\ x.t \in Info
    BY DEF Item, WireItem, Info, NoHeader
  <2>3. no \in Flag
    BY DEF Flag
  <2>4. w.wire \in Seq(WireItem) /\ wr \in Wire
    BY <1>2, <2>2, ResponseFields, AppendProperties DEF Wire
  <2>5. wr = Append(w.wire, x) /\ BodyBytes(x) = 0
    BY DEF BodyBytes, Item
  <2> HIDE DEF x, no, wr
  <2>6. t \in Response /\ SameHead(w, t) /\ t.wire = Append(w.wire, x) /\ t.written = w.written
        /\ t.wroteHeader = w.wroteHeader /\ t.buffered = w.buffered /\ t.sawEOF = w.sawEOF
        /\ t.left = w.left /\ t.ecrSawEOF = w.ecrSawEOF
        /\ t.earlyClose = w.earlyClose /\ t.closed = w.closed
    BY <1>2, <2>3, <2>4, <2>5 DEF Response, SameHead
  <2> HIDE DEF t
  <2>7. WireInv(t, FALSE) /\ Amount(t.wire) = Amount(w.wire) + BodyBytes(x)
    BY <1>2, <2>2, <2>6, ItemGoesOut DEF Open
  <2>8. Amount(t.wire) = Amount(w.wire)
    BY <2>4, <2>5, <2>7, AmountType
  <2>9. StageInv(t, hh.cl)
    BY <1>2, <2>6 DEF Open, StageInv, SameHead, BodyAllowed
  <2>10. RequestInv(t)
    BY <1>2, <2>6 DEF Open, RequestInv, SameHead
  <2>11. Counted(t, 0)
    BY <1>2, <2>6, <2>8 DEF Open, Counted, SameHead
  <2>12. QED
    BY <1>4, <2>1, <2>6, <2>7, <2>9, <2>10, <2>11 DEF Open
<1>6. CASE ~w.canWriteContinue
  <2>1. w' = w
    BY <1>6 DEF WriteContinue
  <2>2. QED
    BY <1>2, <1>4, <2>1
<1>7. QED
  BY <1>5, <1>6

\* While the body is still open for reading, either the header is not out, or
\* the reply closes the connection, or the handler asked for full duplex, or the
\* body was read to its end.
LEMMA ReadEarly ==
  ASSUME NEW s \in Response, RequestInv(s), HasBody, ~s.closed
  PROVE  ~s.cwWroteHeader \/ rq.duplex \/ s.closeAfterReply \/ (~rq.wrapped /\ s.sawEOF)
BY DEF RequestInv

\* What the reader takes from the body.
LEMMA BodyReadOpen ==
  ASSUME NEW s \in Response, NEW t \in Response, Open(s), HasBody, ~s.closed,
         SameReply(s, t), t.closed = s.closed, s.sawEOF => t.sawEOF,
         t.sawEOF => t.left = 0, t.ecrSawEOF => t.sawEOF,
         t.earlyClose = s.earlyClose
  PROVE  Open(t)
<1>1. WireInv(t, FALSE) /\ StageInv(t, hh.cl) /\ Counted(t, 0)
  BY SameReplyKeeps DEF Open
<1>2. ~s.cwWroteHeader \/ rq.duplex \/ s.closeAfterReply \/ (~rq.wrapped /\ s.sawEOF)
  BY ReadEarly DEF Open
<1>3. RequestInv(t)
  BY <1>2 DEF Open, RequestInv, SameReply, SameOutput
<1>4. QED
  BY <1>1, <1>3 DEF Open

\* Bytes of the request body, its end, or an error.
LEMMA ReadBodyKeeps == ASSUME IInv, ReadBody PROVE IInv'
<1>1. rpc = "read" /\ pc \in {"handler", "write"} /\ HasBody
  BY DEF ReadBody, IInv
<1>2. /\ rq \in Request /\ hh \in HandlerHeader /\ w \in Response /\ Open(w) /\ rq.expect # "other"
  BY <1>1, HandlerFacts
<1>3. rpc' = "idle" /\ pc' = pc /\ rq' = rq /\ hh' = hh /\ keep' = keep
  BY DEF ReadBody
<1>4. ASSUME NEW s \in Response, Open(s), w' = s PROVE IInv'
  BY <1>1, <1>2, <1>3, <1>4, StepWhileOpen
<1>5. /\ w.left \in Nat /\ w.left <= rq.n /\ rq.n \in Nat /\ rq.ok \in BOOLEAN
      /\ w.sawEOF \in BOOLEAN /\ w.ecrSawEOF \in BOOLEAN
  <2>1. rq.n \in Nat /\ rq.ok \in BOOLEAN
    BY <1>2, RequestFields, Zenon
  <2>2. w.left \in 0..rq.n
    <3>1. w.left \in Left
      BY <1>2 DEF Response
    <3>2. QED
      BY <3>1 DEF Left
  <2>3. QED
    BY <1>2, <2>1, <2>2, ResponseFields
<1>6. (w.sawEOF => w.left = 0) /\ (w.ecrSawEOF => w.sawEOF)
  BY <1>2 DEF Open, RequestInv
<1>7. CASE \E k \in 1..w.left :
             LET eof == rq.ok /\ k = w.left /\ rq.body = "limited"
             IN  ~w.closed /\ w' = [w EXCEPT !.left = w.left - k, !.sawEOF = eof,
                                             !.ecrSawEOF = w.ecrSawEOF \/ (Expecting /\ eof)]
  <2>1. PICK k \in 1..w.left :
             LET eof == rq.ok /\ k = w.left /\ rq.body = "limited"
             IN  ~w.closed /\ w' = [w EXCEPT !.left = w.left - k, !.sawEOF = eof,
                                             !.ecrSawEOF = w.ecrSawEOF \/ (Expecting /\ eof)]
    BY <1>7
  <2> DEFINE eof == rq.ok /\ k = w.left /\ rq.body = "limited"
             rest == w.left - k
             ecr == w.ecrSawEOF \/ (Expecting /\ eof)
             t == [w EXCEPT !.left = rest, !.sawEOF = eof, !.ecrSawEOF = ecr]
  <2>2. ~w.closed /\ w' = t
    BY <2>1
  <2>3. rest \in Left /\ (eof => rest = 0) /\ w.left # 0
    BY <1>5 DEF Left
  <2>4. eof \in Flag /\ ecr \in Flag
    BY <1>5 DEF Flag
  <2>5. ~w.sawEOF /\ (ecr => eof)
    BY <1>5, <1>6, <2>3
  <2> HIDE DEF eof, rest, ecr
  <2>6. /\ t \in Response /\ SameReply(w, t) /\ t.closed = w.closed
        /\ t.sawEOF = eof /\ t.left = rest /\ t.ecrSawEOF = ecr
        /\ t.earlyClose = w.earlyClose
    BY <1>2, <2>3, <2>4 DEF Response, SameReply, SameOutput
  <2> HIDE DEF t
  <2>7. Open(t)
    BY <1>1, <1>2, <2>2, <2>3, <2>5, <2>6, BodyReadOpen
  <2>8. QED
    BY <1>4, <2>2, <2>6, <2>7
<1>8. CASE /\ w.left = 0 /\ rq.ok /\ ~w.closed
           /\ w' = [w EXCEPT !.sawEOF = TRUE, !.ecrSawEOF = Expecting]
  <2> DEFINE yes == TRUE
             t == [w EXCEPT !.sawEOF = yes, !.ecrSawEOF = Expecting]
  <2>1. w' = t /\ w.left = 0 /\ ~w.closed
    BY <1>8
  <2>2. yes \in Flag /\ yes /\ Expecting \in Flag
    BY DEF Flag, Expecting
  <2> HIDE DEF yes
  <2>3. /\ t \in Response /\ SameReply(w, t) /\ t.closed = w.closed
        /\ t.sawEOF = yes /\ t.left = w.left /\ t.earlyClose = w.earlyClose
    BY <1>2, <2>2 DEF Response, SameReply, SameOutput
  <2> HIDE DEF t
  <2>4. Open(t)
    BY <1>1, <1>2, <2>1, <2>2, <2>3, BodyReadOpen
  <2>5. QED
    BY <1>4, <2>1, <2>3, <2>4
<1>9. CASE w' = w
  BY <1>2, <1>4, <1>9
<1>10. QED
  BY <1>7, <1>8, <1>9 DEF ReadBody

\* requestTooLarge withdraws no promise to keep the connection: had the header
\* made one, a wrapped body would be closed.
LEMMA ReadTooLargeKeeps == ASSUME IInv, ReadTooLarge PROVE IInv'
<1> DEFINE yes == TRUE
           rest == w.left - 1
           eof == rq.ok /\ w.left = 1 /\ rq.body = "limited"
           t == [w EXCEPT !.left = rest, !.closeAfterReply = yes, !.bodyLimitHit = yes,
                          !.sawEOF = eof]
<1>1. rpc = "read" /\ pc \in {"handler", "write"} /\ HasBody /\ w.left > 0 /\ ~w.closed /\ rq.wrapped
  BY DEF ReadTooLarge, IInv
<1>2. /\ rq \in Request /\ hh \in HandlerHeader /\ w \in Response /\ Open(w) /\ rq.expect # "other"
  BY <1>1, HandlerFacts
<1>3. rpc' = "idle" /\ pc' = pc /\ rq' = rq /\ keep' = keep
  BY DEF ReadTooLarge
<1>4. hh' \in HandlerHeader /\ hh'.cl = hh.cl
  <2>1. hh' = hh \/ hh' = [hh EXCEPT !.conn = "close"]
    BY DEF ReadTooLarge
  <2>2. QED
    BY <1>2, <2>1 DEF HandlerHeader
<1>5. w' = t
  BY DEF ReadTooLarge
<1>6. w.left \in Nat /\ w.left <= rq.n /\ rq.n \in Nat /\ w.sawEOF \in BOOLEAN
      /\ w.ecrSawEOF \in BOOLEAN
  <2>1. rq.n \in Nat
    BY <1>2, RequestFields, Zenon
  <2>2. w.left \in 0..rq.n
    <3>1. w.left \in Left
      BY <1>2 DEF Response
    <3>2. QED
      BY <3>1 DEF Left
  <2>3. QED
    BY <1>2, <2>1, <2>2, ResponseFields
<1>7. rest \in Left /\ (eof => rest = 0)
  BY <1>1, <1>6 DEF Left
<1>8. yes \in Flag /\ eof \in Flag /\ yes
  <2>1. rq.ok \in BOOLEAN
    BY <1>2, RequestFields
  <2>2. QED
    BY <2>1 DEF Flag
<1>9. ~w.sawEOF /\ ~w.ecrSawEOF
  BY <1>1, <1>2, <1>6 DEF Open, RequestInv
<1>10. ~w.cwWroteHeader \/ rq.duplex \/ w.closeAfterReply
  BY <1>1, <1>2, ReadEarly DEF Open
<1> HIDE DEF yes, rest, eof
<1>11. /\ t \in Response /\ SameOutput(w, t) /\ t.closeAfterReply /\ t.closed = w.closed
       /\ t.sawEOF = eof /\ t.left = rest /\ t.ecrSawEOF = w.ecrSawEOF
       /\ t.earlyClose = w.earlyClose
  BY <1>2, <1>7, <1>8, ZenonT(60) DEF Response, SameOutput
<1> HIDE DEF t
<1>12. BodyAllowed(t) = BodyAllowed(w) /\ BodyTag(t) = BodyTag(w)
  BY <1>11 DEF BodyAllowed, BodyTag, SameOutput
<1>13. WireInv(t, FALSE)
  <2>1. CASE ~w.cwWroteHeader
    BY <1>2, <1>11, <2>1 DEF Open, WireInv, SameOutput
  <2>2. CASE w.cwWroteHeader
    <3>1. PICK k \in 1..Len(w.wire) : HeaderAt(w, k, FALSE)
      BY <1>2, <2>2 DEF Open, WireInv
    <3>2. ASSUME NEW x, HeaderTells(w, x) PROVE HeaderTells(t, x)
      BY <1>10, <1>11, <1>12, <2>2, <3>2 DEF HeaderTells, SameOutput
    <3>3. \A i : Behind(t, i, FALSE) = Behind(w, i, FALSE)
      BY <1>11, <1>12 DEF Behind, SameOutput
    <3>4. HeaderAt(t, k, FALSE)
      BY <1>11, <3>1, <3>2, <3>3 DEF HeaderAt, SameOutput
    <3>5. QED
      BY <1>11, <2>2, <3>4 DEF WireInv, SameOutput
  <2>3. QED
    BY <2>1, <2>2
<1>14. StageInv(t, hh.cl)
  BY <1>2, <1>11, <1>12 DEF Open, StageInv, SameOutput
<1>15. RequestInv(t)
  BY <1>2, <1>7, <1>9, <1>11 DEF Open, RequestInv
<1>16. Counted(t, 0)
  BY <1>2, <1>11 DEF Open, Counted, SameOutput
<1>17. Open(t)
  BY <1>13, <1>14, <1>15, <1>16 DEF Open
<1>18. QED
  BY <1>1, <1>2, <1>3, <1>4, <1>5, <1>11, <1>17, StepWhileOpen

\* The handler closes the request body.
LEMMA CloseRequestBodyKeeps == ASSUME IInv, CloseRequestBody PROVE IInv'
<1> DEFINE t == CloseBody(w)
<1>1. /\ rq \in Request /\ hh \in HandlerHeader /\ w \in Response /\ Open(w)
      /\ rq.expect # "other" /\ pc = "handler"
  BY HandlerFacts DEF CloseRequestBody, HandlerCall
<1>2. w' = t /\ rpc = "idle" /\ rpc' = rpc /\ pc' = pc /\ rq' = rq /\ hh' = hh /\ keep' = keep
  BY DEF CloseRequestBody, HandlerCall
<1>3. RequestInv(w) /\ (w.sawEOF => w.left = 0)
  BY <1>1 DEF Open, RequestInv
<1>4. t \in Response /\ SameReply(w, t) /\ BodyMoves(w, t)
  BY <1>1, <1>3, CloseBodyFacts
<1> HIDE DEF t
<1>5. Open(t)
  <2>1. WireInv(t, FALSE) /\ StageInv(t, hh.cl) /\ Counted(t, 0)
    BY <1>1, <1>4, SameReplyKeeps DEF Open
  <2>2. RequestInv(t)
    BY <1>3, <1>4, BodyMovesKeeps
  <2>3. QED
    BY <2>1, <2>2 DEF Open
<1>6. QED
  BY <1>1, <1>2, <1>4, <1>5, StepWhileOpen

\* The handler returns.
LEMMA HandlerReturnsKeeps == ASSUME IInv, HandlerReturns PROVE IInv'
<1>1. /\ hh \in HandlerHeader /\ w \in Response /\ Open(w) /\ rq.expect # "other"
  BY HandlerFacts DEF HandlerReturns
<1>2. w' = w /\ rpc = "idle" /\ rpc' = rpc /\ pc' = "finish" /\ rq' = rq /\ hh' = hh /\ keep' = keep
  BY DEF HandlerReturns
<1>3. QED
  BY <1>1, <1>2, StepWhileOpen

\* finishRequest: the buffer, the header, the last chunk, then the request body.
LEMMA FinishKeeps == ASSUME IInv, Finish PROVE IInv' /\ Forward(w, w')
<1> DEFINE yes == TRUE
           s == [w EXCEPT !.handlerDone = yes]
           t == CloseBody(CloseChunks(BufFlush(SetStatus(s, 200))))
<1>1. /\ rq \in Request /\ hh \in HandlerHeader /\ keep \in BOOLEAN /\ w \in Response /\ Open(w)
      /\ (rq.expect = "other" => hh.conn = "close") /\ rpc = "idle"
  BY DEF Finish, IInv, TypeInv, Ended
<1>2. w' = t /\ rpc' = rpc /\ pc' = "decide" /\ rq' = rq /\ hh' = hh /\ keep' = keep
  BY DEF Finish
<1>3. yes \in Flag
  BY DEF Flag
<1> HIDE DEF yes
<1>4. /\ s \in Response /\ SameHead(w, s) /\ s.wire = w.wire /\ s.written = w.written
      /\ s.wroteHeader = w.wroteHeader /\ s.buffered = w.buffered /\ s.sawEOF = w.sawEOF
      /\ s.left = w.left /\ s.ecrSawEOF = w.ecrSawEOF
      /\ s.earlyClose = w.earlyClose /\ s.closed = w.closed
      /\ s.wroteContinue = w.wroteContinue /\ s.canWriteContinue = w.canWriteContinue
  BY <1>1, <1>3 DEF Response, SameHead
<1> HIDE DEF s
<1>5. Open(s)
  <2>1. w.written <= s.written
    BY <1>1, <1>4, ResponseFields
  <2>2. WireInv(s, FALSE)
    BY <1>1, <1>4, <2>1, WrittenGrows DEF Open
  <2>3. StageInv(s, hh.cl)
    BY <1>1, <1>4 DEF Open, StageInv, SameHead, BodyAllowed
  <2>4. RequestInv(s)
    BY <1>1, <1>4 DEF Open, RequestInv, SameHead
  <2>5. Counted(s, 0)
    BY <1>1, <1>4 DEF Open, Counted, SameHead
  <2>6. QED
    BY <2>2, <2>3, <2>4, <2>5 DEF Open
<1>6. Finished(t) /\ (HasBody => t.closed) /\ Forward(s, t)
  BY <1>1, <1>4, <1>5, FinishFacts
<1> HIDE DEF t
<1>7. Finished(w)'
  BY <1>2, <1>6, NextFinished
<1>8. (HasBody => w.closed)' /\ (w \in Response)'
  BY <1>2, <1>6, <1>7 DEF Finished, HasBody
<1>9. TypeInv'
  BY <1>1, <1>2, <1>8 DEF TypeInv
<1>10. IInv'
  BY <1>1, <1>2, <1>7, <1>8, <1>9 DEF IInv, Ended
<1>11. Forward(w, s)
  BY <1>4 DEF Forward, SameHead
<1>12. QED
  BY <1>2, <1>6, <1>10, <1>11, ForwardTwice

\* Steps that leave the response alone.
LEMMA SameResponse ==
  ASSUME IInv, w' = w, rq' = rq, hh' = hh
  PROVE  /\ (w \in Response)'
         /\ Open(w) => Open(w)'
         /\ Finished(w) => Finished(w)'
         /\ HasBody' = HasBody
         /\ werr' = werr => ShouldReuseConnection(w)' = ShouldReuseConnection(w)
<1>1. w \in Response
  BY DEF IInv, TypeInv
<1>2. (w \in Response)'
  BY <1>1, NextResponse
<1>3. Open(w) => Open(w)'
  BY <1>1, NextOpen
<1>4. Finished(w) => Finished(w)'
  BY NextFinished
<1>5. HasBody' = HasBody
  BY DEF HasBody
<1>6. werr' = werr => ShouldReuseConnection(w)' = ShouldReuseConnection(w)
  BY DEF ShouldReuseConnection, IsHEAD, BodyAllowed, BodyType, Expecting, HasBody
<1>7. QED
  BY <1>2, <1>3, <1>4, <1>5, <1>6

\* conn.serve keeps the connection or closes it.
LEMMA DecideKeeps == ASSUME IInv, Decide PROVE IInv'
<1>1. /\ pc = "decide" /\ w' = w /\ rq' = rq /\ hh' = hh /\ rpc' = rpc /\ keep' = keep
      /\ werr' = werr /\ pc' \in {"reuse", "closed"}
      /\ pc' = "reuse" => ShouldReuseConnection(w) /\ rq.expect # "other"
      /\ pc' = "closed" => ~ShouldReuseConnection(w) \/ rq.expect = "other" \/ ~keep
  BY DEF Decide
<1>2. /\ (w \in Response)' /\ Finished(w)' /\ HasBody' = HasBody
      /\ ShouldReuseConnection(w)' = ShouldReuseConnection(w)
  BY <1>1, SameResponse DEF IInv, Ended
<1>3. TypeInv'
  BY <1>1, <1>2 DEF IInv, TypeInv
<1>4. QED
  BY <1>1, <1>2, <1>3 DEF IInv, Ended

\* Keep-alives go off at any time.
LEMMA KeepAlivesOffKeeps == ASSUME IInv, KeepAlivesOff PROVE IInv'
<1>1. /\ pc \notin {"reuse", "closed"} /\ w' = w /\ rq' = rq /\ hh' = hh /\ rpc' = rpc
      /\ pc' = pc /\ keep' = FALSE
  BY DEF KeepAlivesOff
<1>2. /\ (w \in Response)' /\ (Open(w) => Open(w)') /\ (Finished(w) => Finished(w)')
      /\ HasBody' = HasBody
  BY <1>1, SameResponse
<1>3. TypeInv'
  BY <1>1, <1>2 DEF IInv, TypeInv
<1>4. QED
  BY <1>1, <1>2, <1>3 DEF IInv, Ended

\* Nothing happens.
LEMMA StutterKeeps == ASSUME IInv, UNCHANGED vars PROVE IInv'
<1>1. /\ w' = w /\ rq' = rq /\ hh' = hh /\ rpc' = rpc /\ pc' = pc /\ keep' = keep
      /\ werr' = werr
  BY DEF vars
<1>2. /\ (w \in Response)' /\ (Open(w) => Open(w)') /\ (Finished(w) => Finished(w)')
      /\ HasBody' = HasBody /\ ShouldReuseConnection(w)' = ShouldReuseConnection(w)
  BY <1>1, SameResponse
<1>3. TypeInv'
  BY <1>1, <1>2 DEF IInv, TypeInv
<1>4. QED
  BY <1>1, <1>2, <1>3 DEF IInv, Ended

\* The response keeps its invariant through every call of the handler and of
\* the server.
THEOREM ResponseInvariant == Spec => []IInv
<1>1. Init => IInv
  BY InitIInv
<1>2. ASSUME IInv, [Next]_vars PROVE IInv'
  <2>1. CASE Serve
    BY <1>2, <2>1, ServeKeeps
  <2>2. CASE SendExpectationFailed
    BY <1>2, <2>2, SendExpectationFailedKeeps
  <2>3. CASE \E code \in Codes : WriteHeader(code)
    BY <1>2, <2>3, WriteHeaderKeeps
  <2>4. CASE StartWrite
    BY <1>2, <2>4, StartWriteKeeps
  <2>5. CASE \E n \in 0..MaxWrite : Write(n)
    BY <1>2, <2>5, WriteKeeps
  <2>6. CASE Flush
    BY <1>2, <2>6, FlushKeeps
  <2>7. CASE StartRead
    BY <1>2, <2>7, StartReadKeeps
  <2>8. CASE WriteContinue
    BY <1>2, <2>8, WriteContinueKeeps
  <2>9. CASE ReadBody
    BY <1>2, <2>9, ReadBodyKeeps
  <2>10. CASE ReadTooLarge
    BY <1>2, <2>10, ReadTooLargeKeeps
  <2>11. CASE CloseRequestBody
    BY <1>2, <2>11, CloseRequestBodyKeeps
  <2>12. CASE HandlerReturns
    BY <1>2, <2>12, HandlerReturnsKeeps
  <2>13. CASE Finish
    BY <1>2, <2>13, FinishKeeps
  <2>14. CASE Decide
    BY <1>2, <2>14, DecideKeeps
  <2>15. CASE KeepAlivesOff
    BY <1>2, <2>15, KeepAlivesOffKeeps
  <2>16. CASE UNCHANGED vars
    BY <1>2, <2>16, StutterKeeps
  <2>17. QED
    BY <1>2, <2>1, <2>2, <2>3, <2>4, <2>5, <2>6, <2>7, <2>8, <2>9, <2>10, <2>11, <2>12,
       <2>13, <2>14, <2>15, <2>16 DEF Next
<1>3. QED
  BY <1>1, <1>2, PTL DEF Spec

-----------------------------------------------------------------------------
(* 100 Continue *)

(* A reader that is past its 100 Continue finds canWriteContinue cleared,  *)
(* and one that is not past it has not seen the end of the body, so that   *)
(* the final header it may still follow closes the connection.             *)
Settled(s, reader) ==
  /\ s.wroteContinue /\ reader # "continue" => ~s.canWriteContinue
  /\ reader = "read" => ~s.canWriteContinue
  /\ s.ecrSawEOF => ~s.canWriteContinue
  /\ ~rq.wrapped =>
       /\ s.cwWroteHeader /\ s.canWriteContinue => s.closeAfterReply
       /\ Late(s.wire) => s.cwWroteHeader /\ s.closeAfterReply
ContinueInv ==
  /\ w.canWriteContinue => Expecting
  /\ pc = "serve" => /\ rpc = "idle" /\ ~w.wroteContinue /\ ~w.ecrSawEOF
                     /\ ~w.cwWroteHeader
  /\ Settled(w, rpc)

\* A response that moves on stays settled, and so does one whose reader is done.
LEMMA ForwardSettled ==
  ASSUME NEW s \in Response, NEW t, NEW reader, Settled(s, reader), Forward(s, t),
         s.canWriteContinue => Expecting
  PROVE  /\ t.canWriteContinue => Expecting
         /\ Settled(t, reader)
         /\ reader = "read" => Settled(t, "idle")
<1>1. t.canWriteContinue => s.canWriteContinue /\ Expecting
  BY DEF Forward
<1>2. t.wroteContinue = s.wroteContinue /\ t.ecrSawEOF = s.ecrSawEOF
  BY DEF Forward
<1>3. ASSUME ~rq.wrapped, t.cwWroteHeader, t.canWriteContinue PROVE t.closeAfterReply
  <2>1. s.canWriteContinue /\ BodyType = "expectContinueReader" /\ ~t.ecrSawEOF
    BY <1>1, <1>2, <1>3 DEF Settled, BodyType
  <2>2. CASE s.cwWroteHeader
    BY <1>3, <2>1, <2>2 DEF Settled, Forward
  <2>3. CASE ~s.cwWroteHeader
    BY <1>3, <2>1, <2>3 DEF Forward
  <2>4. QED
    BY <2>2, <2>3
<1>4. ~rq.wrapped /\ Late(t.wire) => t.cwWroteHeader /\ t.closeAfterReply
  BY DEF Settled, Forward
<1>5. QED
  BY <1>1, <1>2, <1>3, <1>4 DEF Settled

\* What Settled says of w in the next state.
LEMMA NextSettled ==
  ASSUME NEW s, NEW reader, Settled(s, reader), w' = s, rpc' = reader, rq' = rq,
         s.canWriteContinue => Expecting, pc' # "serve"
  PROVE  ContinueInv'
BY DEF ContinueInv, Settled, Expecting, HasBody

\* Every step that moves the response on, and leaves its reader or ends its read.
LEMMA ForwardContinue ==
  ASSUME IInv, ContinueInv, Forward(w, w'), rq' = rq, pc' # "serve",
         rpc' = rpc \/ (rpc = "read" /\ rpc' = "idle")
  PROVE  ContinueInv'
<1> DEFINE t == w'
<1>1. w \in Response /\ Settled(w, rpc) /\ (w.canWriteContinue => Expecting)
  BY DEF IInv, TypeInv, ContinueInv
<1>2. Forward(w, t) /\ w' = t
  OBVIOUS
<1> HIDE DEF t
<1>3. /\ t.canWriteContinue => Expecting
      /\ Settled(t, rpc)
      /\ rpc = "read" => Settled(t, "idle")
  BY <1>1, <1>2, ForwardSettled
<1>4. Settled(t, rpc')
  BY <1>3
<1>5. QED
  BY <1>2, <1>3, <1>4, NextSettled

\* conn.serve gives the right to write 100 Continue to a reader that has not begun.
LEMMA ServeContinue == ASSUME IInv, ContinueInv, Serve PROVE ContinueInv'
<1> DEFINE can == Expecting
           t == [w EXCEPT !.canWriteContinue = can]
<1>1. /\ w \in Response /\ rpc = "idle" /\ ~w.wroteContinue /\ ~w.ecrSawEOF
      /\ ~w.cwWroteHeader /\ Settled(w, rpc)
  BY DEF IInv, TypeInv, ContinueInv, Serve
<1>2. w' = t /\ rpc' = "idle" /\ rq' = rq /\ pc' # "serve"
  BY <1>1 DEF Serve
<1>3. can = Expecting /\ can \in Flag
  BY DEF Expecting, Flag
<1> HIDE DEF can
<1>4. /\ t.canWriteContinue = can /\ ~t.wroteContinue /\ ~t.ecrSawEOF /\ ~t.cwWroteHeader
      /\ t.wire = w.wire /\ t.closeAfterReply = w.closeAfterReply
  BY <1>1, <1>3 DEF Response
<1> HIDE DEF t
<1>5. Settled(t, "idle")
  BY <1>1, <1>4 DEF Settled
<1>6. QED
  BY <1>2, <1>3, <1>4, <1>5, NextSettled

\* sendExpectationFailed only remembers its status.
LEMMA ExpectationForward == ASSUME IInv, SendExpectationFailed PROVE Forward(w, w')
<1> DEFINE u == SetStatus(w, 417)
           none == Unknown
           t == [u EXCEPT !.contentLength = none]
<1>1. w \in Response /\ Open(w) /\ hh \in HandlerHeader
  BY DEF IInv, TypeInv, Ended, SendExpectationFailed
<1>2. w' = t
  BY DEF SendExpectationFailed
<1>3. 417 \in Status /\ none \in Length
  BY DEF Status, Length
<1>4. u \in Response /\ Forward(w, u)
  BY <1>1, <1>3, SetStatusFacts
<1> HIDE DEF u, none
<1>5. Forward(u, t)
  BY <1>3, <1>4 DEF Response, Forward
<1>6. QED
  BY <1>2, <1>4, <1>5, ForwardTwice

\* WriteHeader of an informational status is no 100 Continue of the reader.
LEMMA WriteHeaderForward ==
  ASSUME IInv, NEW code \in Codes, WriteHeader(code)
  PROVE  Forward(w, w')
<1>1. hh \in HandlerHeader /\ w \in Response /\ Open(w)
  BY HandlerFacts DEF WriteHeader, HandlerCall
<1>2. code \in 100..999
  BY ResponseAssumption
<1>3. CASE Informational(code)
  <2> DEFINE x == Item("1xx", code)
             can == w.canWriteContinue /\ code # 100
             wr == Append(w.wire, x)
             t == [w EXCEPT !.canWriteContinue = can, !.wire = wr]
  <2>1. w' = t
    BY <1>3 DEF WriteHeader
  <2>2. x \in WireItem /\ x.t # "100"
    BY <1>2, SMTT(60) DEF Item, WireItem, Info, NoHeader
  <2>3. (can => w.canWriteContinue) /\ w.wire \in Seq(WireItem) /\ wr = Append(w.wire, x)
    BY <1>1, ResponseFields
  <2> HIDE DEF x, can
  <2>4. Late(wr) => Late(w.wire)
    BY <2>2, <2>3, LateAppend
  <2> HIDE DEF wr
  <2>5. /\ t.canWriteContinue = can /\ t.wire = wr /\ t.wroteContinue = w.wroteContinue
        /\ t.ecrSawEOF = w.ecrSawEOF /\ t.cwWroteHeader = w.cwWroteHeader
        /\ t.closeAfterReply = w.closeAfterReply
    BY <1>1 DEF Response
  <2> HIDE DEF t
  <2>6. QED
    BY <2>1, <2>3, <2>4, <2>5 DEF Forward
<1>4. CASE ~Informational(code)
  <2>1. code \in Status
    BY <1>2 DEF Status
  <2>2. w' = SetStatus(w, code)
    BY <1>4 DEF WriteHeader
  <2>3. QED
    BY <1>1, <2>1, <2>2, SetStatusFacts
<1>5. QED
  BY <1>3, <1>4

\* Write takes the right away, a limit met closes the connection.
LEMMA PlainForward ==
  ASSUME IInv, StartWrite \/ ReadTooLarge
  PROVE  Forward(w, w')
<1> DEFINE no == FALSE  yes == TRUE
           rest == w.left - 1
           eof == rq.ok /\ w.left = 1 /\ rq.body = "limited"
           t1 == [w EXCEPT !.canWriteContinue = no]
           t2 == [w EXCEPT !.left = rest, !.closeAfterReply = yes, !.bodyLimitHit = yes,
                           !.sawEOF = eof]
<1>1. w \in Response /\ ~no /\ yes
  BY DEF IInv, TypeInv
<1>2. w' = t1 \/ w' = t2
  BY DEF StartWrite, ReadTooLarge
<1> HIDE DEF no, yes, rest, eof
<1>3. Forward(w, t1)
  <2>1. /\ t1.canWriteContinue = no /\ t1.wroteContinue = w.wroteContinue /\ t1.wire = w.wire
        /\ t1.ecrSawEOF = w.ecrSawEOF /\ t1.cwWroteHeader = w.cwWroteHeader
        /\ t1.closeAfterReply = w.closeAfterReply
    BY <1>1 DEF Response
  <2> HIDE DEF t1
  <2>2. QED
    BY <1>1, <2>1 DEF Forward
<1>4. Forward(w, t2)
  <2>1. /\ t2.canWriteContinue = w.canWriteContinue /\ t2.wroteContinue = w.wroteContinue
        /\ t2.wire = w.wire /\ t2.ecrSawEOF = w.ecrSawEOF
        /\ t2.cwWroteHeader = w.cwWroteHeader /\ t2.closeAfterReply = yes
    BY <1>1 DEF Response
  <2> HIDE DEF t2
  <2>2. QED
    BY <1>1, <2>1 DEF Forward
<1>5. QED
  BY <1>2, <1>3, <1>4

\* The handler closes the request body: nothing the reply shows.
LEMMA CloseForward == ASSUME IInv, CloseRequestBody PROVE Forward(w, w')
<1> DEFINE t == CloseBody(w)
<1>1. rq \in Request /\ w \in Response /\ Open(w)
  BY HandlerFacts DEF CloseRequestBody, HandlerCall
<1>2. w' = t
  BY DEF CloseRequestBody
<1>3. SameReply(w, t) /\ BodyMoves(w, t)
  BY <1>1, CloseBodyFacts DEF Open, RequestInv
<1> HIDE DEF t
<1>4. QED
  BY <1>2, <1>3 DEF Forward, SameReply, SameOutput, BodyMoves

\* A reader that is not to write 100 Continue finds the right to write it gone.
LEMMA StartReadContinue == ASSUME IInv, ContinueInv, StartRead PROVE ContinueInv'
<1> DEFINE continue == Expecting /\ ~w.wroteContinue /\ w.canWriteContinue
           reader == IF continue THEN "continue" ELSE "read"
           wrote == w.wroteContinue \/ continue
           t == [w EXCEPT !.wroteContinue = wrote]
<1>1. /\ w \in Response /\ rpc = "idle" /\ Settled(w, rpc) /\ pc # "serve"
      /\ w.canWriteContinue => Expecting
  BY DEF IInv, TypeInv, ContinueInv, StartRead
<1>2. w' = t /\ rpc' = reader /\ rq' = rq /\ pc' # "serve"
  BY <1>1 DEF StartRead
<1>3. (continue => reader = "continue") /\ (~continue => ~w.canWriteContinue)
  BY <1>1 DEF Settled
<1>4. (~continue => reader = "read" /\ ~w.canWriteContinue) /\ (continue => w.canWriteContinue)
  BY <1>3
<1> HIDE DEF continue, reader, wrote
<1>5. /\ t.canWriteContinue = w.canWriteContinue /\ t.ecrSawEOF = w.ecrSawEOF
      /\ t.cwWroteHeader = w.cwWroteHeader /\ t.wire = w.wire
      /\ t.closeAfterReply = w.closeAfterReply
  BY <1>1 DEF Response
<1> HIDE DEF t
<1>6. Settled(t, reader)
  BY <1>1, <1>3, <1>4, <1>5 DEF Settled
<1>7. QED
  BY <1>1, <1>2, <1>5, <1>6, NextSettled

\* 100 Continue goes out ahead of the final header, or behind one that closes the
\* connection.
LEMMA WriteContinueContinue == ASSUME IInv, ContinueInv, WriteContinue PROVE ContinueInv'
<1>1. /\ w \in Response /\ Settled(w, "continue") /\ pc \in {"handler", "write"}
      /\ w.canWriteContinue => Expecting
  BY DEF IInv, TypeInv, ContinueInv, WriteContinue
<1>2. rpc' = "read" /\ rq' = rq /\ pc' # "serve"
  BY <1>1 DEF WriteContinue
<1>3. CASE w.canWriteContinue
  <2> DEFINE x == Item("100", 100)
             no == FALSE
             wr == Append(w.wire, x)
             t == [w EXCEPT !.canWriteContinue = no, !.wire = wr]
  <2>1. w' = t /\ ~no
    BY <1>3 DEF WriteContinue
  <2>2. x.t = "100"
    BY DEF Item
  <2>3. w.wire \in Seq(WireItem) /\ wr = Append(w.wire, x)
    BY <1>1, ResponseFields
  <2> HIDE DEF x, no
  <2>4. ~w.cwWroteHeader => ~Late(wr)
    <3>1. SUFFICES ASSUME ~w.cwWroteHeader PROVE ~Late(wr)
      OBVIOUS
    <3>2. \A i \in 1..Len(w.wire) : w.wire[i].t \in Info
      <4>1. WireInv(w, FALSE)
        BY HandlerFacts, <1>1 DEF Open
      <4>2. QED
        BY <3>1, <4>1 DEF WireInv
    <3>3. \A i \in DOMAIN wr : wr[i].t \in {"1xx", "100"}
      <4>1. /\ Len(w.wire) \in Nat /\ DOMAIN wr = 1..(Len(w.wire) + 1)
            /\ wr[Len(w.wire) + 1] = x /\ \A i \in 1..Len(w.wire) : wr[i] = w.wire[i]
        BY <2>3, AppendProperties
      <4>2. QED
        BY <2>2, <3>2, <4>1 DEF Info
    <3>4. QED
      BY <3>3 DEF Late
  <2> HIDE DEF wr
  <2>5. /\ t.canWriteContinue = no /\ t.wire = wr /\ t.cwWroteHeader = w.cwWroteHeader
        /\ t.closeAfterReply = w.closeAfterReply
    BY <1>1 DEF Response
  <2> HIDE DEF t
  <2>6. ~rq.wrapped /\ Late(wr) => w.cwWroteHeader /\ w.closeAfterReply
    BY <1>1, <1>3, <2>4 DEF Settled
  <2>7. Settled(t, "read")
    BY <2>1, <2>5, <2>6 DEF Settled
  <2>8. QED
    BY <1>2, <2>1, <2>5, <2>7, NextSettled
<1>4. CASE ~w.canWriteContinue
  <2>1. w' = w
    BY <1>4 DEF WriteContinue
  <2>2. Settled(w, "read")
    BY <1>1, <1>4 DEF Settled
  <2>3. QED
    BY <1>1, <1>2, <2>1, <2>2, NextSettled
<1>5. QED
  BY <1>3, <1>4

\* The end of the body is seen by a reader that has no right left.
LEMMA ReadBodyContinue == ASSUME IInv, ContinueInv, ReadBody PROVE ContinueInv'
<1>1. /\ w \in Response /\ Settled(w, "read") /\ pc \in {"handler", "write"}
      /\ ~w.canWriteContinue
  BY DEF IInv, TypeInv, ContinueInv, Settled, ReadBody
<1>2. rpc' = "idle" /\ rq' = rq /\ pc' # "serve"
  BY <1>1 DEF ReadBody
<1>3. /\ w'.canWriteContinue = w.canWriteContinue /\ w'.cwWroteHeader = w.cwWroteHeader
      /\ w'.wire = w.wire /\ w'.closeAfterReply = w.closeAfterReply
  BY <1>1 DEF ReadBody, Response
<1> DEFINE t == w'
<1>4. ~t.canWriteContinue /\ w' = t
  BY <1>1, <1>3
<1>5. Settled(t, "idle")
  BY <1>1, <1>3, <1>4 DEF Settled
<1> HIDE DEF t
<1>6. QED
  BY <1>2, <1>4, <1>5, NextSettled

\* Steps that leave the response and its reader alone.
LEMMA SameContinue ==
  ASSUME ContinueInv, w' = w, rpc' = rpc, rq' = rq, pc' = pc \/ pc' # "serve"
  PROVE  ContinueInv'
BY DEF ContinueInv, Settled, Expecting, HasBody

\* expectContinueReader and writeHeader: 100 Continue behind the final header ends
\* the connection, unless the handler wrapped the body.
THEOREM ContinueInvariant == Spec => []ContinueInv
<1>1. Init => ContinueInv
  BY DEF Init, ContinueInv, Settled, Late
<1>2. ASSUME IInv, ContinueInv, [Next]_vars PROVE ContinueInv'
  <2>1. CASE Serve
    BY <1>2, <2>1, ServeContinue
  <2>2. CASE SendExpectationFailed
    BY <1>2, <2>2, ExpectationForward, ForwardContinue DEF SendExpectationFailed
  <2>3. ASSUME NEW code \in Codes, WriteHeader(code) PROVE ContinueInv'
    BY <1>2, <2>3, WriteHeaderForward, ForwardContinue DEF WriteHeader, HandlerCall
  <2>4. CASE StartWrite
    BY <1>2, <2>4, PlainForward, ForwardContinue DEF StartWrite
  <2>5. ASSUME NEW n \in 0..MaxWrite, Write(n) PROVE ContinueInv'
    BY <1>2, <2>5, WriteKeeps, ForwardContinue DEF Write
  <2>6. CASE Flush
    BY <1>2, <2>6, FlushKeeps, ForwardContinue DEF Flush, HandlerCall
  <2>7. CASE StartRead
    BY <1>2, <2>7, StartReadContinue
  <2>8. CASE WriteContinue
    BY <1>2, <2>8, WriteContinueContinue
  <2>9. CASE ReadBody
    BY <1>2, <2>9, ReadBodyContinue
  <2>10. CASE ReadTooLarge
    <3>1. pc' # "serve" /\ rq' = rq /\ rpc = "read" /\ rpc' = "idle"
      BY <1>2, <2>10 DEF ReadTooLarge, IInv
    <3>2. QED
      BY <1>2, <2>10, <3>1, PlainForward, ForwardContinue
  <2>11. CASE CloseRequestBody
    BY <1>2, <2>11, CloseForward, ForwardContinue DEF CloseRequestBody, HandlerCall
  <2>12. CASE HandlerReturns
    BY <1>2, <2>12, SameContinue DEF HandlerReturns
  <2>13. CASE Finish
    BY <1>2, <2>13, FinishKeeps, ForwardContinue DEF Finish
  <2>14. CASE Decide
    BY <1>2, <2>14, SameContinue DEF Decide
  <2>15. CASE KeepAlivesOff
    BY <1>2, <2>15, SameContinue DEF KeepAlivesOff
  <2>16. CASE UNCHANGED vars
    BY <1>2, <2>16, SameContinue DEF vars
  <2>17. QED
    BY <1>2, <2>1, <2>2, <2>3, <2>4, <2>5, <2>6, <2>7, <2>8, <2>9, <2>10, <2>11, <2>12,
       <2>13, <2>14, <2>15, <2>16 DEF Next
<1>3. QED
  BY <1>1, <1>2, ResponseInvariant, PTL DEF Spec

-----------------------------------------------------------------------------
(* The properties of the runs *)

\* Once the response has ended there is one final header, at k; behind it come
\* the items of the body, in front of it nothing that holds a byte of the body.
LEMMA FinalFacts ==
  ASSUME w \in Response, NEW k \in 1..Len(w.wire), HeaderAt(w, k, TRUE)
  PROVE  /\ Final = {k} /\ Cardinality(Final) = 1 /\ Min(Final) = k
         /\ AfterHeader = SubSeq(w.wire, k + 1, Len(w.wire))
         /\ Amount(AfterHeader) = Amount(w.wire)
<1> DEFINE n == Len(w.wire)
<1>1. w.wire \in Seq(WireItem) /\ n \in Nat /\ DOMAIN w.wire = 1..n /\ k \in Nat
  BY ResponseFields
<1>2. w.wire[k].t = "hdr" /\ \A i \in 1..(k - 1) : w.wire[i].t \in {"1xx", "100"}
  BY DEF HeaderAt, Info
<1>3. \A i \in (k + 1)..n : w.wire[i].t \in {"100", "chunk", "data", "end"}
  BY DEF HeaderAt, Behind, BodyTag
<1>4. \A i \in 1..n : i \in 1..(k - 1) \/ i = k \/ i \in (k + 1)..n
  BY <1>1
<1>5. Final = {k}
  BY <1>1, <1>2, <1>3, <1>4 DEF Final
<1>6. Cardinality(Final) = 1
  BY <1>5, FS_Singleton
<1>7. Min(Final) = k
  BY <1>1, <1>5 DEF Min
<1>8. AfterHeader = SubSeq(w.wire, k + 1, n)
  BY <1>7 DEF AfterHeader
<1>9. \A i \in 1..k : BodyBytes(w.wire[i]) = 0
  BY <1>1, <1>2 DEF BodyBytes
<1>10. Amount(SubSeq(w.wire, k + 1, n)) = Amount(w.wire)
  BY <1>1, <1>9, AmountBehind
<1>11. QED
  BY <1>5, <1>6, <1>7, <1>8, <1>10

\* The items behind the final header are those of the wire.
LEMMA ItemsBehind ==
  ASSUME w \in Response, NEW k \in 1..Len(w.wire), HeaderAt(w, k, TRUE)
  PROVE  /\ Len(AfterHeader) = Len(w.wire) - k
         /\ \A i \in 1..Len(AfterHeader) : AfterHeader[i] = w.wire[k + i]
         /\ Len(w.wire) = k => AfterHeader = <<>>
<1> DEFINE n == Len(w.wire)  t == SubSeq(w.wire, k + 1, n)
<1>1. w.wire \in Seq(WireItem) /\ n \in Nat /\ k \in Nat /\ k <= n
  BY ResponseFields
<1>2. AfterHeader = t
  BY FinalFacts
<1>3. k + 1 \in Int /\ n \in Int /\ \A i \in (k + 1)..n : w.wire[i] \in WireItem
  BY <1>1, ElementOfSeq
<1>4. /\ t \in Seq(WireItem)
      /\ Len(t) = IF k + 1 <= n THEN n - (k + 1) + 1 ELSE 0
      /\ \A i \in 1..(n - (k + 1) + 1) : t[i] = w.wire[k + 1 + i - 1]
  BY <1>3, SubSeqProperties
<1> HIDE DEF t, n
<1>5. n - (k + 1) + 1 = n - k /\ (~(k + 1 <= n) => n - k = 0)
  BY <1>1
<1>6. \A i \in 1..(n - k) : k + 1 + i - 1 = k + i
  BY <1>1
<1>7. Len(t) = n - k /\ \A i \in 1..(n - k) : t[i] = w.wire[k + i]
  BY <1>4, <1>5, <1>6
<1>8. n = k => Len(t) = 0
  BY <1>1, <1>7
<1>9. n = k => t = <<>>
  BY <1>4, <1>8, EmptySeq
<1>10. QED
  BY <1>2, <1>7, <1>9 DEF n

\* The part of the invariant that holds once the response has ended.
LEMMA EndedFacts ==
  ASSUME IInv, Ended
  PROVE  /\ rq \in Request /\ w \in Response /\ Finished(w)
         /\ \E k \in 1..Len(w.wire) : HeaderAt(w, k, TRUE)
BY DEF IInv, TypeInv, Finished, WireInv

\* Every byte of the body the handler wrote and was not refused is on the wire
\* behind the one final header when conn.serve decides about the connection.
LEMMA InvNothingLost == IInv => NothingLost
<1> SUFFICES ASSUME IInv, Ended, ~werr
             PROVE  /\ Cardinality(Final) = 1 /\ w.buffered = 0
                    /\ ~IsHEAD /\ (w.contentLength = Unknown \/ w.written <= w.contentLength)
                         => Amount(AfterHeader) = w.written
  BY DEF NothingLost, Ended
<1>1. w \in Response /\ Finished(w)
  BY EndedFacts
<1>2. PICK k \in 1..Len(w.wire) : HeaderAt(w, k, TRUE)
  BY EndedFacts
<1>3. Cardinality(Final) = 1 /\ Amount(AfterHeader) = Amount(w.wire)
  BY <1>1, <1>2, FinalFacts
<1>4. w.buffered = 0 /\ Counted(w, 0)
  BY <1>1 DEF Finished
<1>5. Amount(w.wire) \in Nat
  BY <1>1, ResponseFields, AmountType
<1>6. ~IsHEAD /\ (w.contentLength = Unknown \/ w.written <= w.contentLength)
        => Amount(w.wire) + 0 + 0 = w.written
  BY <1>4 DEF Counted
<1>7. QED
  BY <1>3, <1>4, <1>5, <1>6

\* How the client reads the final header x of a response that keeps the
\* connection.
LEMMA ClientReads ==
  ASSUME rq \in Request, w \in Response, NEW x \in WireItem, HeaderTells(w, x),
         x.t = "hdr", ~w.closeAfterReply
  PROVE  LET c == ReadTransfer("resp", x.status, rq.method, rq.proto, x.h)
         IN  /\ w.chunking => c.src = "chunked" /\ ~IsHEAD /\ BodyAllowed(w)
             /\ ~w.chunking /\ (IsHEAD \/ ~BodyAllowed(w)) => c.src = "none"
             /\ ~w.chunking /\ ~IsHEAD /\ BodyAllowed(w) =>
                  /\ w.contentLength \in Nat
                  /\ w.contentLength = 0 => c.src = "none"
                  /\ w.contentLength > 0 => c.src = "limited" /\ c.n = w.contentLength
<1> DEFINE real == FixLength("resp", x.status, rq.method, rq.proto, x.h)
           chunked == IsChunked(rq.proto, x.h)
           bodiless == NoResponseBodyExpected(rq.method) \/ ~BodyAllowedForStatus(x.status)
           c == ReadTransfer("resp", x.status, rq.method, rq.proto, x.h)
<1>1. rq.proto \in {10, 11} /\ w.chunking \in BOOLEAN
  <2>1. rq.proto \in {10, 11}
    BY RequestFields, Zenon
  <2>2. w.chunking \in BOOLEAN
    BY DEF Response, Flag
  <2> QED BY <2>1, <2>2
<1>2. chunked <=> w.chunking
  <2>1. x.h.tes = IF w.chunking THEN <<"chunked">> ELSE <<>>
    BY DEF HeaderTells
  <2>2. w.chunking => rq.proto >= 11
    BY <1>1 DEF HeaderTells
  <2>3. <<"chunked">> # <<>>
    OBVIOUS
  <2>4. QED
    BY <2>1, <2>2, <2>3 DEF IsChunked
<1>3. NoResponseBodyExpected(rq.method) = IsHEAD /\ BodyAllowedForStatus(x.status) = BodyAllowed(w)
  BY DEF NoResponseBodyExpected, IsHEAD, BodyAllowed, HeaderTells
<1>4. bodiless <=> IsHEAD \/ ~BodyAllowed(w)
  BY <1>3
<1>5. ~chunked /\ bodiless => real = 0
  BY <1>3, <1>4 DEF FixLength, BodyAllowedForStatus
<1>6. ~chunked /\ ~bodiless => w.contentLength \in Nat /\ real = w.contentLength
  <2>1. SUFFICES ASSUME ~chunked, ~bodiless PROVE w.contentLength \in Nat /\ real = w.contentLength
    OBVIOUS
  <2>2. x.h.cls # <<>>
    BY <1>2, <1>4, <2>1 DEF HeaderTells
  <2>3. w.contentLength \in Nat /\ x.h.cls = <<w.contentLength>>
    BY <2>2 DEF HeaderTells
  <2>4. x.h.cls[1] = w.contentLength
    BY <2>3
  <2>5. ~NoResponseBodyExpected(rq.method) /\ x.status \notin 100..199 \cup {204, 304}
    BY <2>1 DEF BodyAllowedForStatus
  <2>6. real = x.h.cls[1]
    BY <2>1, <2>2, <2>5 DEF FixLength
  <2>7. QED
    BY <2>3, <2>4, <2>6
<1> HIDE DEF real, chunked
<1>7. /\ chunked => c.src = IF bodiless THEN "none" ELSE "chunked"
      /\ ~chunked /\ real = 0 => c.src = "none"
      /\ ~chunked /\ real > 0 => c.src = "limited" /\ c.n = real
  BY DEF ReadTransfer, real, chunked
<1> HIDE DEF c
<1>8. w.chunking => ~IsHEAD /\ BodyAllowed(w)
  BY DEF HeaderTells
<1>9. QED
  BY <1>2, <1>4, <1>5, <1>6, <1>7, <1>8 DEF c

\* The items behind the final header of a response that keeps the connection and
\* let no late 100 Continue through: pieces of the body, and the end of the chunks
\* at the end.
LEMMA BodyItems ==
  ASSUME IInv, pc = "reuse", NoLateContinue, NEW k \in 1..Len(w.wire), HeaderAt(w, k, TRUE)
  PROVE  \A i \in 1..Len(AfterHeader) :
           \/ AfterHeader[i].t = BodyTag(w) /\ ~IsHEAD /\ BodyAllowed(w) /\ w.written > 0
           \/ AfterHeader[i].t = "end" /\ w.chunking /\ i = Len(AfterHeader)
<1> SUFFICES ASSUME NEW i \in 1..Len(AfterHeader)
             PROVE  \/ AfterHeader[i].t = BodyTag(w) /\ ~IsHEAD /\ BodyAllowed(w) /\ w.written > 0
                    \/ AfterHeader[i].t = "end" /\ w.chunking /\ i = Len(AfterHeader)
  OBVIOUS
<1>1. w \in Response
  BY DEF IInv, TypeInv
<1>2. w.wire \in Seq(WireItem) /\ Len(w.wire) \in Nat /\ DOMAIN w.wire = 1..Len(w.wire) /\ k \in Nat
  BY <1>1, ResponseFields
<1>3. Len(AfterHeader) = Len(w.wire) - k /\ AfterHeader[i] = w.wire[k + i]
  BY <1>1, ItemsBehind
<1>4. k + i \in (k + 1)..Len(w.wire) /\ (k + i = Len(w.wire) => i = Len(AfterHeader))
      /\ k + i \in 1..Len(w.wire) /\ ~(k + i < k)
  BY <1>2, <1>3
<1>5. Behind(w, k + i, TRUE) /\ w.wire[k].t = "hdr"
  BY <1>4 DEF HeaderAt
<1>6. w.wire[k + i].t # "100"
  BY <1>2, <1>4, <1>5 DEF NoLateContinue
<1>7. QED
  BY <1>3, <1>4, <1>5, <1>6 DEF Behind

\* A connection that is kept: the client finds the end of the response where the
\* server ends it.
LEMMA InvClientAligned ==
  ASSUME IInv, pc = "reuse", NoLateContinue
  PROVE  Cardinality(Final) = 1 /\ ClientAligned
<1>1. /\ rq \in Request /\ w \in Response /\ Finished(w) /\ ShouldReuseConnection(w)
  BY EndedFacts DEF IInv, Ended
<1>2. PICK k \in 1..Len(w.wire) : HeaderAt(w, k, TRUE)
  BY EndedFacts DEF Ended
<1> DEFINE x == w.wire[k]  items == AfterHeader  m == Len(AfterHeader)
           c == ReadTransfer("resp", x.status, rq.method, rq.proto, x.h)
<1>3. w.wire \in Seq(WireItem) /\ Len(w.wire) \in Nat /\ k \in Nat /\ x \in WireItem
  BY <1>1, <1>2, ResponseFields, ElementOfSeq
<1>4. /\ Cardinality(Final) = 1 /\ Min(Final) = k /\ Amount(items) = Amount(w.wire)
  BY <1>1, <1>2, FinalFacts
<1>5. /\ m = Len(w.wire) - k /\ \A i \in 1..m : items[i] = w.wire[k + i]
      /\ Len(w.wire) = k => items = <<>>
  BY <1>1, <1>2, ItemsBehind
<1>6. \A i \in 1..m :
        \/ items[i].t = BodyTag(w) /\ ~IsHEAD /\ BodyAllowed(w) /\ w.written > 0
        \/ items[i].t = "end" /\ w.chunking /\ i = m
  BY <1>2, BodyItems
<1>7. x.t = "hdr" /\ HeaderTells(w, x)
      /\ (w.chunking => w.wire[Len(w.wire)].t = "end")
  BY <1>2 DEF HeaderAt
<1>8. ~w.closeAfterReply /\ ~werr
      /\ (~IsHEAD /\ w.contentLength # Unknown /\ BodyAllowed(w) => w.contentLength = w.written)
  BY <1>1 DEF ShouldReuseConnection
<1>9. Client = c
  BY <1>4 DEF Client
<1>10. /\ w.chunking => c.src = "chunked" /\ ~IsHEAD /\ BodyAllowed(w)
       /\ ~w.chunking /\ (IsHEAD \/ ~BodyAllowed(w)) => c.src = "none"
       /\ ~w.chunking /\ ~IsHEAD /\ BodyAllowed(w) =>
            /\ w.contentLength \in Nat
            /\ w.contentLength = 0 => c.src = "none"
            /\ w.contentLength > 0 => c.src = "limited" /\ c.n = w.contentLength
  BY <1>1, <1>3, <1>7, <1>8, ClientReads
<1>11. m \in Nat /\ (m = 0 => items = <<>>) /\ (m > 0 => items # <<>>)
  <2>1. m \in Nat
    BY <1>3, <1>5
  <2>2. m = 0 => Len(w.wire) = k
    BY <1>3, <1>5
  <2>3. items = <<>> => m = 0
    OBVIOUS
  <2>4. QED
    BY <1>5, <2>1, <2>2, <2>3
<1> HIDE DEF x, c, items, m
<1>12. CASE w.chunking
  <2>1. k # Len(w.wire)
    BY <1>7, <1>12 DEF x
  <2>2. m > 0 /\ m \in 1..m /\ k + m = Len(w.wire)
    BY <1>3, <1>5, <1>11, <2>1
  <2>3. items[m].t = "end"
    BY <1>5, <1>7, <1>12, <2>2
  <2>4. Last(AfterHeader).t = "end" /\ AfterHeader # <<>>
    BY <1>11, <2>2, <2>3 DEF Last, items, m
  <2>5. \A i \in 1..(m - 1) : i \in 1..m /\ i # m
    BY <1>11
  <2>6. \A i \in 1..(m - 1) : items[i].t = "chunk"
    BY <1>6, <1>12, <2>5 DEF BodyTag
  <2>7. Client.src = "chunked"
    BY <1>9, <1>10, <1>12
  <2>8. QED
    BY <1>4, <2>4, <2>6, <2>7 DEF ClientAligned, items, m
<1>13. CASE ~w.chunking /\ (IsHEAD \/ ~BodyAllowed(w))
  <2>1. m = 0
    <3>1. \A i \in 1..m : FALSE
      BY <1>6, <1>13
    <3>2. QED
      BY <1>11, <3>1
  <2>2. Client.src = "none" /\ AfterHeader = <<>>
    BY <1>9, <1>10, <1>11, <1>13, <2>1 DEF items
  <2>3. QED
    BY <1>4, <2>2 DEF ClientAligned
<1>14. CASE ~w.chunking /\ ~IsHEAD /\ BodyAllowed(w)
  <2>1. w.contentLength \in Nat /\ w.contentLength = w.written
    BY <1>8, <1>10, <1>14 DEF Unknown
  <2>2. CASE w.contentLength = 0
    <3>1. \A i \in 1..m : FALSE
      BY <1>6, <1>14, <2>1, <2>2
    <3>2. m = 0
      BY <1>11, <3>1
    <3>3. Client.src = "none" /\ AfterHeader = <<>>
      BY <1>9, <1>10, <1>11, <1>14, <2>2, <3>2 DEF items
    <3>4. QED
      BY <1>4, <3>3 DEF ClientAligned
  <2>3. CASE w.contentLength > 0
    <3>1. Client.src = "limited" /\ Client.n = w.contentLength
      BY <1>9, <1>10, <1>14, <2>3
    <3>2. Amount(AfterHeader) = w.written
      <4>1. NothingLost
        BY InvNothingLost
      <4>2. QED
        BY <1>8, <1>14, <2>1, <4>1 DEF NothingLost
    <3>3. \A i \in 1..Len(AfterHeader) : AfterHeader[i].t = "data"
      BY <1>6, <1>14 DEF BodyTag, items, m
    <3>4. QED
      BY <1>4, <2>1, <3>1, <3>2, <3>3 DEF ClientAligned
  <2>4. QED
    BY <2>1, <2>2, <2>3
<1>15. QED
  BY <1>12, <1>13, <1>14

\* A connection that is kept: the body of the request was read to its end.
LEMMA InvRequestConsumed ==
  ASSUME IInv, pc = "reuse", ~rq.wrapped, ~rq.duplex, HasBody
  PROVE  w.sawEOF
<1>1. w \in Response /\ w.cwWroteHeader /\ RequestInv(w) /\ ~w.closeAfterReply
  BY DEF IInv, TypeInv, Ended, Finished, ShouldReuseConnection
<1>2. QED
  BY <1>1 DEF RequestInv

\* Type correctness of the fields the properties compare.
LEMMA InvTypeOK == IInv => TypeOK
<1> SUFFICES ASSUME IInv PROVE TypeOK
  OBVIOUS
<1>1. rq \in Request /\ w \in Response
  BY DEF IInv, TypeInv
<1>2. w.left \in 0..rq.n /\ w.buffered \in 0..BufSize /\ w.contentLength \in Nat \cup {Unknown}
  BY <1>1, ResponseFields
<1>3. w.contentLength >= Unknown
  BY <1>2 DEF Unknown
<1>4. QED
  BY <1>2, <1>3 DEF TypeOK, IInv, TypeInv

\* What the invariant says of a connection that is kept.
LEMMA InvReuseInSync == IInv /\ ContinueInv => ReuseInSync
<1> SUFFICES ASSUME IInv, ContinueInv PROVE ReuseInSync
  OBVIOUS
<1>1. TypeOK
  BY InvTypeOK
<1>2. ASSUME pc = "reuse", rq.wrapped => NoLateContinue
      PROVE  Cardinality(Final) = 1 /\ ClientAligned
  <2>1. ~w.closeAfterReply
    BY <1>2 DEF IInv, ShouldReuseConnection
  <2>2. ~rq.wrapped => ~Late(w.wire)
    BY <2>1 DEF ContinueInv, Settled
  <2>3. NoLateContinue
    BY <1>2, <2>2 DEF Late, NoLateContinue
  <2>4. QED
    BY <1>2, <2>3, InvClientAligned
<1>3. ~rq.wrapped /\ ~rq.duplex => RequestConsumed
  BY InvRequestConsumed DEF RequestConsumed
<1>4. QED
  BY <1>1, <1>2, <1>3 DEF ReuseInSync

\* What the invariant says of a connection that is closed.
LEMMA InvCloseAnnounced == IInv => CloseAnnounced
<1> SUFFICES ASSUME IInv, pc = "closed", ~werr, rq.proto >= 11, keep, ~rq.duplex,
                    w.contentLength \in {Unknown, w.written}, ~(w.sawEOF /\ w.earlyClose)
             PROVE  Client.closing
  BY DEF CloseAnnounced
<1>1. rq \in Request /\ w \in Response /\ Finished(w)
  BY EndedFacts DEF Ended
<1>2. PICK k \in 1..Len(w.wire) : HeaderAt(w, k, TRUE)
  BY EndedFacts DEF Ended
<1>3. rq.proto = 11
  <2>1. rq.proto \in {10, 11}
    BY <1>1, RequestFields
  <2>2. QED
    BY <2>1
<1>4. w.cwWroteHeader /\ StageInv(w, hh.cl) /\ RequestInv(w)
  BY <1>1 DEF Finished
<1>5. w.closeAfterReply
  <2>1. CASE rq.expect = "other"
    BY <1>4, <2>1 DEF StageInv
  <2>2. CASE BodyType = "body" /\ w.earlyClose
    <3>1. HasBody /\ ~w.sawEOF
      BY <1>4, <2>2 DEF RequestInv
    <3>2. ~rq.wrapped
      BY <2>2 DEF BodyType
    <3>3. QED
      BY <1>4, <3>1, <3>2 DEF RequestInv
  <2>3. CASE ~ShouldReuseConnection(w)
    BY <2>2, <2>3 DEF ShouldReuseConnection
  <2>4. QED
    BY <2>1, <2>3 DEF IInv
<1>6. "close" \in w.wire[k].h.conn
  BY <1>2, <1>3, <1>5 DEF HeaderAt, HeaderTells
<1>7. Min(Final) = k
  BY <1>1, <1>2, FinalFacts
<1>8. ShouldClose(rq.proto, w.wire[k].h.conn)
  BY <1>6 DEF ShouldClose
<1>9. QED
  BY <1>7, <1>8 DEF Client, ReadTransfer

\* writeHeader and shouldReuseConnection (server.go): the connection is kept
\* only when the client finds the end of this response where the next one will
\* start and the server has read the whole body of this request, whatever the
\* handler set, wrote and flushed, in any chunks, and wherever 100 Continue came
\* among them.  A handler that wrapped req.Body is the exception: its response
\* may hold 100 Continue behind the header, and its connection is kept.
THEOREM SpecReuseInSync == Spec => []ReuseInSync
<1>1. QED
  BY ResponseInvariant, ContinueInvariant, InvReuseInSync, PTL

\* response.Write, bufio and finishRequest: once the response is finished every
\* byte that was written and not refused is on the wire behind one final header.
THEOREM SpecNothingLost == Spec => []NothingLost
<1>1. QED
  BY ResponseInvariant, InvNothingLost, PTL

\* writeHeader and conn.serve: a connection that the server closes after the
\* reply was announced as closing to a client of HTTP/1.1, apart from the cases
\* that CloseAnnounced names.
THEOREM SpecCloseAnnounced == Spec => []CloseAnnounced
<1>1. QED
  BY ResponseInvariant, InvCloseAnnounced, PTL
=============================================================================
