----------------------------- MODULE BodyProofs -----------------------------
(***************************************************************************)
(* Proofs about Body, for any messages, extensions, limits and bounds.     *)
(* First what holds whatever is written: the types, the account of the     *)
(* chunkedReader, the limit of MaxBytesReader, what Close leaves.          *)
(***************************************************************************)
EXTENDS Body, SequenceTheorems, FiniteSetTheorems, WellFoundedInduction, TLAPS

\* A non-empty set of natural numbers has a least element.
LEMMA NatMin ==
  ASSUME NEW S, S \subseteq Nat, S # {}
  PROVE  \E x \in S : \A y \in S : x <= y
<1>1. \E x \in S : \A y \in S : ~ (<<y, x>> \in OpToRel(<, Nat))
  BY NatLessThanWellFounded, WFMin
<1>2. PICK x \in S : \A y \in S : ~ (<<y, x>> \in OpToRel(<, Nat))
  BY <1>1
<1>3. ASSUME NEW y \in S, y < x PROVE FALSE
  <2>1. <<y, x>> \in Nat \X Nat /\ <<y, x>>[1] = y /\ <<y, x>>[2] = x
    OBVIOUS
  <2>2. <<y, x>> \in OpToRel(<, Nat)
    BY <1>3, <2>1 DEF OpToRel
  <2>3. QED
    BY <1>2, <2>2
<1>4. QED
  <2>1. x \in Nat /\ \A y \in S : y \in Nat /\ ~(y < x)
    BY <1>3
  <2>2. \A y \in S : x <= y
    BY <2>1
  <2>3. QED
    BY <2>2

\* Min picks that element.
LEMMA MinOfNats ==
  ASSUME NEW S, S \subseteq Nat, S # {}
  PROVE  Min(S) \in S /\ \A y \in S : Min(S) <= y
BY NatMin DEF Min

\* A piece of a sequence.
LEMMA SubSeqFacts ==
  ASSUME NEW S, NEW s \in Seq(S), NEW m \in Int, NEW n \in Int,
         1 <= m, n <= Len(s)
  PROVE  /\ SubSeq(s, m, n) \in Seq(S)
         /\ Len(SubSeq(s, m, n)) = IF m <= n THEN n - m + 1 ELSE 0
         /\ \A i \in 1 .. n - m + 1 : SubSeq(s, m, n)[i] = s[m + i - 1]
<1>1. \A i \in m .. n : s[i] \in S
  BY LenProperties, ElementOfSeq
<1> QED BY <1>1, SubSeqProperties

TokenRec == [t : {"data", "size", "crlf", "trailer", "next", "none"}, v : Nat, len : Nat]

WriterRec == [isResponse : BOOLEAN, method : STRING, proto : {10, 11}, hasBody : BOOLEAN,
              n : Nat, fails : BOOLEAN, cl : Int, te : Seq(Codings), close : BOOLEAN,
              conn : Connections, trailer : {"none", "ok", "bad"}, head : BOOLEAN]

HeaderRec == [cls : Seq(Int), tes : Seq(Codings), conn : SUBSET Connections, trailer : {"none", "ok", "bad"}]

SentRec == [h : HeaderRec, data : Nat, whole : BOOLEAN, ext : Nat, next : BOOLEAN]

BodyRec == [src : {"none", "chunked", "limited", "raw"}, n : Nat, hdr : BOOLEAN,
            closing : BOOLEAN, doEarlyClose : BOOLEAN, sawEOF : BOOLEAN,
            closed : BOOLEAN, earlyClose : BOOLEAN]

CallRec == [op : {"none", "read", "drain"}, room : Nat, got : Nat, copied : Nat]

ReaderRec == [limit : Limits, n : Int, err : {"nil", "eof", "err", "closed", "toolarge"}]

Writers(m) == IF m.kind = "req" THEN RequestWriters(m) ELSE ResponseWriters(m)

TypeInv ==
  /\ TypeOK /\ msg \in Messages
  /\ (pc = "body" => tw \in Writers(msg)) /\ put \in Nat /\ sent \in SentRec
  /\ wire \in Seq(TokenRec) /\ b \in BodyRec /\ mb \in ReaderRec /\ call \in CallRec
  /\ taken \in Seq(TokenRec) /\ out \in Seq(TokenRec) /\ ended \in {"none", "eof", "err"}

Early == {"write", "body", "header"}

(* A call is under way just while src.Read is, on a body that is open and  *)
(* has not ended; nothing was read before the header was.                  *)
CallInv ==
  /\ pc # "src" => call = NoCall
  /\ pc = "src" => /\ call.op # "none" /\ b.src # "none" /\ ~b.closed /\ ~b.sawEOF
                   /\ ended # "eof"
  /\ call.op = "read" => mb.err = "nil"
  /\ call.got <= Len(taken) - Len(out)
  /\ pc \in Early => /\ taken = <<>> /\ out = <<>> /\ ended = "none" /\ mb.err = "nil"
                     /\ ~b.closed /\ ~b.sawEOF /\ b.src = "none"
  /\ ended = "eof" => b.sawEOF \/ b.src = "none"

(* A drain asks for no more than it may still take.                        *)
RoomInv ==
  /\ pc = "src" /\ b.src # "chunked" => call.room > 0 /\ call.got = 0
  /\ call.op = "drain" /\ b.doEarlyClose =>
       call.copied + call.got + call.room <= MaxPost

(* mb.n is what the limit leaves.                                          *)
LimitInv ==
  mb.limit >= 0 =>
    /\ pc \notin Early /\ mb.err # "toolarge" => mb.n >= 0 /\ Len(out) + mb.n = mb.limit
    /\ mb.err = "toolarge" => Len(taken) > mb.limit /\ Len(out) = mb.limit

(* The excess covers what was read beyond the allowance, the CRLF that     *)
(* ends the chunk at hand included.                                        *)
due == IF cr.n > 0 \/ cr.checkEnd THEN 2 ELSE 0
allowed == ChunkAllowance * over.chunks + 2 * over.data
AccountInv ==
  /\ cr.err = "nil" => cr.excess <= MaxExcess /\ over.bytes + due <= cr.excess + allowed
  /\ over.bytes <= MaxExcess + allowed
  /\ cr.checkEnd => cr.n = 0

ReadInv == TypeInv /\ CallInv /\ RoomInv /\ LimitInv /\ AccountInv /\ CloseAccounts

-----------------------------------------------------------------------------
(* The types of what is written *)

\* Min picks the smaller of two numbers.
LEMMA MinTwo ==
  ASSUME NEW x \in Int, NEW y \in Int
  PROVE  Min({x, y}) \in {x, y} /\ Min({x, y}) <= x /\ Min({x, y}) <= y
<1>1. CASE x <= y
  <2>1. \E z \in {x, y} : \A u \in {x, y} : z <= u
    BY <1>1
  <2> QED BY <2>1 DEF Min
<1>2. CASE y <= x
  <2>1. \E z \in {x, y} : \A u \in {x, y} : z <= u
    BY <1>2
  <2> QED BY <2>1 DEF Min
<1> QED BY <1>1, <1>2

\* A number has at least one digit, and no more digits than its value.
LEMMA HexFacts ==
  ASSUME NEW n \in Nat
  PROVE  HexDigits(n) \in Nat /\ HexDigits(n) >= 1 /\ (n > 0 => HexDigits(n) <= n)
<1> DEFINE D == {d \in 1 .. (n - 1) : 16 ^ d <= n}
<1>1. /\ IsFiniteSet(1 .. (n - 1))
      /\ Cardinality(1 .. (n - 1)) = IF 1 > n - 1 THEN 0 ELSE n - 1 - 1 + 1
  BY FS_Interval
<1>2. D \in SUBSET (1 .. (n - 1))
  OBVIOUS
<1>3. IsFiniteSet(D) /\ Cardinality(D) <= Cardinality(1 .. (n - 1)) /\ Cardinality(D) \in Nat
  BY <1>1, <1>2, FS_Subset, FS_CardinalityType
<1> HIDE DEF D
<1>4. HexDigits(n) = 1 + Cardinality(D)
  BY DEF HexDigits, D
<1> QED BY <1>1, <1>3, <1>4

LEMMA TokenTypes ==
  /\ \A i \in Nat : DataByte(i) \in TokenRec
  /\ \A n, ext \in Nat : SizeLine(n, ext) \in TokenRec
  /\ CRLF \in TokenRec /\ TrailerBlock \in TokenRec /\ NextMessage \in TokenRec
<1>1. \A n, ext \in Nat : SizeLine(n, ext) \in TokenRec
  <2> TAKE n, ext \in Nat
  <2>1. HexDigits(n) + 2 + ext \in Nat
    BY HexFacts
  <2> HIDE DEF HexDigits
  <2> QED BY <2>1 DEF SizeLine, Token, TokenRec
<1> QED BY <1>1 DEF DataByte, CRLF, TrailerBlock, NextMessage, Token, TokenRec

\* The bytes from one position to another.
LEMMA DataFacts ==
  ASSUME NEW from \in Nat, NEW to \in Nat, from <= to + 1
  PROVE  /\ DataBytes(from, to) \in Seq(TokenRec)
         /\ Len(DataBytes(from, to)) = to + 1 - from
         /\ \A i \in 1 .. to + 1 - from : DataBytes(from, to)[i] = DataByte(from + i - 1)
<1> DEFINE n == to - from + 1
           d == DataBytes(from, to)
<1>1. n \in Nat /\ n = to + 1 - from
  OBVIOUS
<1>2. d = [i \in 1 .. n |-> DataByte(from + i - 1)]
  BY DEF DataBytes
<1>3. \A i \in 1 .. n : DataByte(from + i - 1) \in TokenRec
  BY TokenTypes
<1> HIDE DEF n, d
<1>4. d \in [1 .. n -> TokenRec]
  BY <1>2, <1>3
<1>5. d \in Seq(TokenRec)
  BY <1>1, <1>4
<1>6. Len(d) = n
  BY <1>1, <1>4, <1>5
<1>7. \A i \in 1 .. n : d[i] = DataByte(from + i - 1)
  BY <1>2
<1> QED BY <1>1, <1>5, <1>6, <1>7 DEF d

LEMMA ChunkType ==
  ASSUME NEW at \in Nat, NEW k \in Nat, NEW ext \in Nat
  PROVE  ChunkTokens(at, k, ext) \in Seq(TokenRec)
<1>1. DataBytes(at + 1, at + k) \in Seq(TokenRec)
  <2>1. at + 1 \in Nat /\ at + k \in Nat /\ at + 1 <= at + k + 1
    OBVIOUS
  <2> QED BY <2>1, DataFacts
<1>2. <<SizeLine(k, ext)>> \in Seq(TokenRec) /\ <<CRLF>> \in Seq(TokenRec)
  BY TokenTypes
<1> QED BY <1>1, <1>2, ConcatProperties DEF ChunkTokens

LEMMA MessageTypes ==
  ASSUME NEW m \in Message
  PROVE  /\ m.kind \in {"req", "resp"} /\ m.method \in STRING /\ m.status \in Nat
         /\ m.proto \in {10, 11} /\ m.body \in {"nil", "NoBody", "reader"}
         /\ m.n \in Nat /\ m.fails \in BOOLEAN /\ m.cl \in Nat \cup {Unknown}
         /\ m.te \in Seq(Codings) /\ m.close \in BOOLEAN /\ m.conn \in Connections
         /\ m.trailer \in {"none", "ok", "bad"} /\ m.uncompressed \in BOOLEAN
         /\ (m.kind = "req" => m.proto = 11 /\ m.status = 200)
         /\ (m.body # "reader" => m.n = 0 /\ ~m.fails)
BY DEF Message

\* What the fields of a transferWriter are after Sanitize.
LEMMA SanitizeFacts ==
  ASSUME NEW w \in WriterRec
  PROVE  LET t == Sanitize(w)
         IN  /\ t \in WriterRec
             /\ t.isResponse = w.isResponse /\ t.method = w.method /\ t.proto = w.proto
             /\ t.n = w.n /\ t.fails = w.fails /\ t.close = w.close /\ t.conn = w.conn
             /\ t.head = w.head
             /\ t.te = IF ~w.head /\ (w.proto < 11 \/ ~w.hasBody) THEN <<>> ELSE w.te
             /\ t.hasBody = (w.hasBody /\ ~w.head)
             /\ t.cl = IF Chunked(t.te) THEN Unknown
                       ELSE IF ~w.head /\ ~w.hasBody THEN 0 ELSE w.cl
             /\ t.trailer = IF Chunked(t.te) THEN w.trailer ELSE "none"
<1> DEFINE te == IF ~w.head /\ (w.proto < 11 \/ ~w.hasBody) THEN <<>> ELSE w.te
           hb == w.hasBody /\ ~w.head
           cl == CASE Chunked(te) -> Unknown
                   [] ~Chunked(te) /\ ~w.head /\ ~w.hasBody -> 0
                   [] OTHER -> w.cl
           tr == IF Chunked(te) THEN w.trailer ELSE "none"
<1>1. te \in Seq(Codings)
  <2>1. <<>> \in Seq(Codings) /\ w.te \in Seq(Codings)
    BY DEF WriterRec
  <2> QED BY <2>1, Zenon
<1>2. hb \in BOOLEAN
  BY DEF WriterRec
<1>3. cl = IF Chunked(te) THEN Unknown ELSE IF ~w.head /\ ~w.hasBody THEN 0 ELSE w.cl
  OBVIOUS
<1>4. cl \in Int
  BY <1>3 DEF WriterRec, Unknown
<1>5. tr \in {"none", "ok", "bad"}
  BY DEF WriterRec
<1>6. Sanitize(w) = [w EXCEPT !.te = te, !.hasBody = hb, !.cl = cl, !.trailer = tr]
  BY DEF Sanitize
<1> HIDE DEF te, hb, cl, tr
<1>7. /\ Sanitize(w) \in WriterRec
      /\ Sanitize(w).isResponse = w.isResponse /\ Sanitize(w).method = w.method
      /\ Sanitize(w).proto = w.proto /\ Sanitize(w).n = w.n /\ Sanitize(w).fails = w.fails
      /\ Sanitize(w).close = w.close /\ Sanitize(w).conn = w.conn /\ Sanitize(w).head = w.head
      /\ Sanitize(w).te = te /\ Sanitize(w).hasBody = hb /\ Sanitize(w).cl = cl
      /\ Sanitize(w).trailer = tr
  <2> DEFINE t == [w EXCEPT !.te = te, !.hasBody = hb, !.cl = cl, !.trailer = tr]
             TE == Seq(Codings)
             TR == {"none", "ok", "bad"}
             PR == {10, 11}
             W == [isResponse : BOOLEAN, method : STRING, proto : PR, hasBody : BOOLEAN,
                   n : Nat, fails : BOOLEAN, cl : Int, te : TE, close : BOOLEAN,
                   conn : Connections, trailer : TR, head : BOOLEAN]
  <2>1. W = WriterRec
    BY Zenon DEF WriterRec
  <2>2. te \in TE /\ tr \in TR
    BY <1>1, <1>5
  <2> HIDE DEF TE, TR, PR
  <2>3. w \in W
    BY <2>1, Zenon
  <2>4. t \in W
    BY <1>2, <1>4, <2>2, <2>3
  <2>5. /\ t.isResponse = w.isResponse /\ t.method = w.method
        /\ t.proto = w.proto /\ t.n = w.n /\ t.fails = w.fails
    BY <2>3
  <2>6. t.close = w.close /\ t.conn = w.conn /\ t.head = w.head
    BY <2>3
  <2>7. t.te = te /\ t.hasBody = hb /\ t.cl = cl /\ t.trailer = tr
    BY <2>3
  <2>8. Sanitize(w) = t /\ t \in WriterRec
    BY <1>6, <2>1, <2>4, Zenon
  <2> HIDE DEF t
  <2> QED BY <2>5, <2>6, <2>7, <2>8
<1> QED BY <1>3, <1>7 DEF te, hb, tr

LEMMA OneCoding == <<"chunked">> \in Seq(Codings) /\ Chunked(<<"chunked">>) /\ ~Chunked(<<>>)
<1>1. "chunked" \in Codings
  BY DEF Codings
<1>2. ASSUME NEW s \in Codings PROVE <<s>> \in Seq(Codings) /\ <<s>> # <<>> /\ <<s>>[1] = s
  OBVIOUS
<1>3. <<"chunked">> \in Seq(Codings) /\ <<"chunked">> # <<>> /\ <<"chunked">>[1] = "chunked"
  BY <1>1, <1>2, Zenon
<1> QED BY <1>3, Zenon DEF Chunked

LEMMA FieldTypes ==
  ASSUME NEW m \in Message
  PROVE  LET t == TransferFields(m)
         IN  /\ t \in WriterRec
             /\ t.method = m.method /\ t.proto = m.proto /\ t.hasBody = (m.body # "nil")
             /\ t.n = m.n /\ t.fails = m.fails /\ t.cl = m.cl /\ t.te = m.te
             /\ t.close = m.close /\ t.conn = m.conn /\ t.trailer = m.trailer
             /\ t.head = (m.kind = "resp" /\ m.method = "HEAD")
<1>1. m.cl \in Int
  BY MessageTypes DEF Unknown
<1> QED BY <1>1, MessageTypes DEF TransferFields, WriterRec, NoResponseBodyExpected

LEMMA LengthTypes ==
  ASSUME NEW m \in Message
  PROVE  /\ OutgoingLength(m) \in Nat \cup {Unknown}
         /\ WriteLength(m) \in Nat \cup {Unknown}
         /\ WriteClose(m) \in BOOLEAN
<1>1. OutgoingLength(m) \in Nat \cup {Unknown}
  BY MessageTypes DEF OutgoingLength
<1>2. WriteLength(m) \in Nat \cup {Unknown}
  BY MessageTypes DEF WriteLength
<1>3. WriteClose(m) \in BOOLEAN
  BY MessageTypes DEF WriteClose
<1> QED BY <1>1, <1>2, <1>3

\* The transferWriters of a request: chunked encoding, or a known length, or
\* what its sender did not frame.
LEMMA RequestWriterIs ==
  ASSUME NEW m \in Message, NEW t \in RequestWriters(m)
  PROVE  \E w \in WriterRec :
           /\ t = Sanitize(w)
           /\ w.method = m.method /\ w.proto = m.proto /\ w.n = m.n /\ w.fails = m.fails
           /\ w.head = (m.kind = "resp" /\ m.method = "HEAD")
           /\ \/ /\ m.te = <<>> /\ m.method # "CONNECT" /\ OutgoingLength(m) = Unknown
                 /\ w.te = <<"chunked">> /\ w.hasBody = (m.body # "nil")
                 /\ w.cl = Unknown
              \/ /\ m.te = <<>> /\ m.n = 0 /\ ~m.fails
                 /\ w.te = <<>> /\ ~w.hasBody /\ w.cl = 0
              \/ /\ w.te = m.te /\ w.hasBody = (m.body # "nil")
                 /\ w.cl = OutgoingLength(m)
                 /\ ~(m.te = <<>> /\ m.method # "CONNECT" /\ OutgoingLength(m) < 0)
<1> DEFINE t0 == [TransferFields(m) EXCEPT !.cl = OutgoingLength(m)]
           asked == t0.cl < 0 /\ t0.te = <<>> /\ t0.method # "CONNECT"
<1>1. /\ t0 \in WriterRec
      /\ t0.method = m.method /\ t0.proto = m.proto /\ t0.hasBody = (m.body # "nil")
      /\ t0.n = m.n /\ t0.fails = m.fails /\ t0.cl = OutgoingLength(m) /\ t0.te = m.te
      /\ t0.head = (m.kind = "resp" /\ m.method = "HEAD")
  <2>1. OutgoingLength(m) \in Int
    BY LengthTypes DEF Unknown
  <2> QED BY <2>1, FieldTypes, SMTT(60) DEF WriterRec
<1> HIDE DEF t0
<1> DEFINE inChunks == [t0 EXCEPT !.te = <<"chunked">>]
           empty == [t0 EXCEPT !.hasBody = FALSE, !.cl = 0]
<1>2. <<"chunked">> \in Seq(Codings)
  BY OneCoding
<1>3. /\ inChunks \in WriterRec /\ inChunks.te = <<"chunked">> /\ inChunks.method = m.method
      /\ inChunks.proto = m.proto /\ inChunks.hasBody = (m.body # "nil") /\ inChunks.n = m.n
      /\ inChunks.fails = m.fails /\ inChunks.cl = OutgoingLength(m)
      /\ inChunks.head = (m.kind = "resp" /\ m.method = "HEAD")
  BY <1>1, <1>2 DEF WriterRec
<1>4. /\ empty \in WriterRec /\ empty.te = m.te /\ empty.method = m.method
      /\ empty.proto = m.proto /\ ~empty.hasBody /\ empty.n = m.n
      /\ empty.fails = m.fails /\ empty.cl = 0
      /\ empty.head = (m.kind = "resp" /\ m.method = "HEAD")
  <2> DEFINE hb == FALSE
             zero == 0
  <2>1. hb \in BOOLEAN /\ ~hb /\ zero \in Int /\ zero = 0
    OBVIOUS
  <2> HIDE DEF hb, zero
  <2>2. empty = [t0 EXCEPT !.hasBody = hb, !.cl = zero]
    BY DEF hb, zero
  <2>3. /\ empty \in WriterRec /\ empty.te = t0.te /\ empty.hasBody = hb /\ empty.cl = zero
        /\ empty.method = t0.method /\ empty.proto = t0.proto /\ empty.n = t0.n
        /\ empty.fails = t0.fails /\ empty.head = t0.head
    <3>1. t0 \in WriterRec
      BY <1>1
    <3> HIDE DEF empty
    <3> QED BY <2>1, <2>2, <3>1 DEF WriterRec
  <2> HIDE DEF empty
  <2> QED BY <1>1, <2>1, <2>3
<1>5. asked <=> m.te = <<>> /\ m.method # "CONNECT" /\ OutgoingLength(m) < 0
  BY <1>1
<1>6. OutgoingLength(m) < 0 <=> OutgoingLength(m) = Unknown
  BY LengthTypes DEF Unknown
<1>7. PICK w \in (CASE asked /\ UsuallyLacksBody(t0.method) -> ProbeRequestBody(t0)
                    [] asked /\ ~UsuallyLacksBody(t0.method) -> {inChunks}
                    [] OTHER -> {t0}) : t = Sanitize(w)
  BY DEF RequestWriters, t0
<1> HIDE DEF inChunks, empty, asked
<1>8. \/ asked /\ w = inChunks
      \/ asked /\ w = empty /\ t0.n = 0 /\ ~t0.fails
      \/ ~asked /\ w = t0
  <2>1. ProbeRequestBody(t0) = {inChunks} \cup IF t0.n = 0 /\ ~t0.fails THEN {empty} ELSE {}
    BY DEF ProbeRequestBody, inChunks, empty
  <2>2. CASE asked /\ UsuallyLacksBody(t0.method)
    BY <1>7, <2>1, <2>2
  <2>3. CASE asked /\ ~UsuallyLacksBody(t0.method)
    BY <1>7, <2>3
  <2>4. CASE ~asked
    BY <1>7, <2>4
  <2> QED BY <2>2, <2>3, <2>4
<1>9. CASE asked /\ w = inChunks
  BY <1>3, <1>5, <1>6, <1>7, <1>9
<1>10. CASE asked /\ w = empty /\ t0.n = 0 /\ ~t0.fails
  BY <1>1, <1>4, <1>5, <1>7, <1>10
<1>11. CASE ~asked /\ w = t0
  BY <1>1, <1>5, <1>7, <1>11
<1> QED BY <1>8, <1>9, <1>10, <1>11

LEMMA ResponseWriterIs ==
  ASSUME NEW m \in Message, NEW t \in ResponseWriters(m)
  PROVE  \E w \in WriterRec :
           /\ t = Sanitize(w)
           /\ w.method = m.method /\ w.proto = m.proto /\ w.n = m.n /\ w.fails = m.fails
           /\ w.head = (m.kind = "resp" /\ m.method = "HEAD")
           /\ w.te = m.te /\ w.hasBody = (m.body # "nil")
           /\ w.cl = WriteLength(m) /\ w.close = WriteClose(m)
<1> DEFINE w == [TransferFields(m) EXCEPT !.cl = WriteLength(m), !.close = WriteClose(m)]
<1>1. t = Sanitize(w)
  BY DEF ResponseWriters
<1>2. WriteLength(m) \in Int /\ WriteClose(m) \in BOOLEAN
  BY LengthTypes DEF Unknown
<1>3. /\ w \in WriterRec
      /\ w.method = m.method /\ w.proto = m.proto /\ w.hasBody = (m.body # "nil")
      /\ w.n = m.n /\ w.fails = m.fails /\ w.te = m.te
      /\ w.head = (m.kind = "resp" /\ m.method = "HEAD")
      /\ w.cl = WriteLength(m) /\ w.close = WriteClose(m)
  <2> DEFINE f == TransferFields(m)
             cl == WriteLength(m)
             close == WriteClose(m)
  <2>1. /\ f \in WriterRec
        /\ f.method = m.method /\ f.proto = m.proto /\ f.hasBody = (m.body # "nil")
        /\ f.n = m.n /\ f.fails = m.fails /\ f.te = m.te
        /\ f.head = (m.kind = "resp" /\ m.method = "HEAD")
    BY FieldTypes
  <2> HIDE DEF f, cl, close
  <2>2. w = [f EXCEPT !.cl = cl, !.close = close]
    BY DEF f, cl, close
  <2>3. /\ w \in WriterRec /\ w.cl = cl /\ w.close = close
        /\ w.method = f.method /\ w.proto = f.proto /\ w.hasBody = f.hasBody
        /\ w.n = f.n /\ w.fails = f.fails /\ w.te = f.te /\ w.head = f.head
    <3>1. cl \in Int /\ close \in BOOLEAN
      BY <1>2 DEF cl, close
    <3> HIDE DEF w
    <3> QED BY <2>1, <2>2, <3>1 DEF WriterRec
  <2> HIDE DEF w
  <2> QED BY <2>1, <2>3 DEF cl, close
<1> HIDE DEF w
<1> QED BY <1>1, <1>3

LEMMA WriterTypes ==
  ASSUME NEW m \in Message, NEW t \in Writers(m)
  PROVE  t \in WriterRec
BY MessageTypes, RequestWriterIs, ResponseWriterIs, SanitizeFacts DEF Writers

LEMMA BytesType ==
  ASSUME NEW t \in WriterRec
  PROVE  BytesWritten(t) \in Int /\ (t.cl >= -1 => BytesWritten(t) \in Nat)
<1>1. t.n \in Nat /\ t.cl \in Int /\ t.hasBody \in BOOLEAN
  BY DEF WriterRec
<1>2. CASE ~t.hasBody
  BY <1>2 DEF BytesWritten
<1>3. CASE t.hasBody /\ t.cl = Unknown
  BY <1>1, <1>3 DEF BytesWritten
<1>4. CASE t.hasBody /\ t.cl # Unknown
  <2>1. BytesWritten(t) = Min({t.n, t.cl})
    BY <1>4 DEF BytesWritten
  <2>2. \A x, y \in Int : Min({x, y}) \in {x, y}
    BY MinTwo
  <2>3. t.n \in Int /\ t.cl \in Int
    BY <1>1
  <2>4. Min({t.n, t.cl}) \in {t.n, t.cl}
    BY <2>2, <2>3, Zenon
  <2> QED BY <1>1, <1>4, <2>1, <2>4 DEF Unknown
<1> QED BY <1>1, <1>2, <1>3, <1>4

LEMMA WriterFacts ==
  ASSUME NEW m \in Message, NEW t \in Writers(m)
  PROVE  t \in WriterRec /\ t.cl >= -1 /\ BytesWritten(t) \in Nat
<1>1. t \in WriterRec
  BY WriterTypes
<1>2. \E w \in WriterRec : t = Sanitize(w) /\ w.cl \in Nat \cup {Unknown}
  <2>1. CASE m.kind = "req"
    <3>1. t \in RequestWriters(m)
      BY <2>1 DEF Writers
    <3>2. OutgoingLength(m) \in Nat \cup {Unknown}
      BY LengthTypes
    <3> QED BY <3>1, <3>2, RequestWriterIs
  <2>2. CASE m.kind # "req"
    <3>1. t \in ResponseWriters(m)
      BY <2>2 DEF Writers
    <3>2. WriteLength(m) \in Nat \cup {Unknown}
      BY LengthTypes
    <3> QED BY <3>1, <3>2, ResponseWriterIs
  <2> QED BY <2>1, <2>2
<1>3. t.cl >= -1
  <2>1. PICK w \in WriterRec : t = Sanitize(w) /\ w.cl \in Nat \cup {Unknown}
    BY <1>2
  <2>2. t.cl = IF Chunked(t.te) THEN Unknown ELSE IF ~w.head /\ ~w.hasBody THEN 0 ELSE w.cl
    BY <2>1, SanitizeFacts
  <2> QED BY <2>1, <2>2 DEF Unknown
<1> QED BY <1>1, <1>3, BytesType

LEMMA HeaderType ==
  ASSUME NEW m \in Message, NEW t \in WriterRec
  PROVE  WrittenHeader(m, t) \in HeaderRec
<1> DEFINE cls == CASE ShouldSendContentLength(t) -> <<t.cl>>
                    [] AddsZeroLength(m, t) -> <<0>>
                    [] OTHER -> <<>>
           tes == IF Chunked(t.te) THEN <<"chunked">> ELSE <<>>
           conn == ((IF t.close THEN {"close"} ELSE {}) \cup {m.conn}) \ {""}
<1>1. cls \in Seq(Int)
  <2>1. t.cl \in Int
    BY DEF WriterRec
  <2>2. <<t.cl>> \in Seq(Int) /\ <<0>> \in Seq(Int) /\ <<>> \in Seq(Int)
    BY <2>1
  <2> QED BY <2>2, Zenon
<1>2. tes \in Seq(Codings)
  <2>1. <<>> \in Seq(Codings)
    OBVIOUS
  <2> QED BY <2>1, OneCoding, Zenon
<1>3. conn \in SUBSET Connections
  BY MessageTypes, ZenonT(60) DEF Connections
<1>4. t.trailer \in {"none", "ok", "bad"}
  BY DEF WriterRec
<1>5. WrittenHeader(m, t) = [cls |-> cls, tes |-> tes, conn |-> conn, trailer |-> t.trailer]
  BY DEF WrittenHeader
<1> HIDE DEF cls, tes, conn
<1> QED BY <1>1, <1>2, <1>3, <1>4, <1>5 DEF HeaderRec

LEMMA EndType ==
  ASSUME NEW t \in WriterRec, BytesWritten(t) \in Nat, NEW ext \in Nat
  PROVE  WrittenAtEnd(t, ext) \in Seq(TokenRec)
<1> DEFINE end == IF t.trailer = "ok" THEN <<TrailerBlock>> ELSE <<CRLF>>
           last == <<SizeLine(0, ext)>>
<1>1. end \in Seq(TokenRec) /\ last \in Seq(TokenRec) /\ <<>> \in Seq(TokenRec)
  <2>1. <<TrailerBlock>> \in Seq(TokenRec) /\ <<CRLF>> \in Seq(TokenRec)
    BY TokenTypes
  <2>2. <<SizeLine(0, ext)>> \in Seq(TokenRec)
    BY TokenTypes
  <2> QED BY <2>1, <2>2
<1>2. last \o end \in Seq(TokenRec)
  BY <1>1, ConcatProperties
<1>3. DataBytes(1, BytesWritten(t)) \in Seq(TokenRec)
  BY DataFacts
<1>4. WrittenAtEnd(t, ext) \in {last \o end, <<>>, end, DataBytes(1, BytesWritten(t))}
  <2> HIDE DEF end, last
  <2>1. CASE Chunked(t.te) /\ t.hasBody
    BY <2>1 DEF WrittenAtEnd, end, last
  <2>2. CASE Chunked(t.te) /\ ~t.hasBody
    BY <2>2 DEF WrittenAtEnd, end, last
  <2>3. CASE ~Chunked(t.te)
    BY <2>3 DEF WrittenAtEnd, end, last
  <2> QED BY <2>1, <2>2, <2>3
<1> HIDE DEF end, last
<1> QED BY <1>1, <1>2, <1>3, <1>4, Zenon

LEMMA TransferType ==
  ASSUME NEW kind, NEW status, NEW method, NEW proto, NEW h \in HeaderRec
  PROVE  LET rt == ReadTransfer(kind, status, method, proto, h)
         IN  /\ rt.src \in {"none", "chunked", "limited", "raw"} /\ rt.n \in Nat
             /\ rt.hdr \in BOOLEAN /\ rt.closing \in BOOLEAN
             /\ rt.src = "limited" => rt.n > 0
<1> DEFINE real == FixLength(kind, status, method, proto, h)
<1>1. real \in Int
  <2>1. h.cls # <<>> => h.cls[1] \in Int
    BY ElementOfSeq, EmptySeq DEF HeaderRec
  <2> DEFINE x == IF IsChunked(proto, h) THEN Unknown
                  ELSE IF h.cls # <<>> THEN h.cls[1]
                  ELSE IF kind = "req" THEN 0 ELSE Unknown
  <2>2. x \in Int
    BY <2>1 DEF Unknown
  <2>3. real = 0 \/ real = x
    <3> HIDE DEF x
    <3>1. real = CASE kind = "resp" /\ NoResponseBodyExpected(method) -> 0
                   [] status \in 100..199 \cup {204, 304} -> 0
                   [] OTHER -> x
      BY DEF FixLength, x
    <3> HIDE DEF real
    <3> QED BY <3>1
  <2> QED BY <2>2, <2>3
<1> HIDE DEF real
<1> QED BY <1>1 DEF ReadTransfer, IsChunked, ShouldClose, real

-----------------------------------------------------------------------------
(* The steps, whatever is written *)

\* While nothing is read the reader's side stays as it is.
LEMMA ReaderRests ==
  ASSUME ReadInv, pc \in Early, pc' \in Early,
         UNCHANGED <<b, cr, mb, call, taken, out, ended, over>>
  PROVE  CallInv' /\ RoomInv' /\ LimitInv' /\ AccountInv' /\ CloseAccounts'
<1>1. pc # "src" /\ pc' # "src"
  BY DEF Early
<1>2. CallInv'
  BY <1>1 DEF ReadInv, CallInv
<1>3. RoomInv'
  BY <1>1 DEF ReadInv, RoomInv
<1>4. LimitInv'
  BY DEF ReadInv, LimitInv
<1>5. AccountInv'
  BY DEF ReadInv, AccountInv, due, allowed
<1>6. CloseAccounts'
  BY DEF ReadInv, CloseAccounts
<1> QED BY <1>2, <1>3, <1>4, <1>5, <1>6

LEMMA InitReadInv ==
  ASSUME Init
  PROVE  ReadInv
<1> USE BodyAssumption
<1>1. TypeInv
  <2>1. sent \in SentRec
    <3>1. <<>> \in Seq(Int) /\ <<>> \in Seq(Codings)
      OBVIOUS
    <3> QED BY <3>1 DEF Init, NoSent, SentRec, HeaderRec
  <2>2. mb \in ReaderRec
    BY DEF Init, ReaderRec
  <2>3. call \in CallRec
    BY DEF Init, NoCall, CallRec
  <2>4. b \in BodyRec
    BY DEF Init, BodyRec
  <2>5. TypeOK
    BY DEF Init, TypeOK
  <2>6. <<>> \in Seq(TokenRec)
    OBVIOUS
  <2> QED BY <2>1, <2>2, <2>3, <2>4, <2>5, <2>6 DEF Init, TypeInv
<1>2. CallInv /\ RoomInv /\ CloseAccounts
  BY DEF Init, CallInv, RoomInv, NoCall, Early, CloseAccounts
<1>3. LimitInv
  BY DEF Init, LimitInv, Early
<1>4. AccountInv
  BY DEF Init, AccountInv, due, allowed
<1> QED BY <1>1, <1>2, <1>3, <1>4 DEF ReadInv

LEMMA WriteHeaderReads ==
  ASSUME ReadInv, pc = "write", NEW writers, writers \subseteq Writers(msg),
         WriteHeader(writers)
  PROVE  ReadInv'
<1> USE BodyAssumption
<1>1. PICK t \in {s \in writers : s.trailer # "bad"}, ext \in Extensions :
        /\ tw' = t
        /\ sent' = [NoSent EXCEPT !.h = WrittenHeader(msg, t), !.data = BytesWritten(t),
                                  !.ext = ext]
  BY DEF WriteHeader
<1>2. /\ pc' = "body"
      /\ UNCHANGED <<msg, put, wire, b, cr, mb, call, taken, out, ended, over>>
  BY DEF WriteHeader
<1>3. msg \in Message /\ t \in Writers(msg)
  BY DEF ReadInv, TypeInv
<1>4. t \in WriterRec /\ BytesWritten(t) \in Nat
  BY <1>3, WriterFacts
<1>5. WrittenHeader(msg, t) \in HeaderRec
  BY <1>3, <1>4, HeaderType
<1>6. sent' \in SentRec
  <2> DEFINE h == WrittenHeader(msg, t)
             data == BytesWritten(t)
  <2>1. h \in HeaderRec /\ data \in Nat /\ ext \in Nat
    BY <1>4, <1>5
  <2> HIDE DEF h, data
  <2>2. sent' = [h |-> h, data |-> data, whole |-> FALSE, ext |-> ext, next |-> FALSE]
    BY <1>1 DEF NoSent, h, data
  <2> QED BY <2>1, <2>2 DEF SentRec
<1>7. TypeInv'
  BY <1>1, <1>2, <1>3, <1>6 DEF ReadInv, TypeInv, TypeOK
<1>8. pc \in Early /\ pc' \in Early
  BY <1>2 DEF Early
<1> QED BY <1>2, <1>7, <1>8, ReaderRests DEF ReadInv

LEMMA WriteChunkReads ==
  ASSUME ReadInv, WriteChunk
  PROVE  ReadInv'
<1>1. PICK k \in 1 .. (tw.n - put) :
        wire' = wire \o ChunkTokens(put, k, sent.ext) /\ put' = put + k
  BY DEF WriteChunk
<1>2. /\ pc = "body" /\ pc' = pc
      /\ UNCHANGED <<msg, tw, sent, b, cr, mb, call, taken, out, ended, over>>
  BY DEF WriteChunk
<1>3. put \in Nat /\ tw.n \in Nat /\ sent.ext \in Nat /\ k \in Nat /\ wire \in Seq(TokenRec)
  <2>1. tw \in WriterRec
    BY <1>2, BodyAssumption, WriterFacts DEF ReadInv, TypeInv
  <2>2. put \in Nat /\ sent.ext \in Nat /\ wire \in Seq(TokenRec)
    BY DEF ReadInv, TypeInv, SentRec
  <2>3. tw.n \in Nat
    BY <2>1 DEF WriterRec
  <2> QED BY <2>2, <2>3
<1>4. wire' \in Seq(TokenRec) /\ put' \in Nat
  <2>1. ChunkTokens(put, k, sent.ext) \in Seq(TokenRec)
    BY <1>3, ChunkType
  <2>2. wire \o ChunkTokens(put, k, sent.ext) \in Seq(TokenRec)
    BY <1>3, <2>1, ConcatProperties
  <2>3. put + k \in Nat
    BY <1>3
  <2> QED BY <1>1, <2>2, <2>3
<1>5. TypeInv'
  BY <1>2, <1>4 DEF ReadInv, TypeInv, TypeOK
<1>6. pc \in Early /\ pc' \in Early
  BY <1>2 DEF Early
<1> QED BY <1>2, <1>5, <1>6, ReaderRests DEF ReadInv

LEMMA WriteEndReads ==
  ASSUME ReadInv, WriteEnd
  PROVE  ReadInv'
<1> DEFINE bytes == wire \o WrittenAtEnd(tw, sent.ext)
           whole == WriteSucceeds(tw)
           more  == whole /\ ~ShouldClose(msg.proto, sent.h.conn)
<1>1. /\ \/ /\ sent' = [sent EXCEPT !.whole = whole, !.next = more]
            /\ wire' = IF more THEN Append(bytes, NextMessage) ELSE bytes
         \/ \E k \in 0 .. (Len(bytes) - 1) : wire' = SubSeq(bytes, 1, k) /\ UNCHANGED sent
      /\ pc = "body" /\ pc' = "header" /\ put' = 0
      /\ UNCHANGED <<msg, b, cr, mb, call, taken, out, ended, over>>
  BY DEF WriteEnd
<1>2. bytes \in Seq(TokenRec)
  <2>1. tw \in WriterRec /\ BytesWritten(tw) \in Nat
    BY <1>1, BodyAssumption, WriterFacts DEF ReadInv, TypeInv
  <2>2. sent.ext \in Nat /\ wire \in Seq(TokenRec)
    BY DEF ReadInv, TypeInv, SentRec
  <2> QED BY <2>1, <2>2, EndType, ConcatProperties
<1>3. whole \in BOOLEAN /\ more \in BOOLEAN
  BY DEF WriteSucceeds
<1> HIDE DEF bytes, whole, more
<1>4. wire' \in Seq(TokenRec) /\ sent' \in SentRec
  <2>1. CASE /\ sent' = [sent EXCEPT !.whole = whole, !.next = more]
             /\ wire' = IF more THEN Append(bytes, NextMessage) ELSE bytes
    <3>1. Append(bytes, NextMessage) \in Seq(TokenRec)
      BY <1>2, TokenTypes, AppendProperties
    <3>2. sent' \in SentRec
      BY <1>3, <2>1 DEF ReadInv, TypeInv, SentRec
    <3> QED BY <1>2, <2>1, <3>1, <3>2
  <2>2. ASSUME NEW k \in 0 .. (Len(bytes) - 1), wire' = SubSeq(bytes, 1, k), UNCHANGED sent
        PROVE  wire' \in Seq(TokenRec) /\ sent' \in SentRec
    <3>1. Len(bytes) \in Nat
      BY <1>2, LenProperties
    <3>2. k \in Int /\ k <= Len(bytes)
      BY <3>1
    <3>3. SubSeq(bytes, 1, k) \in Seq(TokenRec)
      BY <1>2, <3>2, SubSeqFacts
    <3> QED BY <2>2, <3>3 DEF ReadInv, TypeInv
  <2> QED BY <1>1, <2>1, <2>2
<1>5. TypeInv'
  BY <1>1, <1>4 DEF ReadInv, TypeInv, TypeOK
<1>6. pc \in Early /\ pc' \in Early
  BY <1>1 DEF Early
<1> QED BY <1>1, <1>5, <1>6, ReaderRests DEF ReadInv

LEMMA ReadHeaderReads ==
  ASSUME ReadInv, ReadHeader
  PROVE  ReadInv'
<1> USE BodyAssumption
<1> DEFINE rt    == ReadTransfer(msg.kind, msg.status, msg.method, msg.proto, sent.h)
           early == msg.kind = "req"
<1>1. /\ b' = [b EXCEPT !.src = rt.src, !.n = rt.n, !.hdr = rt.hdr, !.closing = rt.closing,
                        !.doEarlyClose = early]
      /\ mb' = [mb EXCEPT !.n = mb.limit]
      /\ pc = "header" /\ pc' = "idle"
      /\ UNCHANGED <<msg, tw, put, sent, wire, cr, call, taken, out, ended, over>>
  BY DEF ReadHeader
<1>2. sent.h \in HeaderRec /\ b \in BodyRec /\ mb \in ReaderRec
  BY DEF ReadInv, TypeInv, SentRec
<1>3. /\ rt.src \in {"none", "chunked", "limited", "raw"} /\ rt.n \in Nat
      /\ rt.hdr \in BOOLEAN /\ rt.closing \in BOOLEAN /\ early \in BOOLEAN
  BY <1>2, TransferType
<1> HIDE DEF rt, early
<1>4. b' \in BodyRec /\ b'.closed = b.closed /\ b'.sawEOF = b.sawEOF
  BY <1>1, <1>2, <1>3 DEF BodyRec
<1>5. mb.limit \in Int
  <2>1. mb.limit \in Limits
    BY <1>2 DEF ReaderRec
  <2>2. Limits \subseteq Int
    BY BodyAssumption
  <2> QED BY <2>1, <2>2
<1>6. mb' \in ReaderRec /\ mb'.n = mb.limit /\ mb'.limit = mb.limit /\ mb'.err = mb.err
  BY <1>1, <1>2, <1>5 DEF ReaderRec
<1>7. TypeInv'
  BY <1>1, <1>4, <1>6 DEF ReadInv, TypeInv, TypeOK
<1>8. pc \in Early /\ "idle" \notin Early
  BY <1>1 DEF Early
<1>9. /\ taken = <<>> /\ out = <<>> /\ ended = "none" /\ mb.err = "nil"
      /\ ~b.closed /\ ~b.sawEOF /\ call = NoCall
  BY <1>1, <1>8 DEF ReadInv, CallInv
<1>10. CallInv'
  <2>1. call'.got = 0 /\ call'.op = "none"
    BY <1>1, <1>9 DEF NoCall
  <2>2. Len(taken') - Len(out') = 0
    BY <1>1, <1>9
  <2> QED BY <1>1, <1>8, <1>9, <2>1, <2>2 DEF CallInv
<1>11. RoomInv'
  BY <1>1, <1>9 DEF RoomInv, NoCall
<1>12. LimitInv'
  <2>1. Len(out') = 0
    BY <1>1, <1>9
  <2> QED BY <1>1, <1>5, <1>6, <1>9, <2>1 DEF LimitInv
<1>13. AccountInv'
  BY <1>1 DEF ReadInv, AccountInv, due, allowed
<1>14. CloseAccounts'
  BY <1>4, <1>9 DEF CloseAccounts
<1> QED BY <1>7, <1>10, <1>11, <1>12, <1>13, <1>14 DEF ReadInv

\* What a Read gives: the tokens up to the limit of the maxBytesReader.
LEMMA DeliverFacts ==
  ASSUME TypeInv, LimitInv, pc \notin Early, mb.err = "nil",
         NEW tokens \in Seq(TokenRec),
         NEW e \in {"nil", "eof", "err", "closed"}, Deliver(tokens, e)
  PROVE  /\ out' \in Seq(TokenRec) /\ ended' = First(e) /\ mb' \in ReaderRec
         /\ mb'.limit = mb.limit
         /\ Len(out') <= Len(out) + Len(tokens)
         /\ mb'.err # "toolarge" => Len(out') = Len(out) + Len(tokens)
         /\ \A i \in 1 .. Len(out) : out'[i] = out[i]
         /\ \A i \in 1 .. Len(out') - Len(out) : out'[Len(out) + i] = tokens[i]
         /\ mb.limit >= 0 =>
              /\ mb'.err # "toolarge" => mb'.n >= 0 /\ Len(out') + mb'.n = mb.limit
              /\ mb'.err = "toolarge" =>
                   Len(out) + Len(tokens) > mb.limit /\ Len(out') = mb.limit
         /\ mb.limit < 0 => mb' = mb
<1> USE BodyAssumption
<1> DEFINE k    == Len(tokens)
           err  == IF Within(k) THEN e ELSE "toolarge"
           give == IF Within(k) THEN k ELSE mb.n
           left == IF Within(k) THEN mb.n - k ELSE 0
           part == SubSeq(tokens, 1, give)
<1>1. /\ out' = out \o part /\ ended' = First(e)
      /\ mb' = IF mb.limit < 0 THEN mb ELSE [mb EXCEPT !.n = left, !.err = err]
  BY DEF Deliver
<1>2. out \in Seq(TokenRec) /\ mb \in ReaderRec /\ Len(out) \in Nat /\ k \in Nat
  BY LenProperties DEF TypeInv
<1>3. mb.limit \in Int /\ mb.n \in Int
  <2>1. mb.limit \in Limits /\ mb.n \in Int
    BY <1>2 DEF ReaderRec
  <2>2. Limits \subseteq Int
    BY BodyAssumption
  <2> QED BY <2>1, <2>2
<1>4. mb.limit >= 0 => mb.n >= 0 /\ Len(out) + mb.n = mb.limit
  BY DEF LimitInv
<1>5. give \in Nat /\ give <= k /\ (Within(k) => give = k) /\ left \in Int
  BY <1>2, <1>3, <1>4 DEF Within
<1>6. mb.limit >= 0 => IF Within(k) THEN k <= mb.n /\ left = mb.n - k
                                    ELSE k > mb.n /\ left = 0 /\ give = mb.n
  BY <1>2, <1>3, <1>4 DEF Within
<1>7. mb.limit < 0 => Within(k)
  BY DEF Within
<1>8. Within(k) => err = e
  OBVIOUS
<1>9. ~Within(k) => err = "toolarge"
  OBVIOUS
<1> HIDE DEF left, err
<1>10. part \in Seq(TokenRec) /\ Len(part) = give /\ \A i \in 1 .. give : part[i] = tokens[i]
  <2>1. /\ part \in Seq(TokenRec)
        /\ Len(part) = IF 1 <= give THEN give - 1 + 1 ELSE 0
        /\ \A i \in 1 .. give - 1 + 1 : part[i] = tokens[1 + i - 1]
    BY <1>5, SubSeqFacts
  <2> HIDE DEF part, give
  <2>2. give - 1 + 1 = give /\ \A i \in 1 .. give : 1 + i - 1 = i
    BY <1>5
  <2> QED BY <1>5, <2>1, <2>2, SMTT(60)
<1> HIDE DEF part, give, k
<1>11. /\ out' \in Seq(TokenRec) /\ Len(out') = Len(out) + give
       /\ \A i \in 1 .. Len(out) + give :
            out'[i] = IF i <= Len(out) THEN out[i] ELSE part[i - Len(out)]
  BY <1>1, <1>2, <1>5, <1>10, ConcatProperties, ZenonT(60)
<1>12. \A i \in 1 .. Len(out) : out'[i] = out[i]
  BY <1>2, <1>5, <1>11
<1>13. \A i \in 1 .. Len(out') - Len(out) : out'[Len(out) + i] = tokens[i]
  <2> TAKE i \in 1 .. Len(out') - Len(out)
  <2>1. i \in 1 .. give /\ Len(out) + i \in 1 .. Len(out) + give /\ ~(Len(out) + i <= Len(out))
        /\ Len(out) + i - Len(out) = i
    BY <1>2, <1>5, <1>11
  <2>2. out'[Len(out) + i] = part[Len(out) + i - Len(out)]
    BY <1>11, <2>1
  <2> QED BY <1>10, <2>1, <2>2
<1>14. err \in {"nil", "eof", "err", "closed", "toolarge"}
  BY <1>8, <1>9
<1>15. mb' \in ReaderRec /\ mb'.limit = mb.limit
  BY <1>1, <1>2, <1>5, <1>14 DEF ReaderRec
<1>16. CASE mb.limit < 0
  <2>1. mb' = mb /\ give = k
    BY <1>1, <1>5, <1>7, <1>16
  <2>2. ~(mb.limit >= 0)
    BY <1>3, <1>16
  <2> QED BY <1>1, <1>2, <1>5, <1>11, <1>12, <1>13, <1>15, <2>1, <2>2, SMTT(60) DEF k
<1>17. CASE mb.limit >= 0
  <2>1. ~(mb.limit < 0)
    BY <1>3, <1>17
  <2>2. mb'.n = left /\ mb'.err = err
    BY <1>1, <1>2, <2>1 DEF ReaderRec
  <2>3. CASE Within(k)
    <3>1. err # "toolarge"
      BY <1>8, <2>3
    <3>2. mb'.n = mb.n - k /\ k <= mb.n /\ Len(out') = Len(out) + k
      BY <1>5, <1>6, <1>11, <1>17, <2>2, <2>3
    <3>3. mb'.n >= 0 /\ Len(out') + mb'.n = mb.limit /\ Len(out') <= Len(out) + k
      BY <1>2, <1>3, <1>4, <1>17, <3>2
    <3> QED BY <1>1, <1>11, <1>12, <1>13, <1>15, <2>1, <2>2, <3>1, <3>2, <3>3 DEF k
  <2>4. CASE ~Within(k)
    <3>1. err = "toolarge"
      BY <1>9, <2>4
    <3>2. k > mb.n /\ Len(out') = Len(out) + mb.n
      BY <1>6, <1>11, <1>17, <2>4
    <3>3. Len(out) + k > mb.limit /\ Len(out') = mb.limit /\ Len(out') <= Len(out) + k
      BY <1>2, <1>3, <1>4, <1>17, <3>2
    <3> QED BY <1>1, <1>11, <1>12, <1>13, <1>15, <2>1, <2>2, <3>1, <3>2, <3>3 DEF k
  <2> QED BY <2>3, <2>4
<1> QED BY <1>3, <1>16, <1>17, SMTT(60)

LEMMA ReadReads ==
  ASSUME ReadInv, NEW k \in 1 .. MaxRead, Read(k)
  PROVE  ReadInv'
<1> USE BodyAssumption
<1>1. /\ pc = "idle" /\ mb.err = "nil" /\ pc \notin Early
      /\ UNCHANGED <<msg, tw, put, sent, wire, b, cr, taken, over>>
  BY DEF Read, Early
<1>2. call = NoCall /\ call.op = "none"
  BY <1>1 DEF ReadInv, CallInv, NoCall
<1>3. AccountInv'
  BY <1>1 DEF ReadInv, AccountInv, due, allowed
<1>4. CASE b.src = "none" \/ b.closed \/ b.sawEOF
  <2> DEFINE e == IF b.src # "none" /\ b.closed THEN "closed" ELSE "eof"
  <2>1. Deliver(<<>>, e) /\ UNCHANGED <<pc, call>>
    BY <1>4 DEF Read
  <2>2. e \in {"nil", "eof", "err", "closed"}
    OBVIOUS
  <2>3. e = "eof" => b.src = "none" \/ b.sawEOF
    BY <1>4
  <2> HIDE DEF e
  <2>4. <<>> \in Seq(TokenRec) /\ Len(<<>>) = 0
    OBVIOUS
  <2>5. /\ out' \in Seq(TokenRec) /\ ended' = First(e) /\ mb' \in ReaderRec
        /\ mb'.limit = mb.limit /\ Len(out') <= Len(out) + 0
        /\ mb.limit >= 0 =>
              /\ mb'.err # "toolarge" => mb'.n >= 0 /\ Len(out') + mb'.n = mb.limit
              /\ mb'.err = "toolarge" => Len(out) + 0 > mb.limit /\ Len(out') = mb.limit
    BY <1>1, <2>1, <2>2, <2>4, DeliverFacts, ZenonT(60) DEF ReadInv
  <2>6. Len(out) \in Nat /\ Len(out') \in Nat /\ Len(taken) \in Nat
    BY <2>5, LenProperties DEF ReadInv, TypeInv
  <2>7. call.got = 0 /\ 0 <= Len(taken) - Len(out)
    BY <1>2 DEF ReadInv, CallInv, NoCall
  <2>8. Len(out') <= Len(out) /\ Len(out') <= Len(taken) /\ Len(out) <= Len(taken)
    BY <2>5, <2>6, <2>7
  <2>9. TypeInv'
    <3>1. ended' \in {"none", "eof", "err"}
      BY <2>2, <2>5 DEF First, ReadInv, TypeInv
    <3> QED BY <1>1, <2>1, <2>5, <3>1 DEF ReadInv, TypeInv, TypeOK
  <2>10. CallInv'
    <3>1. ended' = "eof" => b.sawEOF \/ b.src = "none"
      BY <2>3, <2>5 DEF First, ReadInv, CallInv
    <3>2. 0 <= Len(taken) - Len(out')
      BY <2>6, <2>8
    <3> QED BY <1>1, <1>2, <2>1, <2>7, <3>1, <3>2 DEF CallInv
  <2>11. RoomInv'
    BY <1>1, <1>2, <2>1 DEF RoomInv
  <2>12. LimitInv'
    <3>1. ASSUME mb.limit >= 0, mb'.err = "toolarge"
          PROVE  Len(taken) > mb.limit
      <4>1. mb.limit \in Int
        <5>1. mb.limit \in Limits
          BY DEF ReadInv, TypeInv, ReaderRec
        <5>2. Limits \subseteq Int
          BY BodyAssumption
        <5> QED BY <5>1, <5>2
      <4> QED BY <2>5, <2>6, <2>8, <3>1, <4>1
    <3> QED BY <1>1, <2>5, <3>1 DEF LimitInv
  <2>13. CloseAccounts'
    BY <1>1, <2>5 DEF First, ReadInv, CloseAccounts
  <2> QED BY <1>3, <2>9, <2>10, <2>11, <2>12, <2>13 DEF ReadInv
<1>5. CASE ~(b.src = "none" \/ b.closed \/ b.sawEOF)
  <2> DEFINE room == IF mb.limit < 0 THEN k ELSE Min({k, mb.n + 1})
  <2>1. /\ pc' = "src" /\ call' = [NoCall EXCEPT !.op = "read", !.room = room]
        /\ UNCHANGED <<out, ended, mb>>
    BY <1>5 DEF Read
  <2>2. k \in Nat /\ k > 0
    BY BodyAssumption
  <2>3. room \in Nat /\ room > 0
    <3>1. CASE mb.limit < 0
      BY <2>2, <3>1
    <3>2. CASE ~(mb.limit < 0)
      <4>1. mb.limit \in Int /\ mb.n \in Int
        <5>1. mb.limit \in Limits /\ mb.n \in Int
          BY DEF ReadInv, TypeInv, ReaderRec
        <5>2. Limits \subseteq Int
          BY BodyAssumption
        <5> QED BY <5>1, <5>2
      <4>2. mb.n >= 0
        BY <1>1, <3>2, <4>1 DEF ReadInv, LimitInv
      <4>3. Min({k, mb.n + 1}) \in {k, mb.n + 1}
        <5>1. k \in Int /\ mb.n + 1 \in Int
          BY <2>2, <4>1
        <5> QED BY <5>1, MinTwo
      <4> QED BY <2>2, <3>2, <4>1, <4>2, <4>3
    <3> QED BY <3>1, <3>2
  <2> HIDE DEF room
  <2>4. call' = [op |-> "read", room |-> room, got |-> 0, copied |-> 0]
    BY <2>1 DEF NoCall
  <2>5. call' \in CallRec /\ call'.got = 0 /\ call'.op = "read" /\ call'.room = room
    BY <2>3, <2>4 DEF CallRec
  <2>6. TypeInv'
    BY <1>1, <2>1, <2>5 DEF ReadInv, TypeInv, TypeOK
  <2>7. CallInv'
    <3>1. 0 <= Len(taken) - Len(out)
      BY <1>2 DEF ReadInv, CallInv, NoCall
    <3>2. ended # "eof"
      BY <1>5 DEF ReadInv, CallInv
    <3> QED BY <1>1, <1>5, <2>1, <2>5, <3>1, <3>2 DEF ReadInv, CallInv, Early
  <2>8. RoomInv'
    BY <2>3, <2>5 DEF RoomInv
  <2>9. LimitInv'
    BY <1>1, <2>1 DEF ReadInv, LimitInv, Early
  <2>10. CloseAccounts'
    BY <1>1, <2>1 DEF ReadInv, CloseAccounts
  <2> QED BY <1>3, <2>6, <2>7, <2>8, <2>9, <2>10 DEF ReadInv
<1> QED BY <1>4, <1>5

\* The room of a drain is positive and stays within what may be drained.
LEMMA DrainRoomFacts ==
  ASSUME NEW copied \in Nat, b.doEarlyClose => copied < MaxPost
  PROVE  /\ DrainRoom(copied) \in Nat /\ DrainRoom(copied) > 0
         /\ b.doEarlyClose => copied + DrainRoom(copied) <= MaxPost
<1>1. MaxRead \in Nat /\ MaxRead > 0 /\ MaxPost \in Nat
  BY BodyAssumption
<1>2. CASE b.doEarlyClose
  <2> DEFINE r == Min({MaxRead, MaxPost - copied})
  <2>1. r \in {MaxRead, MaxPost - copied} /\ r <= MaxPost - copied
    BY <1>1, MinTwo
  <2>2. DrainRoom(copied) = r
    BY <1>2 DEF DrainRoom
  <2> HIDE DEF r
  <2> QED BY <1>1, <1>2, <2>1, <2>2
<1>3. CASE ~b.doEarlyClose
  BY <1>1, <1>3 DEF DrainRoom
<1> QED BY <1>2, <1>3

LEMMA CloseReads ==
  ASSUME ReadInv, Close
  PROVE  ReadInv'
<1> USE BodyAssumption
<1> DEFINE pointless == ~b.hdr /\ b.closing
           tooLong   == b.doEarlyClose /\ b.src = "limited" /\ b.n > MaxPost
           early     == ~b.sawEOF /\ ~pointless
           closed    == TRUE
<1>1. /\ pc = "idle" /\ b.src # "none" /\ ~b.closed /\ pc \notin Early
      /\ UNCHANGED <<msg, tw, put, sent, wire, cr, mb, taken, out, ended, over>>
      /\ IF b.sawEOF \/ pointless \/ tooLong
         THEN /\ b' = [b EXCEPT !.closed = closed, !.earlyClose = early]
              /\ UNCHANGED <<pc, call>>
         ELSE /\ pc' = "src"
              /\ call' = [NoCall EXCEPT !.op = "drain", !.room = DrainRoom(0)]
              /\ UNCHANGED b
  BY DEF Close, Early
<1>2. call = NoCall /\ call.op = "none" /\ call.got = 0
  BY <1>1 DEF ReadInv, CallInv, NoCall
<1>3. AccountInv'
  BY <1>1 DEF ReadInv, AccountInv, due, allowed
<1>4. b \in BodyRec
  BY DEF ReadInv, TypeInv
<1>5. early \in BOOLEAN /\ closed \in BOOLEAN
  BY <1>4 DEF BodyRec
<1>6. early \/ b.sawEOF \/ b.closing
  OBVIOUS
<1>7. CASE b.sawEOF \/ pointless \/ tooLong
  <2> HIDE DEF early, closed
  <2>1. b' = [b EXCEPT !.closed = closed, !.earlyClose = early] /\ UNCHANGED <<pc, call>>
    BY <1>1, <1>7
  <2>2. /\ b' \in BodyRec /\ b'.src = b.src /\ b'.sawEOF = b.sawEOF
        /\ b'.closing = b.closing /\ b'.earlyClose = early
    BY <1>4, <1>5, <2>1, ZenonT(60) DEF BodyRec
  <2>3. TypeInv'
    BY <1>1, <2>1, <2>2 DEF ReadInv, TypeInv, TypeOK
  <2>4. CallInv'
    BY <1>1, <1>2, <2>1, <2>2 DEF ReadInv, CallInv
  <2>5. RoomInv'
    BY <1>1, <1>2, <2>1 DEF RoomInv
  <2>6. LimitInv'
    BY <1>1, <2>1 DEF ReadInv, LimitInv
  <2>7. CloseAccounts'
    BY <1>6, <2>2 DEF CloseAccounts
  <2> QED BY <1>3, <2>3, <2>4, <2>5, <2>6, <2>7 DEF ReadInv
<1>8. CASE ~(b.sawEOF \/ pointless \/ tooLong)
  <2> DEFINE room == DrainRoom(0)
  <2>1. /\ pc' = "src" /\ call' = [NoCall EXCEPT !.op = "drain", !.room = room]
        /\ UNCHANGED b /\ ~b.sawEOF
    BY <1>1, <1>8
  <2>2. room \in Nat /\ room > 0 /\ (b.doEarlyClose => 0 + room <= MaxPost)
    <3>1. 0 \in Nat /\ 0 < MaxPost
      BY BodyAssumption
    <3> QED BY <3>1, DrainRoomFacts
  <2> HIDE DEF room
  <2>3. call' = [op |-> "drain", room |-> room, got |-> 0, copied |-> 0]
    BY <2>1 DEF NoCall
  <2>4. /\ call' \in CallRec /\ call'.op = "drain" /\ call'.got = 0 /\ call'.copied = 0
        /\ call'.room = room
    BY <2>2, <2>3 DEF CallRec
  <2>5. TypeInv'
    BY <1>1, <2>1, <2>4 DEF ReadInv, TypeInv, TypeOK
  <2>6. CallInv'
    <3>1. 0 <= Len(taken) - Len(out)
      BY <1>2 DEF ReadInv, CallInv
    <3>2. ended # "eof"
      BY <1>1, <2>1 DEF ReadInv, CallInv
    <3> QED BY <1>1, <2>1, <2>4, <3>1, <3>2 DEF CallInv, Early
  <2>7. RoomInv'
    <3>1. 0 + 0 + room <= MaxPost \/ ~b.doEarlyClose
      BY <2>2
    <3> QED BY <2>1, <2>2, <2>4, <3>1 DEF RoomInv
  <2>8. LimitInv'
    BY <1>1, <2>1 DEF ReadInv, LimitInv, Early
  <2>9. CloseAccounts'
    BY <1>1, <2>1 DEF CloseAccounts
  <2> QED BY <1>3, <2>5, <2>6, <2>7, <2>8, <2>9 DEF ReadInv
<1> QED BY <1>7, <1>8

\* The end of readLocked keeps what holds of readers, whatever src.Read found.
LEMMA SrcReturnsReads ==
  ASSUME ReadInv, pc = "src", NEW e \in {"nil", "eof", "err"}, NEW got \in Nat,
         NEW w \in Seq(TokenRec), NEW tk \in Seq(TokenRec), NEW n \in Nat,
         Len(taken) <= Len(tk), got <= Len(tk) - Len(out),
         call.op = "drain" /\ b.doEarlyClose => call.copied + got <= MaxPost,
         SrcReturns(e, got, w, tk, n), UNCHANGED <<msg, tw, put, sent, cr, over>>
  PROVE  ReadInv'
<1> USE BodyAssumption
<1> DEFINE trailer == e = "eof" /\ b.hdr
           good    == trailer /\ w # <<>> /\ w[1] \in {CRLF, TrailerBlock}
           usedUp  == e = "nil" /\ got > 0 /\ b.src = "limited" /\ n = 0
           err     == CASE (trailer /\ ~good) \/ Short(e, n) -> "err"
                        [] usedUp -> "eof"
                        [] OTHER -> e
           saw     == usedUp \/ (e = "eof" /\ (trailer => good))
           bad     == trailer /\ ~good
           hdr     == b.hdr /\ e # "eof"
           bb      == [b EXCEPT !.n = n, !.sawEOF = saw, !.closed = bad, !.hdr = hdr]
           copied  == call.copied + got
           enough  == b.doEarlyClose /\ copied = MaxPost
           given   == SubSeq(tk, Len(tk) - got + 1, Len(tk))
<1>1. /\ wire' = AfterTrailer(w, good)
      /\ taken' = tk
      /\ CASE call.op = "read" ->
                /\ b' = bb /\ pc' = "idle" /\ call' = NoCall
                /\ Deliver(given, err)
           [] call.op = "drain" /\ (enough \/ err # "nil") ->
                /\ b' = [bb EXCEPT !.closed = TRUE, !.earlyClose = enough]
                /\ pc' = "idle" /\ call' = NoCall
                /\ ended' = IF ~enough /\ err = "err" THEN First(err) ELSE ended
                /\ UNCHANGED <<out, mb>>
           [] OTHER ->
                /\ b' = bb
                /\ call' = [call EXCEPT !.copied = copied, !.got = 0, !.room = DrainRoom(copied)]
                /\ UNCHANGED <<pc, out, ended, mb>>
  BY DEF SrcReturns
<1>2. /\ b \in BodyRec /\ call \in CallRec /\ mb \in ReaderRec /\ out \in Seq(TokenRec)
      /\ ended \in {"none", "eof", "err"} /\ taken \in Seq(TokenRec)
  BY DEF ReadInv, TypeInv
<1>3. /\ call.op \in {"read", "drain"} /\ b.src # "none" /\ ~b.closed /\ ~b.sawEOF
      /\ ended # "eof" /\ (call.op = "read" => mb.err = "nil")
  BY <1>2 DEF ReadInv, CallInv, CallRec
<1>4. pc \notin Early /\ "idle" \notin Early
  BY DEF Early
<1>5. /\ good \in BOOLEAN /\ saw \in BOOLEAN /\ bad \in BOOLEAN /\ hdr \in BOOLEAN
      /\ enough \in BOOLEAN
  BY <1>2 DEF BodyRec
<1>6. /\ err \in {"nil", "eof", "err"} /\ (err = "nil" => e = "nil" /\ ~saw /\ ~bad)
      /\ (err = "eof" => saw) /\ (bad => err = "err") /\ (saw => err # "nil")
  <2>1. CASE bad \/ Short(e, n)
    <3>1. ~usedUp /\ (bad \/ Short(e, n))
      BY <2>1 DEF Short
    <3>2. err = "err"
      BY <3>1
    <3> QED BY <3>1, <3>2
  <2>2. CASE ~(bad \/ Short(e, n)) /\ usedUp
    <3>1. err = "eof" /\ saw
      BY <2>2
    <3> QED BY <2>2, <3>1
  <2>3. CASE ~(bad \/ Short(e, n)) /\ ~usedUp
    <3>1. err = e
      BY <2>3
    <3>2. saw <=> e = "eof"
      BY <2>3
    <3> QED BY <2>3, <3>1, <3>2
  <2> QED BY <2>1, <2>2, <2>3
<1>7. good => w # <<>>
  OBVIOUS
<1>8. call.copied \in Nat /\ copied \in Nat /\ call.room \in Nat
  BY <1>2, SMTT(60) DEF CallRec
<1>9. enough => b.doEarlyClose /\ copied = MaxPost
  OBVIOUS
<1>10. ~enough => (b.doEarlyClose => copied # MaxPost)
  OBVIOUS
<1>11. Len(tk) \in Nat /\ Len(out) \in Nat /\ Len(taken) \in Nat
  BY <1>2, LenProperties
<1> HIDE DEF good, err, saw, bad, hdr, enough
<1>12. /\ bb \in BodyRec /\ bb.src = b.src /\ bb.sawEOF = saw /\ bb.closed = bad
       /\ bb.closing = b.closing /\ bb.doEarlyClose = b.doEarlyClose /\ bb.hdr = hdr
       /\ bb.n = n
  BY <1>2, <1>5, ZenonT(60) DEF BodyRec
<1>13. wire' \in Seq(TokenRec)
  <2>1. CASE good
    <3>1. Len(w) > 0
      BY <1>7, <2>1, EmptySeq, LenProperties
    <3> QED BY <1>1, <2>1, <3>1, EmptySeq, HeadTailProperties DEF AfterTrailer
  <2> QED BY <1>1, <2>1 DEF AfterTrailer
<1>14. AccountInv'
  BY DEF ReadInv, AccountInv, due, allowed
<1>15. mb.limit \in Int
  <2>1. mb.limit \in Limits
    BY <1>2 DEF ReaderRec
  <2>2. Limits \subseteq Int
    BY BodyAssumption
  <2> QED BY <2>1, <2>2
<1>16. NoCall \in CallRec /\ NoCall.op = "none" /\ NoCall.got = 0
  BY DEF NoCall, CallRec
<1>17. pc' \in {"idle", "src"}
  BY <1>1, <1>3
<1>18. CASE call.op = "read"
  <2>1. b' = bb /\ pc' = "idle" /\ call' = NoCall /\ Deliver(given, err)
    BY <1>1, <1>18
  <2>2. given \in Seq(TokenRec) /\ Len(given) = got
    <3>1. Len(tk) - got + 1 \in Int /\ 1 <= Len(tk) - got + 1 /\ Len(tk) \in Int /\ Len(tk) <= Len(tk)
      BY <1>11
    <3>2. /\ given \in Seq(TokenRec)
          /\ Len(given) = IF Len(tk) - got + 1 <= Len(tk) THEN Len(tk) - (Len(tk) - got + 1) + 1 ELSE 0
      BY <3>1, SubSeqFacts
    <3> HIDE DEF given
    <3> QED BY <1>11, <3>2
  <2> HIDE DEF given
  <2>3. err \in {"nil", "eof", "err", "closed"}
    BY <1>6
  <2>4. /\ out' \in Seq(TokenRec) /\ ended' = First(err) /\ mb' \in ReaderRec
        /\ mb'.limit = mb.limit /\ Len(out') <= Len(out) + got
        /\ mb.limit >= 0 =>
              /\ mb'.err # "toolarge" => mb'.n >= 0 /\ Len(out') + mb'.n = mb.limit
              /\ mb'.err = "toolarge" => Len(out) + got > mb.limit /\ Len(out') = mb.limit
    BY <1>3, <1>4, <1>18, <2>1, <2>2, <2>3, DeliverFacts, ZenonT(60) DEF ReadInv
  <2>5. Len(out') \in Nat
    BY <2>4, LenProperties
  <2>6. 0 <= Len(tk) - Len(out')
    BY <1>11, <2>4, <2>5
  <2>7. ended' \in {"none", "eof", "err"} /\ (ended' = "eof" => saw)
        /\ (bad => ended' = "err")
    BY <1>2, <1>3, <1>6, <2>4 DEF First
  <2>8. TypeInv'
    BY <1>1, <1>12, <1>13, <1>16, <1>17, <2>1, <2>4, <2>7 DEF ReadInv, TypeInv, TypeOK
  <2>9. CallInv'
    BY <1>1, <1>4, <1>12, <1>16, <2>1, <2>6, <2>7 DEF CallInv
  <2>10. RoomInv'
    BY <1>16, <2>1 DEF RoomInv
  <2>11. LimitInv'
    <3>1. ASSUME mb.limit >= 0, mb'.err = "toolarge"
          PROVE  Len(tk) > mb.limit
      BY <1>11, <1>15, <2>4, <2>5, <3>1, SMTT(60)
    <3> QED BY <1>1, <2>4, <3>1 DEF LimitInv
  <2>12. CloseAccounts'
    BY <1>12, <2>1, <2>7 DEF CloseAccounts
  <2> QED BY <1>14, <2>8, <2>9, <2>10, <2>11, <2>12 DEF ReadInv
<1>19. CASE call.op = "drain" /\ (enough \/ err # "nil")
  <2> DEFINE closed == TRUE
  <2>1. /\ b' = [bb EXCEPT !.closed = closed, !.earlyClose = enough]
        /\ pc' = "idle" /\ call' = NoCall
        /\ ended' = IF ~enough /\ err = "err" THEN First(err) ELSE ended
        /\ UNCHANGED <<out, mb>>
    BY <1>1, <1>19
  <2>2. closed \in BOOLEAN
    OBVIOUS
  <2> HIDE DEF closed
  <2>3. /\ b' \in BodyRec /\ b'.src = bb.src /\ b'.sawEOF = bb.sawEOF /\ b'.earlyClose = enough
    <3> HIDE DEF bb
    <3> QED BY <1>5, <1>12, <2>1, <2>2, ZenonT(60) DEF BodyRec
  <2>4. ended' \in {"none", "eof", "err"} /\ ended' # "eof"
        /\ (~enough /\ err = "err" => ended' = "err")
    BY <1>2, <1>3, <2>1 DEF First
  <2>5. TypeInv'
    BY <1>1, <1>2, <1>13, <1>16, <1>17, <2>1, <2>3, <2>4 DEF ReadInv, TypeInv, TypeOK
  <2>6. CallInv'
    <3>1. 0 <= Len(tk) - Len(out)
      BY <1>11
    <3> QED BY <1>1, <1>4, <1>12, <1>16, <2>1, <2>3, <2>4, <3>1 DEF CallInv
  <2>7. RoomInv'
    BY <1>16, <2>1 DEF RoomInv
  <2>8. LimitInv'
    <3>1. mb.limit >= 0 /\ mb.err = "toolarge" => Len(tk) > mb.limit
      BY <1>11, <1>15, SMTT(60) DEF ReadInv, LimitInv
    <3> QED BY <1>1, <1>4, <2>1, <3>1 DEF ReadInv, LimitInv
  <2>9. CloseAccounts'
    BY <1>6, <1>12, <1>19, <2>3, <2>4 DEF CloseAccounts
  <2> QED BY <1>14, <2>5, <2>6, <2>7, <2>8, <2>9 DEF ReadInv
<1>20. CASE call.op = "drain" /\ ~(enough \/ err # "nil")
  <2> DEFINE room == DrainRoom(copied)
             zero == 0
  <2>1. /\ b' = bb /\ call' = [call EXCEPT !.copied = copied, !.got = zero, !.room = room]
        /\ UNCHANGED <<pc, out, ended, mb>>
    BY <1>1, <1>20
  <2>2. room \in Nat /\ room > 0 /\ (b.doEarlyClose => copied + room <= MaxPost)
    <3>1. ~enough /\ MaxPost \in Nat
      BY <1>20, BodyAssumption
    <3>2. b.doEarlyClose => copied < MaxPost
      BY <1>8, <1>10, <1>20, <3>1, SMTT(60)
    <3> HIDE DEF copied
    <3> QED BY <1>8, <3>2, DrainRoomFacts
  <2>3. zero \in Nat /\ zero = 0
    OBVIOUS
  <2> HIDE DEF room, copied, zero
  <2>4. /\ call' \in CallRec /\ call'.op = call.op /\ call'.copied = copied
        /\ call'.got = zero /\ call'.room = room
    BY <1>2, <1>8, <2>1, <2>2, <2>3 DEF CallRec
  <2>5. TypeInv'
    BY <1>1, <1>2, <1>12, <1>13, <1>17, <2>1, <2>4 DEF ReadInv, TypeInv, TypeOK
  <2>6. CallInv'
    <3>1. 0 <= Len(tk) - Len(out)
      BY <1>11
    <3>2. ~saw /\ ~bad
      BY <1>6, <1>20
    <3> QED BY <1>1, <1>3, <1>4, <1>12, <1>20, <2>1, <2>3, <2>4, <3>1, <3>2 DEF CallInv
  <2>7. RoomInv'
    <3>1. b.doEarlyClose => copied + 0 + room <= MaxPost
      BY <1>8, <2>2
    <3> QED BY <1>12, <2>1, <2>2, <2>3, <2>4, <3>1 DEF RoomInv
  <2>8. LimitInv'
    <3>1. mb.limit >= 0 /\ mb.err = "toolarge" => Len(tk) > mb.limit
      BY <1>11, <1>15 DEF ReadInv, LimitInv
    <3> QED BY <1>1, <1>4, <2>1, <3>1 DEF ReadInv, LimitInv
  <2>9. CloseAccounts'
    <3>1. ~bad
      BY <1>6, <1>20
    <3> QED BY <1>12, <2>1, <3>1 DEF CloseAccounts
  <2> QED BY <1>14, <2>5, <2>6, <2>7, <2>8, <2>9 DEF ReadInv
<1> QED BY <1>3, <1>18, <1>19, <1>20

\* What is known inside a call, spelled out.
LEMMA CallFacts ==
  ASSUME ReadInv, pc = "src"
  PROVE  /\ Len(wire) \in Nat /\ Len(taken) \in Nat /\ Len(out) \in Nat
         /\ call.room \in Nat /\ call.got \in Nat /\ call.copied \in Nat /\ b.n \in Nat
         /\ wire \in Seq(TokenRec) /\ taken \in Seq(TokenRec) /\ out \in Seq(TokenRec)
         /\ call.got <= Len(taken) - Len(out) /\ Len(out) <= Len(taken)
         /\ call.op = "drain" /\ b.doEarlyClose =>
              call.copied + call.got + call.room <= MaxPost
         /\ b.src # "chunked" => call.room > 0 /\ call.got = 0
         /\ cr.n \in Nat /\ cr.excess \in Nat /\ cr.checkEnd \in BOOLEAN
         /\ cr.err \in {"nil", "eof", "err"}
         /\ over.bytes \in Nat /\ over.chunks \in Nat /\ over.data \in Nat
<1>1. wire \in Seq(TokenRec) /\ taken \in Seq(TokenRec) /\ out \in Seq(TokenRec)
  BY DEF ReadInv, TypeInv
<1>2. Len(wire) \in Nat /\ Len(taken) \in Nat /\ Len(out) \in Nat
  BY <1>1, LenProperties
<1>3. call.room \in Nat /\ call.got \in Nat /\ call.copied \in Nat /\ b.n \in Nat
  BY DEF ReadInv, TypeInv, CallRec, BodyRec
<1>4. call.got <= Len(taken) - Len(out)
  BY DEF ReadInv, CallInv
<1>5. /\ call.op = "drain" /\ b.doEarlyClose => call.copied + call.got + call.room <= MaxPost
      /\ b.src # "chunked" => call.room > 0 /\ call.got = 0
  BY DEF ReadInv, RoomInv
<1>6. /\ cr.n \in Nat /\ cr.excess \in Nat /\ cr.checkEnd \in BOOLEAN
      /\ cr.err \in {"nil", "eof", "err"}
      /\ over.bytes \in Nat /\ over.chunks \in Nat /\ over.data \in Nat
  BY DEF ReadInv, TypeInv, TypeOK
<1>7. Len(out) <= Len(taken)
  BY <1>2, <1>3, <1>4
<1> QED BY <1>1, <1>2, <1>3, <1>4, <1>5, <1>6, <1>7

\* A plain source gives as much as the room, the connection and the limit allow.
LEMMA PlainFacts ==
  ASSUME ReadInv, pc = "src", b.src # "chunked",
         NEW most, most = Min({call.room, Len(wire)}
                                \cup IF b.src = "limited" THEN {b.n} ELSE {})
  PROVE  /\ most \in Nat /\ most <= call.room /\ most <= Len(wire)
         /\ b.src = "limited" => most <= b.n
         /\ most = 0 => Len(wire) = 0 \/ (b.src = "limited" /\ b.n = 0)
<1> DEFINE S == {call.room, Len(wire)} \cup IF b.src = "limited" THEN {b.n} ELSE {}
<1>1. S \subseteq Nat /\ S # {}
  BY CallFacts
<1>2. call.room \in S /\ Len(wire) \in S /\ (b.src = "limited" => b.n \in S)
  OBVIOUS
<1>3. \A x \in S : x = call.room \/ x = Len(wire) \/ (b.src = "limited" /\ x = b.n)
  OBVIOUS
<1>4. most = Min(S)
  OBVIOUS
<1> HIDE DEF S
<1>5. most \in S /\ \A x \in S : most <= x
  BY <1>1, <1>4, MinOfNats
<1>6. call.room > 0 /\ call.room \in Nat
  BY CallFacts
<1>7. most \in Nat /\ most <= call.room /\ most <= Len(wire)
      /\ (b.src = "limited" => most <= b.n)
  BY <1>1, <1>2, <1>5
<1>8. most = 0 => Len(wire) = 0 \/ (b.src = "limited" /\ b.n = 0)
  <2>1. most = call.room \/ most = Len(wire) \/ (b.src = "limited" /\ most = b.n)
    BY <1>3, <1>5
  <2> QED BY <1>6, <2>1
<1> QED BY <1>7, <1>8

\* The first j tokens of the wire move behind those taken.
LEMMA TakenFacts ==
  ASSUME NEW w \in Seq(TokenRec), NEW tk \in Seq(TokenRec), NEW j \in Nat, j <= Len(w)
  PROVE  LET rest == SubSeq(w, j + 1, Len(w))
             more == tk \o SubSeq(w, 1, j)
         IN  /\ rest \in Seq(TokenRec) /\ Len(rest) = Len(w) - j
             /\ \A i \in 1 .. Len(w) - j : rest[i] = w[j + i]
             /\ more \in Seq(TokenRec) /\ Len(more) = Len(tk) + j
             /\ \A i \in 1 .. Len(tk) : more[i] = tk[i]
             /\ \A i \in 1 .. j : more[Len(tk) + i] = w[i]
<1> DEFINE rest == SubSeq(w, j + 1, Len(w))
           part == SubSeq(w, 1, j)
           more == tk \o part
<1>1. Len(w) \in Nat /\ Len(tk) \in Nat
  BY LenProperties, ZenonT(60)
<1>2. rest \in Seq(TokenRec) /\ Len(rest) = Len(w) - j
      /\ \A i \in 1 .. Len(w) - j : rest[i] = w[j + i]
  <2>1. j + 1 \in Int /\ Len(w) \in Int /\ 1 <= j + 1 /\ Len(w) <= Len(w)
    BY <1>1
  <2>2. /\ rest \in Seq(TokenRec)
        /\ Len(rest) = IF j + 1 <= Len(w) THEN Len(w) - (j + 1) + 1 ELSE 0
        /\ \A i \in 1 .. Len(w) - (j + 1) + 1 : rest[i] = w[j + 1 + i - 1]
    BY <2>1, SubSeqFacts, SMTT(60)
  <2> HIDE DEF rest
  <2>3. Len(w) - (j + 1) + 1 = Len(w) - j /\ \A i \in Int : j + 1 + i - 1 = j + i
    BY <1>1
  <2>4. (IF j + 1 <= Len(w) THEN Len(w) - (j + 1) + 1 ELSE 0) = Len(w) - j
    BY <1>1
  <2>5. \A i \in 1 .. Len(w) - j : i \in Int
    BY <1>1
  <2> QED BY <2>2, <2>3, <2>4, <2>5
<1>3. part \in Seq(TokenRec) /\ Len(part) = j /\ \A i \in 1 .. j : part[i] = w[i]
  <2>1. j \in Int /\ 1 \in Int /\ 1 <= 1
    OBVIOUS
  <2>2. /\ part \in Seq(TokenRec)
        /\ Len(part) = IF 1 <= j THEN j - 1 + 1 ELSE 0
        /\ \A i \in 1 .. j - 1 + 1 : part[i] = w[1 + i - 1]
    BY <2>1, SubSeqFacts
  <2> HIDE DEF part
  <2>3. j - 1 + 1 = j /\ (\A i \in 1 .. j : 1 + i - 1 = i)
        /\ (IF 1 <= j THEN j - 1 + 1 ELSE 0) = j
    OBVIOUS
  <2> QED BY <2>2, <2>3
<1> HIDE DEF part
<1>4. /\ more \in Seq(TokenRec) /\ Len(more) = Len(tk) + j
      /\ \A i \in 1 .. Len(tk) + j :
           more[i] = IF i <= Len(tk) THEN tk[i] ELSE part[i - Len(tk)]
  BY <1>1, <1>3, ConcatProperties, ZenonT(60)
<1> HIDE DEF more, rest
<1>5. \A i \in 1 .. Len(tk) : more[i] = tk[i]
  BY <1>1, <1>4
<1>6. \A i \in 1 .. j : more[Len(tk) + i] = w[i]
  <2> TAKE i \in 1 .. j
  <2>1. Len(tk) + i \in 1 .. Len(tk) + j /\ ~(Len(tk) + i <= Len(tk)) /\ Len(tk) + i - Len(tk) = i
    BY <1>1
  <2>2. more[Len(tk) + i] = part[Len(tk) + i - Len(tk)]
    BY <1>4, <2>1
  <2> QED BY <1>3, <2>1, <2>2
<1> QED BY <1>2, <1>4, <1>5, <1>6 DEF more, rest, part

LEMMA SrcPlainReads ==
  ASSUME ReadInv, SrcPlain
  PROVE  ReadInv'
<1> DEFINE most == Min({call.room, Len(wire)} \cup IF b.src = "limited" THEN {b.n} ELSE {})
<1>1. /\ pc = "src" /\ b.src \in {"limited", "raw"} /\ b.src # "chunked"
      /\ UNCHANGED <<msg, tw, put, sent, cr, over>>
      /\ \/ most = 0 /\ SrcReturns("eof", 0, wire, taken, b.n)
         \/ \E j \in 1 .. most :
              SrcReturns("nil", j, SubSeq(wire, j + 1, Len(wire)),
                         taken \o SubSeq(wire, 1, j), IF b.src = "limited" THEN b.n - j ELSE b.n)
  BY DEF SrcPlain
<1>2. /\ most \in Nat /\ most <= call.room /\ most <= Len(wire)
      /\ b.src = "limited" => most <= b.n
  BY <1>1, PlainFacts
<1> HIDE DEF most
<1>3. MaxPost \in Nat
  BY BodyAssumption
<1>4. ASSUME SrcReturns("eof", 0, wire, taken, b.n)
      PROVE  ReadInv'
  <2>1. /\ 0 \in Nat /\ Len(taken) <= Len(taken) /\ 0 <= Len(taken) - Len(out)
        /\ call.op = "drain" /\ b.doEarlyClose => call.copied + 0 <= MaxPost
    <3>1. /\ Len(taken) \in Nat /\ Len(out) \in Nat /\ Len(out) <= Len(taken)
          /\ call.room \in Nat /\ call.copied \in Nat /\ call.got = 0
          /\ call.op = "drain" /\ b.doEarlyClose =>
               call.copied + call.got + call.room <= MaxPost
      BY <1>1, CallFacts, Zenon
    <3> QED BY <1>3, <3>1
  <2>2. "eof" \in {"nil", "eof", "err"}
    OBVIOUS
  <2>3. wire \in Seq(TokenRec) /\ taken \in Seq(TokenRec) /\ b.n \in Nat
    BY <1>1, CallFacts
  <2> QED BY <1>1, <1>4, <2>1, <2>2, <2>3, SrcReturnsReads
<1>5. ASSUME NEW j \in 1 .. most,
             SrcReturns("nil", j, SubSeq(wire, j + 1, Len(wire)), taken \o SubSeq(wire, 1, j),
                        IF b.src = "limited" THEN b.n - j ELSE b.n)
      PROVE  ReadInv'
  <2> DEFINE w == SubSeq(wire, j + 1, Len(wire))
             tk == taken \o SubSeq(wire, 1, j)
             n == IF b.src = "limited" THEN b.n - j ELSE b.n
  <2>1. j \in Nat /\ j <= Len(wire) /\ j <= call.room /\ n \in Nat
    <3>1. Len(wire) \in Nat /\ call.room \in Nat /\ b.n \in Nat
      BY <1>1, CallFacts, Zenon
    <3>2. j \in Nat /\ j <= Len(wire) /\ j <= call.room
      BY <1>2, <3>1
    <3>3. b.src = "limited" => j <= b.n
      BY <1>2, <3>1
    <3> QED BY <3>1, <3>2, <3>3
  <2>2. w \in Seq(TokenRec) /\ tk \in Seq(TokenRec) /\ Len(tk) = Len(taken) + j
    <3>1. wire \in Seq(TokenRec) /\ taken \in Seq(TokenRec)
      BY <1>1, CallFacts
    <3> QED BY <2>1, <3>1, TakenFacts
  <2>3. "nil" \in {"nil", "eof", "err"} /\ SrcReturns("nil", j, w, tk, n)
    BY <1>5
  <2> HIDE DEF w, tk, n
  <2>4. /\ Len(taken) <= Len(tk) /\ j <= Len(tk) - Len(out)
        /\ call.op = "drain" /\ b.doEarlyClose => call.copied + j <= MaxPost
    <3>1. /\ Len(taken) \in Nat /\ Len(out) \in Nat /\ Len(out) <= Len(taken)
          /\ call.room \in Nat /\ call.copied \in Nat /\ call.got = 0
          /\ call.op = "drain" /\ b.doEarlyClose =>
               call.copied + call.got + call.room <= MaxPost
      BY <1>1, CallFacts
    <3>2. Len(taken) <= Len(tk) /\ j <= Len(tk) - Len(out)
      BY <2>1, <2>2, <3>1
    <3>3. call.op = "drain" /\ b.doEarlyClose => call.copied + j <= MaxPost
      BY <1>3, <2>1, <3>1, SMTT(60)
    <3> QED BY <3>2, <3>3
  <2> QED BY <1>1, <2>1, <2>2, <2>3, <2>4, SrcReturnsReads
<1> QED BY <1>1, <1>4, <1>5

LEMMA ChunkReturnReads ==
  ASSUME ReadInv, ChunkReturn
  PROVE  ReadInv'
<1>1. /\ pc = "src" /\ SrcReturns(cr.err, call.got, wire, taken, b.n)
      /\ UNCHANGED <<msg, tw, put, sent, cr, over>>
  BY DEF ChunkReturn
<1>2. MaxPost \in Nat
  BY BodyAssumption
<1>3. /\ Len(taken) <= Len(taken) /\ call.got <= Len(taken) - Len(out)
      /\ call.op = "drain" /\ b.doEarlyClose => call.copied + call.got <= MaxPost
  BY <1>1, <1>2, CallFacts, SMTT(60)
<1>4. /\ cr.err \in {"nil", "eof", "err"} /\ call.got \in Nat /\ wire \in Seq(TokenRec)
      /\ taken \in Seq(TokenRec) /\ b.n \in Nat
  BY <1>1, CallFacts
<1> QED BY <1>1, <1>3, <1>4, SrcReturnsReads

LEMMA AheadType ==
  ASSUME wire \in Seq(TokenRec)
  PROVE  /\ Ahead.v \in Nat /\ Ahead.len \in Nat
         /\ Ahead.t # "none" => wire # <<>> /\ Ahead = wire[1]
         /\ wire # <<>> => /\ Ahead = wire[1] /\ Ahead \in TokenRec
                           /\ Tail(wire) \in Seq(TokenRec) /\ Len(wire) > 0
<1>1. CASE wire = <<>>
  BY <1>1 DEF Ahead, Token
<1>2. CASE wire # <<>>
  <2>1. Len(wire) \in Nat /\ Len(wire) > 0
    BY <1>2, EmptySeq, LenProperties
  <2>2. wire[1] \in TokenRec /\ Tail(wire) \in Seq(TokenRec)
    BY <1>2, <2>1, ElementOfSeq, HeadTailProperties
  <2> QED BY <1>2, <2>1, <2>2 DEF Ahead, TokenRec
<1> QED BY <1>1, <1>2

\* One more chunk is one more allowance.
LEMMA OneMoreChunk ==
  ASSUME NEW a \in Nat, NEW c \in Nat, NEW d \in Nat, NEW s \in Nat
  PROVE  a * c + 2 * d \in Nat /\ a * (c + 1) + 2 * (d + s) = (a * c + 2 * d) + a + 2 * s
OBVIOUS

LEMMA AllowedType ==
  ASSUME ReadInv
  PROVE  allowed \in Nat
<1>1. over.chunks \in Nat /\ over.data \in Nat /\ ChunkAllowance \in Nat
  BY BodyAssumption DEF ReadInv, TypeInv, TypeOK
<1> QED BY <1>1, OneMoreChunk DEF allowed

LEMMA ChunkMalformedReads ==
  ASSUME ReadInv, ChunkMalformed
  PROVE  ReadInv'
<1> DEFINE e == "err"
<1>1. /\ pc = "src" /\ cr' = [cr EXCEPT !.err = e]
      /\ UNCHANGED <<pc, msg, tw, put, sent, wire, b, mb, call, taken, out, ended, over>>
  BY DEF ChunkMalformed, Turn
<1>2. e \in {"nil", "eof", "err"} /\ e # "nil"
  OBVIOUS
<1> HIDE DEF e
<1>3. /\ cr' \in [n : Nat, err : {"nil", "eof", "err"}, checkEnd : BOOLEAN, excess : Nat]
      /\ cr'.n = cr.n /\ cr'.err = e /\ cr'.checkEnd = cr.checkEnd
  BY <1>1, <1>2 DEF ReadInv, TypeInv, TypeOK
<1>4. TypeInv'
  BY <1>1, <1>3 DEF ReadInv, TypeInv, TypeOK
<1>5. CallInv' /\ RoomInv'
  BY <1>1 DEF ReadInv, CallInv, RoomInv
<1>6. LimitInv' /\ CloseAccounts'
  BY <1>1 DEF ReadInv, LimitInv, CloseAccounts
<1>7. AccountInv'
  BY <1>1, <1>2, <1>3 DEF ReadInv, AccountInv, allowed
<1> QED BY <1>4, <1>5, <1>6, <1>7 DEF ReadInv

LEMMA ChunkEndReads ==
  ASSUME ReadInv, ChunkEnd
  PROVE  ReadInv'
<1> DEFINE no == FALSE
           bytes == over.bytes + 2
<1>1. /\ pc = "src" /\ cr.err = "nil" /\ cr.checkEnd /\ wire # <<>>
      /\ cr' = [cr EXCEPT !.checkEnd = no] /\ wire' = Tail(wire)
      /\ over' = [over EXCEPT !.bytes = bytes]
      /\ UNCHANGED <<pc, msg, tw, put, sent, b, mb, call, taken, out, ended>>
  <2>1. Ahead = CRLF => wire # <<>>
    BY DEF Ahead, CRLF, Token
  <2> QED BY <2>1 DEF ChunkEnd, Turn
<1>2. no \in BOOLEAN /\ ~no
  OBVIOUS
<1>3. bytes \in Nat
  BY <1>1, CallFacts, SMTT(60)
<1> HIDE DEF no
<1>4. /\ cr' \in [n : Nat, err : {"nil", "eof", "err"}, checkEnd : BOOLEAN, excess : Nat]
      /\ cr'.n = cr.n /\ cr'.err = cr.err /\ cr'.checkEnd = no /\ cr'.excess = cr.excess
  BY <1>1, <1>2 DEF ReadInv, TypeInv, TypeOK
<1>5. over' \in [bytes : Nat, chunks : Nat, data : Nat]
      /\ over'.bytes = bytes /\ over'.chunks = over.chunks /\ over'.data = over.data
  <2> HIDE DEF bytes
  <2> QED BY <1>1, <1>3 DEF ReadInv, TypeInv, TypeOK
<1>6. wire' \in Seq(TokenRec)
  BY <1>1, CallFacts, AheadType
<1>7. TypeInv'
  BY <1>1, <1>4, <1>5, <1>6 DEF ReadInv, TypeInv, TypeOK
<1>8. CallInv' /\ RoomInv'
  BY <1>1 DEF ReadInv, CallInv, RoomInv
<1>9. LimitInv' /\ CloseAccounts'
  BY <1>1 DEF ReadInv, LimitInv, CloseAccounts
<1>10. AccountInv'
  <2>1. cr.excess <= MaxExcess /\ over.bytes + 2 <= cr.excess + allowed /\ cr.n = 0
    BY <1>1 DEF ReadInv, AccountInv, due
  <2>2. allowed' = allowed
    BY <1>5 DEF allowed
  <2>3. due' = 0
    BY <1>2, <1>4, <2>1 DEF due
  <2>4. ChunkAllowance \in Nat /\ MaxExcess \in Nat
    BY BodyAssumption
  <2>5. allowed \in Nat /\ bytes = over.bytes + 2 /\ cr.excess \in Nat
    BY <1>1, CallFacts, AllowedType
  <2> HIDE DEF bytes
  <2>6. bytes + 0 <= cr.excess + allowed /\ bytes <= MaxExcess + allowed
    BY <1>3, <2>1, <2>4, <2>5
  <2> QED BY <1>2, <1>4, <1>5, <2>1, <2>2, <2>3, <2>4, <2>6 DEF AccountInv
<1> QED BY <1>7, <1>8, <1>9, <1>10 DEF ReadInv

LEMMA BeginChunkReads ==
  ASSUME ReadInv, BeginChunk
  PROVE  ReadInv'
<1> DEFINE size   == Ahead.v
           len    == Ahead.len
           excess == Excess(cr.excess, len, size)
           e == CASE size = 0 -> "eof"
                  [] size > 0 /\ excess > MaxExcess -> "err"
                  [] OTHER -> "nil"
           more == [bytes |-> over.bytes + len, chunks |-> over.chunks + 1, data |-> over.data + size]
<1>1. /\ pc = "src" /\ cr.err = "nil" /\ ~cr.checkEnd /\ cr.n = 0 /\ Ahead.t = "size"
      /\ cr' = [cr EXCEPT !.n = size, !.excess = excess, !.err = e]
      /\ over' = IF cr'.err = "nil" THEN more ELSE over
      /\ wire' = Tail(wire)
      /\ UNCHANGED <<pc, msg, tw, put, sent, b, mb, call, taken, out, ended>>
  BY DEF BeginChunk, Turn
<1>2. size \in Nat /\ len \in Nat /\ wire' \in Seq(TokenRec)
  BY <1>1, CallFacts, AheadType
<1> HIDE DEF size, len
<1>3. ChunkAllowance \in Nat /\ MaxExcess \in Nat /\ cr.excess \in Nat
  BY <1>1, BodyAssumption, CallFacts
<1>4. excess \in Nat /\ cr.excess + len + 2 <= excess + ChunkAllowance + 2 * size
  BY <1>2, <1>3, SMTT(60) DEF Excess
<1> HIDE DEF excess
<1>5. e \in {"nil", "eof", "err"} /\ (e = "nil" => excess <= MaxExcess /\ size > 0)
  BY <1>2, <1>3, <1>4, SMTT(60)
<1> HIDE DEF e
<1>6. /\ cr' \in [n : Nat, err : {"nil", "eof", "err"}, checkEnd : BOOLEAN, excess : Nat]
      /\ cr'.n = size /\ cr'.err = e /\ cr'.checkEnd = cr.checkEnd /\ cr'.excess = excess
  BY <1>1, <1>2, <1>4, <1>5 DEF ReadInv, TypeInv, TypeOK
<1>7. over.bytes \in Nat /\ over.chunks \in Nat /\ over.data \in Nat
  BY <1>1, CallFacts
<1>8. more \in [bytes : Nat, chunks : Nat, data : Nat]
  BY <1>2, <1>7, SMTT(60)
<1>9. TypeInv'
  <2> HIDE DEF more
  <2> QED BY <1>1, <1>2, <1>6, <1>8 DEF ReadInv, TypeInv, TypeOK
<1>10. CallInv' /\ RoomInv'
  BY <1>1 DEF ReadInv, CallInv, RoomInv
<1>11. LimitInv' /\ CloseAccounts'
  BY <1>1 DEF ReadInv, LimitInv, CloseAccounts
<1>12. AccountInv'
  <2>1. cr.excess <= MaxExcess /\ over.bytes + 0 <= cr.excess + allowed
        /\ over.bytes <= MaxExcess + allowed
    BY <1>1 DEF ReadInv, AccountInv, due
  <2>2. CASE e = "nil"
    <3>1. over' = more
      BY <1>1, <1>6, <2>2
    <3>2. /\ allowed \in Nat
          /\ allowed' = allowed + ChunkAllowance + 2 * size
      <4>1. over'.chunks = over.chunks + 1 /\ over'.data = over.data + size
        BY <3>1
      <4>2. ChunkAllowance * (over.chunks + 1) + 2 * (over.data + size)
              = allowed + ChunkAllowance + 2 * size
        BY <1>2, <1>3, <1>7, OneMoreChunk, SMTT(60) DEF allowed
      <4> QED BY <4>1, <4>2, AllowedType DEF allowed
    <3>3. due' = 2
      BY <1>5, <1>6, <2>2 DEF due
    <3>4. over'.bytes = over.bytes + len
      BY <3>1
    <3>5. over.bytes + len + 2 <= excess + (allowed + ChunkAllowance + 2 * size)
      BY <1>2, <1>3, <1>4, <1>7, <2>1, <3>2, SMTT(60)
    <3>6. over.bytes + len <= MaxExcess + (allowed + ChunkAllowance + 2 * size)
      BY <1>2, <1>3, <1>4, <1>5, <1>7, <2>2, <3>2, <3>5
    <3> QED BY <1>1, <1>5, <1>6, <2>2, <3>2, <3>3, <3>4, <3>5, <3>6 DEF AccountInv
  <2>3. CASE e # "nil"
    <3>1. over' = over /\ allowed' = allowed
      BY <1>1, <1>6, <2>3 DEF allowed
    <3> QED BY <1>1, <1>6, <2>1, <2>3, <3>1 DEF AccountInv
  <2> QED BY <2>2, <2>3
<1> QED BY <1>9, <1>10, <1>11, <1>12 DEF ReadInv

LEMMA ChunkDataReads ==
  ASSUME ReadInv, ChunkData
  PROVE  ReadInv'
<1> DEFINE end == cr.n = 1
           n == cr.n - 1
           room == call.room - 1
           got == call.got + 1
<1>1. /\ pc = "src" /\ b.src = "chunked" /\ cr.err = "nil" /\ ~cr.checkEnd /\ cr.n > 0
      /\ call.room > 0 /\ wire # <<>>
      /\ cr' = [cr EXCEPT !.n = n, !.checkEnd = end]
      /\ call' = [call EXCEPT !.room = room, !.got = got]
      /\ taken' = Append(taken, Ahead) /\ wire' = Tail(wire)
      /\ UNCHANGED <<pc, msg, tw, put, sent, b, mb, out, ended, over>>
  BY DEF ChunkData, Turn
<1>2. /\ cr.n \in Nat /\ call.room \in Nat /\ call.got \in Nat /\ Len(taken) \in Nat
      /\ Len(out) \in Nat /\ call.copied \in Nat /\ wire \in Seq(TokenRec)
      /\ taken \in Seq(TokenRec) /\ call.got <= Len(taken) - Len(out)
      /\ call.op = "drain" /\ b.doEarlyClose =>
           call.copied + call.got + call.room <= MaxPost
  BY <1>1, CallFacts
<1>3. n \in Nat /\ room \in Nat /\ got \in Nat /\ end \in BOOLEAN /\ (end => n = 0)
  BY <1>1, <1>2, SMTT(60)
<1>4. Ahead \in TokenRec /\ wire' \in Seq(TokenRec)
  BY <1>1, <1>2, AheadType
<1>5. taken' \in Seq(TokenRec) /\ Len(taken') = Len(taken) + 1
  BY <1>1, <1>2, <1>4, AppendProperties
<1>6. got <= Len(taken') - Len(out)
  BY <1>2, <1>5
<1>7. call.op = "drain" /\ b.doEarlyClose => call.copied + got + room <= MaxPost
  <2>1. call.copied + got + room = call.copied + call.got + call.room
    BY <1>2, SMTT(60)
  <2> QED BY <1>2, <2>1
<1> HIDE DEF end, n, room, got
<1>8. /\ cr' \in [n : Nat, err : {"nil", "eof", "err"}, checkEnd : BOOLEAN, excess : Nat]
      /\ cr'.n = n /\ cr'.err = cr.err /\ cr'.checkEnd = end /\ cr'.excess = cr.excess
  BY <1>1, <1>3 DEF ReadInv, TypeInv, TypeOK
<1>9. /\ call' \in CallRec /\ call'.op = call.op /\ call'.room = room /\ call'.got = got
      /\ call'.copied = call.copied
  BY <1>1, <1>3 DEF ReadInv, TypeInv, CallRec
<1>10. TypeInv'
  BY <1>1, <1>4, <1>5, <1>8, <1>9 DEF ReadInv, TypeInv, TypeOK
<1>11. CallInv'
  BY <1>1, <1>6, <1>9 DEF ReadInv, CallInv, Early
<1>12. RoomInv'
  BY <1>1, <1>7, <1>9 DEF RoomInv
<1>13. LimitInv'
  <2>1. mb.limit \in Int
    <3>1. mb.limit \in Limits
      BY DEF ReadInv, TypeInv, ReaderRec
    <3>2. Limits \subseteq Int
      BY BodyAssumption
    <3> QED BY <3>1, <3>2
  <2>2. mb.limit >= 0 /\ mb.err = "toolarge" => Len(taken') > mb.limit
    BY <1>2, <1>5, <2>1 DEF ReadInv, LimitInv
  <2> QED BY <1>1, <2>2 DEF ReadInv, LimitInv
<1>14. AccountInv'
  <2>1. cr.excess <= MaxExcess /\ over.bytes + 2 <= cr.excess + allowed
        /\ over.bytes <= MaxExcess + allowed
    BY <1>1 DEF ReadInv, AccountInv, due
  <2>2. allowed' = allowed
    BY <1>1 DEF allowed
  <2>3. over.bytes \in Nat /\ cr.excess \in Nat /\ allowed \in Nat
    BY <1>1, CallFacts, AllowedType
  <2>4. over.bytes + 0 <= cr.excess + allowed
    BY <2>1, <2>3
  <2>5. due' = 0 \/ due' = 2
    BY DEF due
  <2> QED BY <1>1, <1>3, <1>8, <2>1, <2>2, <2>4, <2>5 DEF AccountInv
<1>15. CloseAccounts'
  BY <1>1 DEF ReadInv, CloseAccounts
<1> QED BY <1>10, <1>11, <1>12, <1>13, <1>14, <1>15 DEF ReadInv

-----------------------------------------------------------------------------
(* Whatever the messages, the sender and the user *)

LEMMA NextReads ==
  ASSUME ReadInv, [Next]_vars
  PROVE  ReadInv'
<1>1. CASE WriteRequest
  BY <1>1, WriteHeaderReads DEF WriteRequest, Writers
<1>2. CASE WriteResponse
  BY <1>2, WriteHeaderReads DEF WriteResponse, Writers
<1>3. CASE WriteChunk
  BY <1>3, WriteChunkReads
<1>4. CASE WriteEnd
  BY <1>4, WriteEndReads
<1>5. CASE ReadRequest \/ ReadResponse
  BY <1>5, ReadHeaderReads DEF ReadRequest, ReadResponse
<1>6. CASE \E k \in 1 .. MaxRead : Read(k)
  BY <1>6, ReadReads
<1>7. CASE Close
  BY <1>7, CloseReads
<1>8. CASE SrcPlain
  BY <1>8, SrcPlainReads
<1>9. CASE ChunkReturn
  BY <1>9, ChunkReturnReads
<1>10. CASE ChunkMalformed
  BY <1>10, ChunkMalformedReads
<1>11. CASE ChunkEnd
  BY <1>11, ChunkEndReads
<1>12. CASE BeginChunk
  BY <1>12, BeginChunkReads
<1>13. CASE ChunkData
  BY <1>13, ChunkDataReads
<1>14. CASE UNCHANGED vars
  BY <1>14 DEF vars, ReadInv, TypeInv, TypeOK, CallInv, RoomInv, LimitInv, AccountInv,
     due, allowed, CloseAccounts
<1> QED
  BY <1>1, <1>2, <1>3, <1>4, <1>5, <1>6, <1>7, <1>8, <1>9, <1>10, <1>11, <1>12, <1>13,
     <1>14 DEF Next

(* The types of the state, the account of the chunkedReader, the bounds of *)
(* a drain and of MaxBytesReader and what a Close leaves hold throughout.  *)
THEOREM ReadInvariance == Spec => []ReadInv
<1>1. Init => ReadInv
  BY InitReadInv
<1>2. ReadInv /\ [Next]_vars => ReadInv'
  BY NextReads
<1> QED BY <1>1, <1>2, PTL DEF Spec

(* chunkedReader.beginChunk: whatever chunks arrive, their overhead stays  *)
(* within the bound, an allowance for each and twice their data.           *)
THEOREM OverheadStaysBounded == Spec => []OverheadBounded
<1>1. ReadInv => OverheadBounded
  <2> SUFFICES ASSUME ReadInv PROVE OverheadBounded
    OBVIOUS
  <2>1. over.bytes <= MaxExcess + allowed
    BY DEF ReadInv, AccountInv
  <2>2. /\ over.bytes \in Nat /\ over.chunks \in Nat /\ over.data \in Nat
        /\ MaxExcess \in Nat /\ ChunkAllowance \in Nat
    BY BodyAssumption DEF ReadInv, TypeInv, TypeOK
  <2>3. ChunkAllowance * over.chunks \in Nat
    BY <2>2
  <2> QED BY <2>1, <2>2, <2>3 DEF allowed, OverheadBounded
<1> QED BY <1>1, ReadInvariance, PTL

(* body.Close and maxBytesReader: a body closed without an error was read  *)
(* to its end, marked for an early close or on a connection that closes;   *)
(* the handler gets no more than the limit and no complaint below it.      *)
THEOREM ReadsSound == Spec => []ReadSound
<1>1. ReadInv => ReadSound
  <2> SUFFICES ASSUME ReadInv PROVE ReadSound
    OBVIOUS
  <2>1. ASSUME mb.limit >= 0 PROVE Len(out) <= mb.limit
    <3>1. mb.limit \in Limits /\ mb.n \in Int /\ out \in Seq(TokenRec)
      BY DEF ReadInv, TypeInv, ReaderRec
    <3>2. Limits \subseteq Int
      BY BodyAssumption
    <3>3. mb.limit \in Int /\ mb.n \in Int /\ Len(out) \in Nat
      BY <3>1, <3>2, LenProperties
    <3>4. CASE pc \in Early
      BY <2>1, <3>3, <3>4 DEF ReadInv, CallInv
    <3>5. CASE mb.err = "toolarge"
      BY <2>1, <3>3, <3>5 DEF ReadInv, LimitInv
    <3>6. CASE pc \notin Early /\ mb.err # "toolarge"
      BY <2>1, <3>3, <3>6 DEF ReadInv, LimitInv
    <3> QED BY <3>4, <3>5, <3>6
  <2>2. LimitHolds
    BY <2>1 DEF ReadInv, LimitInv, LimitHolds
  <2> QED BY <2>2 DEF ReadInv, TypeInv, ReadSound
<1> QED BY <1>1, ReadInvariance, PTL

-----------------------------------------------------------------------------
(* A framed message: what the writer put on the wire the reader finds.     *)

Framed == ~SenderUnframed /\ ~WriterUnframed

(* A place in a chunked body: what comes next, the rest of the chunk at    *)
(* hand and the bytes of data before it.                                   *)
S(ph, left, got) == [ph |-> ph, left |-> left, got |-> got]
State == [ph : {"line", "data", "crlf", "trailer", "end", "next"}, left : Nat, got : Nat]

(* The token x of the message s leads from place a to place c.             *)
Follows(a, x, c, s) ==
  \/ /\ a.ph = "line" /\ x.v > 0 /\ x = SizeLine(x.v, s.ext) /\ a.got + x.v <= s.data
     /\ c = S("data", x.v, a.got)
  \/ a.ph = "line" /\ x = SizeLine(0, s.ext) /\ a.got = s.data /\ c = S("trailer", 0, a.got)
  \/ /\ a.ph = "data" /\ x = DataByte(a.got + 1)
     /\ c = S(IF a.left = 1 THEN "crlf" ELSE "data", a.left - 1, a.got + 1)
  \/ a.ph = "crlf" /\ x = CRLF /\ c = S("line", 0, a.got)
  \/ a.ph = "trailer" /\ x \in {CRLF, TrailerBlock} /\ c = S("end", 0, a.got)
  \/ a.ph = "end" /\ x = NextMessage /\ s.next /\ c = S("next", 0, a.got)

Run(a, w, c, s) ==
  \E run \in [0 .. Len(w) -> State] :
    /\ run[0] = a /\ run[Len(w)] = c
    /\ \A i \in 1 .. Len(w) : Follows(run[i - 1], w[i], run[i], s)

(* The rest of a chunked body, to its end when all of it was written.      *)
Rest(a, w, s) ==
  \E c \in State : Run(a, w, c, s) /\ (s.whole => c.ph = IF s.next THEN "next" ELSE "end")

(* The rest of a body without chunks, n bytes of which are gone.           *)
Plain(n, w, s) ==
  /\ n <= s.data
  /\ \A i \in 1 .. Len(w) : w[i] = IF n + i <= s.data THEN DataByte(n + i) ELSE NextMessage
  /\ n + Len(w) <= s.data + (IF s.next THEN 1 ELSE 0)
  /\ s.whole => n + Len(w) = s.data + (IF s.next THEN 1 ELSE 0)

NoChunk == [n |-> 0, err |-> "nil", checkEnd |-> FALSE, excess |-> 0]

(* What the transferWriter t announced, and what it has written.           *)
Announced(t) ==
  t.trailer # "bad" /\ sent.h = WrittenHeader(msg, t) /\ sent.data = BytesWritten(t)

WriteInv ==
  /\ pc \in Early => cr = NoChunk
  /\ pc = "write" => put = 0 /\ wire = <<>>
  /\ pc = "body" =>
       /\ Announced(tw) /\ ~sent.whole /\ ~sent.next
       /\ Chunked(tw.te) =>
            put <= tw.n /\ Run(S("line", 0, 0), wire, S("line", 0, put), sent)
       /\ ~Chunked(tw.te) => wire = <<>>
  /\ pc = "header" =>
       \E t \in Writers(msg) :
         /\ Announced(t)
         /\ sent.whole => WriteSucceeds(t)
         /\ sent.next => ~ShouldClose(msg.proto, sent.h.conn)
         /\ IF Chunked(t.te) THEN Rest(S("line", 0, 0), wire, sent) ELSE Plain(0, wire, sent)
  /\ sent.next => sent.whole

(* The place the chunkedReader has reached.                                *)
Here ==
  IF cr.err = "eof" THEN S("trailer", 0, Len(taken))
  ELSE S(IF cr.checkEnd THEN "crlf" ELSE IF cr.n > 0 THEN "data" ELSE "line",
         cr.n, Len(taken))

Took == Len(taken) <= sent.data /\ \A i \in 1 .. Len(taken) : taken[i] = DataByte(i)

Gave ==
  /\ \A i \in 1 .. Len(out) : out[i] = DataByte(i)
  /\ ~b.closed /\ mb.err # "toolarge" /\ call.op # "drain" => Len(out) = Len(taken) - call.got
  /\ ended = "eof" => Len(out) = Len(taken) \/ mb.err = "toolarge"
  /\ b.sawEOF /\ ~b.closed => ended # "none"

ChunkedInv ==
  /\ b.sawEOF => ~b.hdr /\ cr.err = "eof" /\ Rest(S("end", 0, Len(taken)), wire, sent)
  /\ ~b.hdr /\ ~b.sawEOF => b.closed
  /\ b.hdr /\ cr.err # "err" => Rest(Here, wire, sent)
  /\ Len(taken) + cr.n <= sent.data
  /\ cr.err = "eof" => Len(taken) = sent.data
  /\ sent.whole /\ sent.ext = 0 =>
       cr.err # "err" /\ ended # "err" /\ (cr.err = "nil" => cr.excess = 0)

PlainInv ==
  /\ ~b.hdr /\ Plain(Len(taken), wire, sent)
  /\ b.src = "none" => sent.data = 0
  /\ b.src = "raw" => ~sent.next /\ (b.sawEOF => wire = <<>>)
  /\ b.src = "limited" =>
       /\ Len(taken) + b.n >= sent.data
       /\ sent.whole => Len(taken) + b.n = sent.data
       /\ ~b.sawEOF => b.n > 0
       /\ b.sawEOF /\ ended # "err" => b.n = 0
  /\ sent.whole => ended # "err"

ReadFramed == Took /\ Gave /\ (IF b.src = "chunked" THEN ChunkedInv ELSE PlainInv)

FramedInv == Framed => WriteInv /\ (pc \in {"idle", "src"} => ReadFramed)

(* Runs *)

LEMMA RunEmpty ==
  ASSUME NEW a \in State, NEW c, NEW s
  PROVE  /\ Run(a, <<>>, a, s)
         /\ Run(a, <<>>, c, s) => a = c
<1>1. Run(a, <<>>, a, s)
  <2> DEFINE run == [i \in 0 .. 0 |-> a]
  <2>1. run \in [0 .. Len(<<>>) -> State] /\ run[0] = a /\ Len(<<>>) = 0
    OBVIOUS
  <2>2. \A i \in 1 .. Len(<<>>) : Follows(run[i - 1], <<>>[i], run[i], s)
    BY <2>1
  <2> HIDE DEF run
  <2> QED BY <2>1, <2>2 DEF Run
<1>2. Run(a, <<>>, c, s) => a = c
  BY DEF Run
<1> QED BY <1>1, <1>2

LEMMA RunOne ==
  ASSUME NEW a \in State, NEW c \in State, NEW x \in TokenRec, NEW s, Follows(a, x, c, s)
  PROVE  Run(a, <<x>>, c, s)
<1> DEFINE run == [i \in 0 .. 1 |-> IF i = 0 THEN a ELSE c]
<1>1. Len(<<x>>) = 1 /\ <<x>>[1] = x
  OBVIOUS
<1>2. run \in [0 .. 1 -> State] /\ run[0] = a /\ run[1] = c
  OBVIOUS
<1>3. \A i \in 1 .. 1 : i = 1 /\ i - 1 = 0
  OBVIOUS
<1> HIDE DEF run
<1>4. \A i \in 1 .. Len(<<x>>) : Follows(run[i - 1], <<x>>[i], run[i], s)
  BY <1>1, <1>2, <1>3
<1> QED BY <1>1, <1>2, <1>4 DEF Run

LEMMA RunConcat ==
  ASSUME NEW a \in State, NEW c \in State, NEW d \in State,
         NEW u \in Seq(TokenRec), NEW v \in Seq(TokenRec), NEW s,
         Run(a, u, c, s), Run(c, v, d, s)
  PROVE  Run(a, u \o v, d, s)
<1>1. PICK f \in [0 .. Len(u) -> State] :
        /\ f[0] = a /\ f[Len(u)] = c
        /\ \A i \in 1 .. Len(u) : Follows(f[i - 1], u[i], f[i], s)
  BY DEF Run
<1>2. PICK g \in [0 .. Len(v) -> State] :
        /\ g[0] = c /\ g[Len(v)] = d
        /\ \A i \in 1 .. Len(v) : Follows(g[i - 1], v[i], g[i], s)
  BY DEF Run
<1> DEFINE n == Len(u)
           m == Len(v)
           w == u \o v
           run == [i \in 0 .. n + m |-> IF i <= n THEN f[i] ELSE g[i - n]]
<1>3. n \in Nat /\ m \in Nat
  BY LenProperties
<1>4. /\ w \in Seq(TokenRec) /\ Len(w) = n + m
      /\ \A i \in 1 .. n + m : w[i] = IF i <= n THEN u[i] ELSE v[i - n]
  BY ConcatProperties
<1>5. /\ f \in [0 .. n -> State] /\ f[0] = a /\ f[n] = c
      /\ \A i \in 1 .. n : Follows(f[i - 1], u[i], f[i], s)
  BY <1>1
<1>6. /\ g \in [0 .. m -> State] /\ g[0] = c /\ g[m] = d
      /\ \A i \in 1 .. m : Follows(g[i - 1], v[i], g[i], s)
  BY <1>2
<1> HIDE DEF n, m, w
<1>7. run \in [0 .. n + m -> State]
  <2> SUFFICES ASSUME NEW i \in 0 .. n + m
               PROVE  (IF i <= n THEN f[i] ELSE g[i - n]) \in State
    OBVIOUS
  <2>1. i <= n => i \in 0 .. n
    BY <1>3
  <2>2. ~(i <= n) => i - n \in 0 .. m
    BY <1>3
  <2> QED BY <1>5, <1>6, <2>1, <2>2
<1>8. run[0] = a /\ run[n + m] = d
  <2>1. 0 \in 0 .. n + m /\ 0 <= n /\ n + m \in 0 .. n + m
    BY <1>3
  <2>2. run[0] = a
    BY <1>5, <2>1
  <2>3. CASE m = 0
    <3>1. n + m <= n /\ n + m = n
      BY <1>3, <2>3
    <3>2. run[n + m] = f[n]
      BY <2>1, <3>1
    <3> QED BY <1>5, <1>6, <2>2, <2>3, <3>2
  <2>4. CASE m # 0
    <3>1. ~(n + m <= n) /\ n + m - n = m
      BY <1>3, <2>4
    <3>2. run[n + m] = g[n + m - n]
      <4>1. \A i \in 0 .. n + m : ~(i <= n) => run[i] = g[i - n]
        OBVIOUS
      <4> HIDE DEF run
      <4> QED BY <2>1, <3>1, <4>1
    <3> HIDE DEF run
    <3> QED BY <1>6, <2>2, <3>1, <3>2
  <2> QED BY <2>3, <2>4
<1>9. \A i \in 1 .. n + m : Follows(run[i - 1], w[i], run[i], s)
  <2> SUFFICES ASSUME NEW i \in 1 .. n + m
               PROVE  Follows(run[i - 1], w[i], run[i], s)
    OBVIOUS
  <2>1. i - 1 \in 0 .. n + m /\ i \in 0 .. n + m
    BY <1>3
  <2>2. CASE i <= n
    <3>1. i - 1 <= n /\ i \in 1 .. n
      BY <1>3, <2>2
    <3>2. run[i - 1] = f[i - 1] /\ run[i] = f[i] /\ w[i] = u[i]
      BY <1>4, <2>1, <2>2, <3>1
    <3> HIDE DEF run
    <3> QED BY <1>5, <3>1, <3>2
  <2>3. CASE ~(i <= n)
    <3>1. i - n \in 1 .. m /\ (i - n) - 1 = i - 1 - n
      BY <1>3, <2>3
    <3>2. run[i] = g[i - n] /\ w[i] = v[i - n]
      BY <1>4, <2>1, <2>3
    <3>3. run[i - 1] = g[(i - n) - 1]
      <4>1. CASE i - 1 <= n
        <5>1. i - 1 = n /\ (i - n) - 1 = 0
          BY <1>3, <2>3, <4>1
        <5>2. run[i - 1] = f[n]
          BY <2>1, <4>1, <5>1
        <5> HIDE DEF run
        <5> QED BY <1>5, <1>6, <5>1, <5>2
      <4>2. CASE ~(i - 1 <= n)
        <5>1. run[i - 1] = g[i - 1 - n]
          BY <2>1, <4>2
        <5> QED BY <3>1, <5>1
      <4> QED BY <4>1, <4>2
    <3> HIDE DEF run
    <3> QED BY <1>6, <3>1, <3>2, <3>3
  <2> QED BY <2>2, <2>3
<1> HIDE DEF run
<1> QED BY <1>4, <1>7, <1>8, <1>9 DEF Run, w

LEMMA RunFirst ==
  ASSUME NEW a \in State, NEW c \in State, NEW w \in Seq(TokenRec), NEW s,
         w # <<>>, Run(a, w, c, s)
  PROVE  \E d \in State : Follows(a, w[1], d, s) /\ Run(d, Tail(w), c, s)
<1>1. PICK f \in [0 .. Len(w) -> State] :
        /\ f[0] = a /\ f[Len(w)] = c
        /\ \A i \in 1 .. Len(w) : Follows(f[i - 1], w[i], f[i], s)
  BY DEF Run
<1>2. Len(w) \in Nat /\ Len(w) > 0
  BY EmptySeq, LenProperties
<1>3. /\ Tail(w) \in Seq(TokenRec) /\ Len(Tail(w)) = Len(w) - 1
      /\ \A i \in 1 .. Len(w) - 1 : Tail(w)[i] = w[i + 1]
  BY <1>2, EmptySeq, HeadTailProperties
<1> DEFINE m == Len(w) - 1
           run == [i \in 0 .. m |-> f[i + 1]]
<1>4. m \in Nat /\ Len(w) = m + 1 /\ Len(Tail(w)) = m
  BY <1>2, <1>3
<1>5. /\ f \in [0 .. m + 1 -> State] /\ f[m + 1] = c
      /\ \A i \in 1 .. m + 1 : Follows(f[i - 1], w[i], f[i], s)
  BY <1>1, <1>4
<1>6. \A i \in 1 .. m : Tail(w)[i] = w[i + 1]
  BY <1>3
<1> HIDE DEF m
<1>7. run \in [0 .. m -> State] /\ run[0] = f[1] /\ run[m] = c
  <2>1. \A i \in 0 .. m : i + 1 \in 0 .. m + 1
    BY <1>4
  <2>2. 0 \in 0 .. m /\ m \in 0 .. m /\ 0 + 1 = 1
    BY <1>4
  <2> QED BY <1>5, <2>1, <2>2
<1>8. \A i \in 1 .. m : Follows(run[i - 1], Tail(w)[i], run[i], s)
  <2> SUFFICES ASSUME NEW i \in 1 .. m
               PROVE  Follows(run[i - 1], Tail(w)[i], run[i], s)
    OBVIOUS
  <2>1. /\ i - 1 \in 0 .. m /\ i \in 0 .. m /\ i + 1 \in 1 .. m + 1
        /\ i - 1 + 1 = i /\ i + 1 - 1 = i
    BY <1>4
  <2>2. run[i - 1] = f[i] /\ run[i] = f[i + 1]
    BY <2>1
  <2> HIDE DEF run
  <2>3. Follows(f[i + 1 - 1], w[i + 1], f[i + 1], s)
    BY <1>5, <2>1
  <2> QED BY <1>6, <2>1, <2>2, <2>3
<1>9. 1 \in 1 .. m + 1 /\ 1 - 1 = 0
  BY <1>4
<1>10. Follows(a, w[1], f[1], s)
  BY <1>1, <1>5, <1>9
<1> HIDE DEF run
<1>11. f[1] \in State
  BY <1>5, <1>9
<1> QED BY <1>4, <1>7, <1>8, <1>10, <1>11 DEF Run

LEMMA RunPrefix ==
  ASSUME NEW a \in State, NEW c \in State, NEW w \in Seq(TokenRec), NEW s,
         NEW k \in 0 .. Len(w), Run(a, w, c, s)
  PROVE  \E d \in State : Run(a, SubSeq(w, 1, k), d, s)
<1>1. PICK f \in [0 .. Len(w) -> State] :
        /\ f[0] = a /\ f[Len(w)] = c
        /\ \A i \in 1 .. Len(w) : Follows(f[i - 1], w[i], f[i], s)
  BY DEF Run
<1> DEFINE p == SubSeq(w, 1, k)
           run == [i \in 0 .. k |-> f[i]]
<1>2. Len(w) \in Nat
  BY LenProperties
<1>3. k \in Nat /\ k <= Len(w)
  BY <1>2
<1>4. Len(p) = k /\ \A i \in 1 .. k : p[i] = w[i]
  BY <1>3, SubSeqFacts
<1>5. \A i \in 0 .. k : i \in 0 .. Len(w)
  BY <1>2
<1>6. run \in [0 .. k -> State] /\ run[0] = a /\ run[k] = f[k] /\ f[k] \in State
  <2>1. 0 \in 0 .. k /\ k \in 0 .. k
    BY <1>3
  <2>2. \A i \in 0 .. k : f[i] \in State
    BY <1>1, <1>5
  <2>3. f[0] = a
    BY <1>1
  <2> HIDE DEF p
  <2> QED BY <2>1, <2>2, <2>3
<1>7. \A i \in 1 .. k : Follows(run[i - 1], p[i], run[i], s)
  <2> SUFFICES ASSUME NEW i \in 1 .. k
               PROVE  Follows(run[i - 1], p[i], run[i], s)
    OBVIOUS
  <2>1. i \in 1 .. Len(w) /\ i \in 0 .. k /\ i - 1 \in 0 .. k
    BY <1>2, <1>3
  <2>2. run[i - 1] = f[i - 1] /\ run[i] = f[i]
    BY <2>1
  <2> HIDE DEF run, p
  <2> QED BY <1>1, <1>4, <2>1, <2>2
<1> HIDE DEF run
<1> QED BY <1>4, <1>6, <1>7, ZenonT(60) DEF Run

LEMMA RunMono ==
  ASSUME NEW a, NEW c, NEW w, NEW s, NEW r, Run(a, w, c, s),
         r.ext = s.ext, r.data = s.data, s.next => r.next
  PROVE  Run(a, w, c, r)
<1>1. ASSUME NEW d, NEW e, NEW x, Follows(d, x, e, s) PROVE Follows(d, x, e, r)
  BY <1>1 DEF Follows
<1> QED BY <1>1 DEF Run

\* What a place leaves: nothing is behind the next message.
LEMMA RunFromEnd ==
  ASSUME NEW a \in State, NEW w \in Seq(TokenRec), NEW s \in SentRec,
         a.ph = "end", s.whole, Rest(a, w, s)
  PROVE  w = IF s.next THEN <<NextMessage>> ELSE <<>>
<1>1. PICK c \in State : Run(a, w, c, s) /\ c.ph = IF s.next THEN "next" ELSE "end"
  BY DEF Rest
<1>2. CASE w = <<>>
  <2>1. a = c
    BY <1>1, <1>2, RunEmpty
  <2>2. ~s.next
    BY <1>1, <2>1
  <2> QED BY <1>2, <2>2
<1>3. CASE w # <<>>
  <2>1. PICK d \in State : Follows(a, w[1], d, s) /\ Run(d, Tail(w), c, s)
    BY <1>1, <1>3, RunFirst
  <2>2. w[1] = NextMessage /\ s.next /\ d = S("next", 0, a.got)
    BY <2>1 DEF Follows
  <2>3. Len(w) \in Nat /\ Len(w) > 0 /\ Tail(w) \in Seq(TokenRec) /\ Len(Tail(w)) = Len(w) - 1
    BY <1>3, EmptySeq, LenProperties, HeadTailProperties
  <2>4. Tail(w) = <<>>
    <3>1. SUFFICES ASSUME Tail(w) # <<>> PROVE FALSE
      OBVIOUS
    <3>2. PICK e \in State : Follows(d, Tail(w)[1], e, s)
      BY <2>1, <2>3, <3>1, RunFirst
    <3>3. d.ph = "next"
      BY <2>2 DEF S
    <3> QED BY <3>2, <3>3 DEF Follows
  <2>5. Len(w) = 1
    <3> DEFINE t == Tail(w)
    <3>1. t = <<>>
      BY <2>4
    <3>2. Len(t) = Len(w) - 1 /\ Len(w) \in Nat
      BY <2>3
    <3> HIDE DEF t
    <3>3. Len(t) = 0
      BY <3>1
    <3> QED BY <3>2, <3>3
  <2>6. w = <<w[1]>>
    BY <2>5
  <2> QED BY <2>2, <2>6
<1> QED BY <1>2, <1>3

LEMMA PlaceTypes ==
  ASSUME NEW left \in Nat, NEW got \in Nat,
         NEW ph \in {"line", "data", "crlf", "trailer", "end", "next"}
  PROVE  /\ S(ph, left, got) \in State
         /\ S(ph, left, got).ph = ph /\ S(ph, left, got).left = left
         /\ S(ph, left, got).got = got
BY DEF S, State

\* The data of a chunk.
LEMMA RunData ==
  ASSUME NEW at \in Nat, NEW k \in Nat, k > 0, NEW s
  PROVE  Run(S("data", k, at), DataBytes(at + 1, at + k), S("crlf", 0, at + k), s)
<1> DEFINE w == DataBytes(at + 1, at + k)
           run == [i \in 0 .. k |-> S(IF i = k THEN "crlf" ELSE "data", k - i, at + i)]
<1>1. Len(w) = k /\ \A i \in 1 .. k : w[i] = DataByte(at + i)
  <2>1. at + 1 \in Nat /\ at + k \in Nat /\ at + 1 <= at + k + 1 /\ at + k + 1 - (at + 1) = k
    OBVIOUS
  <2>2. /\ Len(w) = at + k + 1 - (at + 1)
        /\ \A i \in 1 .. at + k + 1 - (at + 1) : w[i] = DataByte(at + 1 + i - 1)
    BY <2>1, DataFacts
  <2>3. \A i \in 1 .. k : at + 1 + i - 1 = at + i
    OBVIOUS
  <2> HIDE DEF w
  <2> QED BY <2>1, <2>2, <2>3
<1> HIDE DEF w
<1>2. \A i \in 0 .. k : S(IF i = k THEN "crlf" ELSE "data", k - i, at + i) \in State
  <2> TAKE i \in 0 .. k
  <2>1. k - i \in Nat /\ at + i \in Nat
    OBVIOUS
  <2> QED BY <2>1, PlaceTypes
<1>3. run \in [0 .. k -> State]
  BY <1>2
<1>4. run[0] = S("data", k, at) /\ run[k] = S("crlf", 0, at + k)
  <2>1. 0 \in 0 .. k /\ k \in 0 .. k /\ 0 # k /\ k - 0 = k /\ at + 0 = at /\ k - k = 0
    OBVIOUS
  <2> QED BY <2>1
<1>5. \A i \in 1 .. k : Follows(run[i - 1], w[i], run[i], s)
  <2> SUFFICES ASSUME NEW i \in 1 .. k
               PROVE  Follows(run[i - 1], w[i], run[i], s)
    OBVIOUS
  <2>1. i - 1 \in 0 .. k /\ i \in 0 .. k /\ i - 1 # k /\ at + (i - 1) + 1 = at + i
        /\ (k - (i - 1)) - 1 = k - i /\ (k - (i - 1) = 1 <=> i = k)
        /\ k - (i - 1) \in Nat /\ at + (i - 1) \in Nat
    OBVIOUS
  <2>2. /\ run[i - 1] = S("data", k - (i - 1), at + (i - 1))
        /\ run[i] = S(IF i = k THEN "crlf" ELSE "data", k - i, at + i)
    BY <2>1
  <2>3. /\ run[i - 1].ph = "data" /\ run[i - 1].left = k - (i - 1)
        /\ run[i - 1].got = at + (i - 1)
    BY <2>1, <2>2, PlaceTypes
  <2>4. w[i] = DataByte(run[i - 1].got + 1)
    BY <1>1, <2>1, <2>3
  <2> HIDE DEF run
  <2> QED BY <2>1, <2>2, <2>3, <2>4 DEF Follows
<1> HIDE DEF run
<1> QED BY <1>1, <1>3, <1>4, <1>5 DEF Run, w

\* A chunk of k bytes, from one chunk line to the next.
LEMMA RunChunk ==
  ASSUME NEW at \in Nat, NEW k \in Nat, k > 0, NEW s \in SentRec, at + k <= s.data
  PROVE  Run(S("line", 0, at), ChunkTokens(at, k, s.ext), S("line", 0, at + k), s)
<1> DEFINE size == <<SizeLine(k, s.ext)>>
           data == DataBytes(at + 1, at + k)
           end  == <<CRLF>>
<1>1. s.ext \in Nat /\ at + k \in Nat
  BY DEF SentRec
<1>2. /\ S("line", 0, at) \in State /\ S("data", k, at) \in State
      /\ S("crlf", 0, at + k) \in State /\ S("line", 0, at + k) \in State
      /\ S("line", 0, at).ph = "line" /\ S("line", 0, at).got = at
      /\ S("crlf", 0, at + k).ph = "crlf" /\ S("crlf", 0, at + k).got = at + k
  BY <1>1, PlaceTypes
<1>3. SizeLine(k, s.ext) \in TokenRec /\ CRLF \in TokenRec
  BY <1>1, TokenTypes
<1>4. Run(S("line", 0, at), size, S("data", k, at), s)
  <2>1. SizeLine(k, s.ext).v = k
    BY DEF SizeLine, Token
  <2>2. Follows(S("line", 0, at), SizeLine(k, s.ext), S("data", k, at), s)
    BY <1>2, <2>1 DEF Follows
  <2> QED BY <1>2, <1>3, <2>2, RunOne
<1>5. Run(S("data", k, at), data, S("crlf", 0, at + k), s)
  BY RunData
<1>6. Run(S("crlf", 0, at + k), end, S("line", 0, at + k), s)
  <2>1. Follows(S("crlf", 0, at + k), CRLF, S("line", 0, at + k), s)
    BY <1>2 DEF Follows
  <2> QED BY <1>2, <1>3, <2>1, RunOne
<1>7. size \in Seq(TokenRec) /\ data \in Seq(TokenRec) /\ end \in Seq(TokenRec)
  <2>1. at + 1 \in Nat /\ at + 1 <= at + k + 1
    OBVIOUS
  <2> QED BY <1>1, <1>3, <2>1, DataFacts
<1>8. size \o data \in Seq(TokenRec)
  BY <1>7, ConcatProperties
<1>9. ChunkTokens(at, k, s.ext) = (size \o data) \o end
  BY DEF ChunkTokens
<1> HIDE DEF size, data, end
<1>10. Run(S("line", 0, at), size \o data, S("crlf", 0, at + k), s)
  BY <1>2, <1>4, <1>5, <1>7, RunConcat
<1> QED BY <1>2, <1>6, <1>7, <1>8, <1>9, <1>10, RunConcat, ZenonT(60)

\* The last chunk line and the trailer.
LEMMA RunLast ==
  ASSUME NEW s \in SentRec, NEW x \in {CRLF, TrailerBlock}
  PROVE  Run(S("line", 0, s.data), <<SizeLine(0, s.ext)>> \o <<x>>, S("end", 0, s.data), s)
<1>1. s.ext \in Nat /\ s.data \in Nat
  BY DEF SentRec
<1>2. /\ S("line", 0, s.data) \in State /\ S("trailer", 0, s.data) \in State
      /\ S("end", 0, s.data) \in State
      /\ S("line", 0, s.data).ph = "line" /\ S("line", 0, s.data).got = s.data
      /\ S("trailer", 0, s.data).ph = "trailer" /\ S("trailer", 0, s.data).got = s.data
  BY <1>1, PlaceTypes
<1>3. SizeLine(0, s.ext) \in TokenRec /\ x \in TokenRec
  BY <1>1, TokenTypes
<1>4. Run(S("line", 0, s.data), <<SizeLine(0, s.ext)>>, S("trailer", 0, s.data), s)
  <2>1. Follows(S("line", 0, s.data), SizeLine(0, s.ext), S("trailer", 0, s.data), s)
    BY <1>2 DEF Follows
  <2> QED BY <1>2, <1>3, <2>1, RunOne
<1>5. Run(S("trailer", 0, s.data), <<x>>, S("end", 0, s.data), s)
  <2>1. Follows(S("trailer", 0, s.data), x, S("end", 0, s.data), s)
    BY <1>2 DEF Follows
  <2> QED BY <1>2, <1>3, <2>1, RunOne
<1>6. <<SizeLine(0, s.ext)>> \in Seq(TokenRec) /\ <<x>> \in Seq(TokenRec)
  BY <1>3
<1> QED BY <1>2, <1>4, <1>5, <1>6, RunConcat

\* The next message behind a body.
LEMMA RunNext ==
  ASSUME NEW s, s.next, NEW at \in Nat
  PROVE  Run(S("end", 0, at), <<NextMessage>>, S("next", 0, at), s)
<1>1. /\ S("end", 0, at) \in State /\ S("next", 0, at) \in State
      /\ S("end", 0, at).ph = "end" /\ S("end", 0, at).got = at
  BY PlaceTypes
<1>2. Follows(S("end", 0, at), NextMessage, S("next", 0, at), s)
  BY <1>1 DEF Follows
<1> QED BY <1>1, <1>2, TokenTypes, RunOne

(* The writer and the reader agree on the end of the body. *)

LEMMA ChunkedWriter ==
  ASSUME msg \in Message, NEW t \in Writers(msg), Framed, Chunked(t.te)
  PROVE  /\ t.hasBody /\ t.cl = Unknown /\ ~t.head /\ BytesWritten(t) = t.n
         /\ msg.proto = 11
         /\ msg.kind = "resp" => msg.method # "HEAD" /\ BodyAllowedForStatus(msg.status)
<1>1. PICK w \in WriterRec :
        /\ t = Sanitize(w) /\ w.proto = msg.proto
        /\ w.head = (msg.kind = "resp" /\ msg.method = "HEAD")
        /\ msg.kind = "resp" => w.te = msg.te /\ w.hasBody = (msg.body # "nil")
  BY RequestWriterIs, ResponseWriterIs DEF Writers, Message
<1>2. /\ t.te = IF ~w.head /\ (w.proto < 11 \/ ~w.hasBody) THEN <<>> ELSE w.te
      /\ t.hasBody = (w.hasBody /\ ~w.head) /\ t.cl = Unknown /\ t.head = w.head
  BY <1>1, SanitizeFacts
<1>3. ~w.head
  <2>1. SUFFICES ASSUME w.head PROVE FALSE
    BY DEF WriterRec
  <2>2. msg.kind = "resp" /\ msg.method = "HEAD" /\ t.te = msg.te
    BY <1>1, <1>2, <2>1
  <2> QED BY <2>2 DEF Framed, WriterUnframed
<1>4. w.proto \in {10, 11} /\ w.hasBody /\ w.proto = 11 /\ t.te = w.te
  <2>1. w.proto \in {10, 11} /\ w.hasBody \in BOOLEAN
    BY DEF WriterRec
  <2>2. ~(w.proto < 11 \/ ~w.hasBody)
    BY <1>2, <1>3, OneCoding
  <2> QED BY <1>2, <2>1, <2>2
<1>5. t.hasBody
  BY <1>2, <1>3, <1>4
<1>6. msg.kind = "resp" => msg.method # "HEAD" /\ BodyAllowedForStatus(msg.status)
  BY <1>1, <1>3, <1>4 DEF Framed, SenderUnframed
<1> QED BY <1>1, <1>2, <1>3, <1>4, <1>5, <1>6 DEF BytesWritten

LEMMA RequestLength ==
  ASSUME msg \in Message, NEW t \in Writers(msg), Framed, ~Chunked(t.te), msg.kind = "req"
  PROVE  t.cl \in Nat /\ ~t.head /\ (~t.hasBody => t.cl = 0)
<1>1. PICK w \in WriterRec :
        /\ t = Sanitize(w) /\ w.proto = msg.proto
        /\ w.head = (msg.kind = "resp" /\ msg.method = "HEAD")
        /\ \/ w.te = <<"chunked">>
           \/ w.cl = 0
           \/ /\ w.te = msg.te /\ w.cl = OutgoingLength(msg)
              /\ ~(msg.te = <<>> /\ msg.method # "CONNECT" /\ OutgoingLength(msg) < 0)
  BY RequestWriterIs DEF Writers
<1>2. /\ t.te = IF ~w.head /\ (w.proto < 11 \/ ~w.hasBody) THEN <<>> ELSE w.te
      /\ t.hasBody = (w.hasBody /\ ~w.head) /\ t.head = w.head
      /\ t.cl = IF ~w.head /\ ~w.hasBody THEN 0 ELSE w.cl
  BY <1>1, SanitizeFacts
<1>3. ~w.head /\ w.proto = 11
  BY <1>1 DEF Message
<1>4. w.hasBody \in BOOLEAN
  BY DEF WriterRec
<1>5. CASE ~w.hasBody
  BY <1>2, <1>3, <1>5
<1>6. CASE w.hasBody
  <2>1. t.te = w.te /\ t.cl = w.cl /\ t.hasBody
    <3>1. ~(w.proto < 11 \/ ~w.hasBody)
      BY <1>3, <1>6
    <3> QED BY <1>2, <1>3, <1>6, <3>1
  <2>2. w.te # <<"chunked">>
    BY <2>1, OneCoding
  <2>3. CASE w.cl = 0
    BY <1>2, <1>3, <2>1, <2>3
  <2>4. CASE w.cl # 0
    <3>1. /\ t.te = msg.te /\ t.cl = OutgoingLength(msg)
          /\ ~(msg.te = <<>> /\ msg.method # "CONNECT" /\ OutgoingLength(msg) < 0)
      BY <1>1, <2>1, <2>2, <2>4
    <3>2. msg.te = <<>> /\ msg.method # "CONNECT"
      BY <3>1 DEF Framed, SenderUnframed
    <3>3. OutgoingLength(msg) \in Nat
      BY <3>1, <3>2, LengthTypes DEF Unknown
    <3> QED BY <1>2, <1>3, <2>1, <3>1, <3>3
  <2> QED BY <2>3, <2>4
<1> QED BY <1>4, <1>5, <1>6

LEMMA ResponseLength ==
  ASSUME msg \in Message, NEW t \in Writers(msg), Framed, ~Chunked(t.te),
         msg.kind = "resp", msg.method # "HEAD"
  PROVE  /\ ~t.head /\ (~t.hasBody => t.cl = 0)
         /\ BodyAllowedForStatus(msg.status) =>
              \/ ShouldSendContentLength(t) \/ AddsZeroLength(msg, t)
              \/ ShouldClose(msg.proto, WrittenHeader(msg, t).conn)
         /\ AddsZeroLength(msg, t) => BytesWritten(t) = 0
         /\ ~BodyAllowedForStatus(msg.status) => BytesWritten(t) = 0
<1>1. PICK w \in WriterRec :
        /\ t = Sanitize(w) /\ w.proto = msg.proto /\ w.n = msg.n
        /\ w.head = (msg.kind = "resp" /\ msg.method = "HEAD")
        /\ w.te = msg.te /\ w.hasBody = (msg.body # "nil")
        /\ w.cl = WriteLength(msg) /\ w.close = WriteClose(msg)
  BY ResponseWriterIs DEF Writers
<1>2. /\ t.te = IF ~w.head /\ (w.proto < 11 \/ ~w.hasBody) THEN <<>> ELSE w.te
      /\ t.hasBody = (w.hasBody /\ ~w.head) /\ t.head = w.head /\ t.close = w.close
      /\ t.cl = (IF ~w.head /\ ~w.hasBody THEN 0 ELSE w.cl) /\ t.n = w.n
  BY <1>1, SanitizeFacts
<1>3. ~w.head /\ w.hasBody \in BOOLEAN /\ w.proto \in {10, 11}
  BY <1>1 DEF WriterRec
<1>4. /\ WriteLength(msg) \in Nat \cup {Unknown} /\ msg.n \in Nat
      /\ (msg.body # "reader" => msg.n = 0) /\ msg.conn \in Connections
  BY LengthTypes, MessageTypes DEF Message
<1>5. WrittenHeader(msg, t).conn
        = ((IF t.close THEN {"close"} ELSE {}) \cup {msg.conn}) \ {""}
  BY DEF WrittenHeader
<1>6. ASSUME BodyAllowedForStatus(msg.status), ~ShouldSendContentLength(t),
             ~AddsZeroLength(msg, t)
      PROVE  ShouldClose(msg.proto, WrittenHeader(msg, t).conn)
  <2>1. ~msg.uncompressed
    BY DEF Framed, WriterUnframed
  <2>2. CASE msg.proto = 10 /\ msg.conn # "keep-alive"
    <3>1. "keep-alive" \notin WrittenHeader(msg, t).conn
      BY <1>5, <2>2
    <3> QED BY <2>2, <3>1 DEF ShouldClose
  <2>3. CASE Chunked(msg.te)
    <3>1. w.hasBody
      BY <1>1, <2>3 DEF Framed, WriterUnframed
    <3>2. msg.proto = 10
      BY <1>1, <1>2, <1>3, <2>3, <3>1
    <3>3. msg.conn # "keep-alive"
      BY <2>3, <3>2 DEF Framed, SenderUnframed
    <3> QED BY <2>2, <3>2, <3>3
  <2>4. CASE ~Chunked(msg.te) /\ WriteLength(msg) = 0
    BY <1>6, <2>4 DEF AddsZeroLength
  <2>5. CASE ~Chunked(msg.te) /\ WriteLength(msg) = Unknown
    <3>1. CASE msg.proto = 10
      BY <2>2, <2>5, <3>1 DEF Framed, SenderUnframed
    <3>2. CASE msg.proto = 11
      <4>1. t.close
        BY <1>1, <1>2, <2>1, <2>5, <3>2 DEF WriteClose
      <4>2. "close" \in WrittenHeader(msg, t).conn
        BY <1>5, <4>1
      <4> QED BY <4>2 DEF ShouldClose
    <3> QED BY <1>1, <1>3, <3>1, <3>2
  <2>6. CASE ~Chunked(msg.te) /\ WriteLength(msg) \in Nat /\ WriteLength(msg) # 0
    <3>1. ~w.hasBody
      BY <1>1, <1>2, <1>3, <1>6, <2>6 DEF ShouldSendContentLength
    <3>2. msg.body = "nil"
      BY <1>1, <3>1
    <3>3. WriteLength(msg) = msg.cl
      BY <3>2 DEF WriteLength
    <3> QED BY <2>6, <3>2, <3>3 DEF Framed, WriterUnframed
  <2> QED BY <1>4, <2>3, <2>4, <2>5, <2>6
<1>7. t.n = msg.n /\ t.n \in Nat /\ t.cl \in Nat \cup {Unknown}
  BY <1>1, <1>2, <1>4
<1>8. ASSUME t.cl = 0 PROVE BytesWritten(t) = 0
  <2>1. 0 \in Int /\ t.n \in Int /\ Min({t.n, 0}) \in {t.n, 0}
        /\ Min({t.n, 0}) <= t.n /\ Min({t.n, 0}) <= 0
    <3>1. 0 \in Int /\ t.n \in Int
      BY <1>7
    <3> QED BY <3>1, MinTwo
  <2>2. Min({t.n, 0}) = 0
    BY <1>7, <2>1
  <2> QED BY <1>8, <2>2 DEF BytesWritten, Unknown
<1>9. AddsZeroLength(msg, t) => t.cl = 0
  BY <1>1, <1>2 DEF AddsZeroLength
<1>10. ASSUME ~BodyAllowedForStatus(msg.status) PROVE BytesWritten(t) = 0
  <2>1. t.n = 0
    BY <1>4, <1>7, <1>10 DEF Framed, SenderUnframed
  <2>2. CASE t.cl = Unknown
    BY <2>1, <2>2 DEF BytesWritten
  <2>3. CASE t.cl \in Nat
    <3>1. Min({0, t.cl}) \in {0, t.cl} /\ Min({0, t.cl}) <= 0 /\ Min({0, t.cl}) <= t.cl
      <4>1. 0 \in Int /\ t.cl \in Int
        BY <2>3
      <4> QED BY <4>1, MinTwo
    <3>2. Min({t.n, t.cl}) = 0
      BY <2>1, <2>3, <3>1
    <3> QED BY <2>3, <3>2 DEF BytesWritten, Unknown
  <2> QED BY <1>7, <2>2, <2>3
<1> QED BY <1>2, <1>3, <1>6, <1>8, <1>9, <1>10

LEMMA HeadWritesNothing ==
  ASSUME msg \in Message, NEW t \in Writers(msg), msg.kind = "resp", msg.method = "HEAD"
  PROVE  BytesWritten(t) = 0
<1>1. PICK w \in WriterRec :
        t = Sanitize(w) /\ w.head = (msg.kind = "resp" /\ msg.method = "HEAD")
  BY ResponseWriterIs DEF Writers
<1>2. t.hasBody = (w.hasBody /\ ~w.head)
  BY <1>1, SanitizeFacts
<1> QED BY <1>1, <1>2 DEF BytesWritten

LEMMA Agreement ==
  ASSUME msg \in Message, NEW t \in Writers(msg), Framed, NEW h, h = WrittenHeader(msg, t)
  PROVE  LET rt == ReadTransfer(msg.kind, msg.status, msg.method, msg.proto, h)
         IN  /\ Chunked(t.te) => rt.src = "chunked" /\ rt.hdr
             /\ ~Chunked(t.te) =>
                  /\ ~rt.hdr
                  /\ \/ /\ rt.src = "limited" /\ rt.n = t.cl /\ t.cl \in Nat /\ t.cl > 0
                        /\ t.hasBody /\ ~t.head
                     \/ rt.src = "none" /\ BytesWritten(t) = 0
                     \/ rt.src = "raw" /\ ShouldClose(msg.proto, h.conn)
<1> DEFINE real == FixLength(msg.kind, msg.status, msg.method, msg.proto, h)
           chunked  == IsChunked(msg.proto, h)
           bodiless == msg.kind = "resp"
                         /\ (NoResponseBodyExpected(msg.method) \/ ~BodyAllowedForStatus(msg.status))
           close == \/ ShouldClose(msg.proto, h.conn)
                    \/ msg.kind = "resp" /\ real = Unknown /\ ~chunked
                         /\ BodyAllowedForStatus(msg.status)
           rt == ReadTransfer(msg.kind, msg.status, msg.method, msg.proto, h)
           src == CASE chunked -> IF bodiless THEN "none" ELSE "chunked"
                    [] ~chunked /\ real = 0 -> "none"
                    [] ~chunked /\ real > 0 -> "limited"
                    [] OTHER -> IF close THEN "raw" ELSE "none"
           n == IF real > 0 THEN real ELSE 0
<1>1. rt = [src |-> src, n |-> n, closing |-> close, hdr |-> chunked]
  BY DEF ReadTransfer
<1>2. rt.src = src /\ rt.n = n /\ rt.hdr = chunked
  <2> HIDE DEF rt, src, n, close, chunked
  <2> QED BY <1>1
<1>3. /\ t \in WriterRec /\ t.cl \in Int /\ t.cl >= -1
      /\ msg.kind \in {"req", "resp"} /\ (msg.kind = "req" => msg.status = 200)
  <2>1. t \in WriterRec /\ t.cl >= -1
    BY WriterFacts
  <2> QED BY <2>1, MessageTypes DEF WriterRec, Message
<1>4. /\ h.tes = (IF Chunked(t.te) THEN <<"chunked">> ELSE <<>>)
      /\ h.cls = CASE ShouldSendContentLength(t) -> <<t.cl>>
                   [] AddsZeroLength(msg, t) -> <<0>>
                   [] OTHER -> <<>>
  BY DEF WrittenHeader
<1> HIDE DEF rt
<1>5. CASE Chunked(t.te)
  <2>1. msg.proto = 11 /\ ~bodiless
    BY <1>5, ChunkedWriter DEF NoResponseBodyExpected
  <2>2. chunked
    BY <1>4, <1>5, <2>1, OneCoding DEF IsChunked, Chunked
  <2>3. src = "chunked"
    <3> HIDE DEF chunked, bodiless, real, close
    <3> QED BY <2>1, <2>2
  <2> HIDE DEF chunked, src
  <2> QED BY <1>2, <1>5, <2>2, <2>3 DEF rt
<1>6. CASE ~Chunked(t.te)
  <2>1. ~chunked
    BY <1>4, <1>6 DEF IsChunked
  <2>2. /\ ShouldSendContentLength(t) => h.cls # <<>> /\ h.cls[1] = t.cl
        /\ ~ShouldSendContentLength(t) /\ AddsZeroLength(msg, t) => h.cls # <<>> /\ h.cls[1] = 0
        /\ ~ShouldSendContentLength(t) /\ ~AddsZeroLength(msg, t) => h.cls = <<>>
    <3>1. /\ <<t.cl>> # <<>> /\ <<t.cl>>[1] = t.cl
          /\ <<0>> # <<>> /\ <<0>>[1] = 0
      OBVIOUS
    <3>2. ~ShouldSendContentLength(t) \/ ~AddsZeroLength(msg, t)
      BY DEF AddsZeroLength
    <3> QED BY <1>4, <3>1, <3>2
  <2>3. ASSUME real = 0, BytesWritten(t) = 0
        PROVE  src = "none"
    <3> HIDE DEF chunked, real, close, bodiless
    <3> QED BY <2>1, <2>3
  <2>4. ASSUME t.cl > 0, real = t.cl
        PROVE  src = "limited" /\ n = t.cl /\ t.cl \in Nat
    <3> HIDE DEF chunked, real, close, bodiless
    <3>1. real > 0 /\ ~(real = 0) /\ t.cl \in Nat
      BY <1>3, <2>4
    <3> QED BY <2>1, <2>4, <3>1
  <2>5. ASSUME real = Unknown, msg.kind = "resp", BodyAllowedForStatus(msg.status)
        PROVE  src = "raw"
    <3>1. close
      BY <2>1, <2>5
    <3> HIDE DEF chunked, real, close, bodiless
    <3>2. ~(real > 0) /\ ~(real = 0)
      BY <2>5 DEF Unknown
    <3> QED BY <2>1, <3>1, <3>2
  <2>6. t.cl = 0 => BytesWritten(t) = 0
    <3> SUFFICES ASSUME t.cl = 0 PROVE BytesWritten(t) = 0
      OBVIOUS
    <3>1. t.n \in Nat
      BY <1>3 DEF WriterRec
    <3>2. 0 \in Int /\ t.n \in Int
      BY <3>1
    <3>3. Min({t.n, 0}) \in {t.n, 0} /\ Min({t.n, 0}) <= 0
      BY <3>2, MinTwo
    <3>4. Min({t.n, 0}) = 0
      BY <3>1, <3>3
    <3> QED BY <3>4 DEF BytesWritten, Unknown
  <2>7. CASE msg.kind = "req"
    <3>1. t.cl \in Nat /\ ~t.head /\ (~t.hasBody => t.cl = 0)
      BY <1>6, <2>7, RequestLength
    <3>2. real = IF h.cls # <<>> THEN h.cls[1] ELSE 0
      <4>1. msg.status \notin 100 .. 199 \cup {204, 304}
        BY <1>3, <2>7
      <4> HIDE DEF chunked
      <4> QED BY <2>1, <2>7, <4>1, ZenonT(60) DEF FixLength, chunked
    <3>3. ~AddsZeroLength(msg, t)
      BY <2>7 DEF AddsZeroLength
    <3>4. CASE t.cl = 0
      <4>1. real = 0 /\ BytesWritten(t) = 0
        BY <2>2, <2>6, <3>2, <3>3, <3>4
      <4> HIDE DEF src, chunked, n
      <4> QED BY <1>2, <1>6, <2>1, <2>3, <4>1 DEF rt
    <3>5. CASE t.cl # 0
      <4>1. t.cl > 0 /\ ShouldSendContentLength(t) /\ t.hasBody
        BY <1>6, <3>1, <3>5, <1>3 DEF ShouldSendContentLength, WriterRec
      <4>2. real = t.cl
        BY <2>2, <3>2, <4>1
      <4> HIDE DEF src, chunked, n
      <4> QED BY <1>2, <1>6, <2>1, <2>4, <3>1, <4>1, <4>2 DEF rt
    <3> QED BY <3>4, <3>5
  <2>8. CASE msg.kind = "resp" /\ msg.method = "HEAD"
    <3>1. real = 0
      BY <2>8 DEF FixLength, NoResponseBodyExpected
    <3>2. BytesWritten(t) = 0
      BY <2>8, HeadWritesNothing
    <3> HIDE DEF src, chunked, n
    <3> QED BY <1>2, <1>6, <2>1, <2>3, <3>1, <3>2 DEF rt
  <2>9. CASE msg.kind = "resp" /\ msg.method # "HEAD"
    <3>1. /\ ~t.head /\ (~t.hasBody => t.cl = 0)
          /\ BodyAllowedForStatus(msg.status) =>
               \/ ShouldSendContentLength(t) \/ AddsZeroLength(msg, t)
               \/ ShouldClose(msg.proto, h.conn)
          /\ AddsZeroLength(msg, t) => BytesWritten(t) = 0
          /\ ~BodyAllowedForStatus(msg.status) => BytesWritten(t) = 0
      BY <1>6, <2>9, ResponseLength
    <3>2. CASE ~BodyAllowedForStatus(msg.status)
      <4>1. msg.status \in 100 .. 199 \cup {204, 304}
        BY <3>2 DEF BodyAllowedForStatus
      <4>2. real = 0
        BY <2>9, <4>1 DEF FixLength, NoResponseBodyExpected
      <4> HIDE DEF src, chunked, n
      <4> QED BY <1>2, <1>6, <2>1, <2>3, <3>1, <3>2, <4>2 DEF rt
    <3>3. CASE BodyAllowedForStatus(msg.status)
      <4>1. real = IF h.cls # <<>> THEN h.cls[1] ELSE Unknown
        <5>1. msg.status \notin 100 .. 199 \cup {204, 304}
          BY <3>3 DEF BodyAllowedForStatus
        <5> QED BY <2>1, <2>9, <5>1 DEF FixLength, NoResponseBodyExpected
      <4>2. CASE ShouldSendContentLength(t) /\ t.cl = 0
        <5>1. real = 0 /\ BytesWritten(t) = 0
          BY <2>2, <2>6, <4>1, <4>2
        <5> HIDE DEF src, chunked, n
        <5> QED BY <1>2, <1>6, <2>1, <2>3, <5>1 DEF rt
      <4>3. CASE ShouldSendContentLength(t) /\ t.cl # 0
        <5>1. t.cl > 0 /\ t.hasBody /\ real = t.cl
          BY <1>3, <2>2, <3>1, <4>1, <4>3 DEF ShouldSendContentLength, WriterRec
        <5> HIDE DEF src, chunked, n
        <5> QED BY <1>2, <1>6, <2>1, <2>4, <3>1, <5>1 DEF rt
      <4>4. CASE ~ShouldSendContentLength(t) /\ AddsZeroLength(msg, t)
        <5>1. real = 0
          BY <2>2, <4>1, <4>4
        <5> HIDE DEF src, chunked, n
        <5> QED BY <1>2, <1>6, <2>1, <2>3, <3>1, <4>4, <5>1 DEF rt
      <4>5. CASE ~ShouldSendContentLength(t) /\ ~AddsZeroLength(msg, t)
        <5>1. real = Unknown /\ ShouldClose(msg.proto, h.conn)
          BY <2>2, <3>1, <3>3, <4>1, <4>5
        <5> HIDE DEF src, chunked, n
        <5> QED BY <1>2, <1>6, <2>1, <2>5, <2>9, <3>3, <5>1 DEF rt
      <4> QED BY <4>2, <4>3, <4>4, <4>5
    <3> QED BY <3>2, <3>3
  <2> QED BY <1>3, <2>7, <2>8, <2>9
<1> QED BY <1>5, <1>6

(* The steps of the writer *)

Kept == WriteInv /\ (pc \in {"idle", "src"} => ReadFramed)

LEMMA InitKept ==
  ASSUME Init
  PROVE  Kept
BY DEF Init, Kept, WriteInv, NoChunk, NoSent

LEMMA WriteHeaderKept ==
  ASSUME ReadInv, Kept, Framed, pc = "write", NEW writers, writers \subseteq Writers(msg),
         WriteHeader(writers)
  PROVE  Kept'
<1>1. PICK t \in {s \in writers : s.trailer # "bad"}, ext \in Extensions :
        /\ tw' = t
        /\ sent' = [NoSent EXCEPT !.h = WrittenHeader(msg, t), !.data = BytesWritten(t),
                                  !.ext = ext]
  BY DEF WriteHeader
<1>2. /\ pc' = "body"
      /\ UNCHANGED <<msg, put, wire, b, cr, mb, call, taken, out, ended, over>>
  BY DEF WriteHeader
<1>3. /\ sent'.h = WrittenHeader(msg, t) /\ sent'.data = BytesWritten(t)
      /\ sent'.whole = FALSE /\ sent'.next = FALSE
  BY <1>1 DEF NoSent
<1>4. put = 0 /\ wire = <<>> /\ cr = NoChunk
  BY DEF Kept, WriteInv, Early
<1>5. Announced(tw)'
  BY <1>1, <1>2, <1>3 DEF Announced
<1>6. Run(S("line", 0, 0), <<>>, S("line", 0, 0), sent')
  <2>1. S("line", 0, 0) \in State
    BY PlaceTypes
  <2> QED BY <2>1, RunEmpty
<1>7. 0 <= t.n
  <2>1. t \in WriterRec
    BY BodyAssumption, WriterTypes DEF ReadInv, TypeInv
  <2> QED BY <2>1 DEF WriterRec
<1>8. WriteInv'
  BY <1>1, <1>2, <1>3, <1>4, <1>5, <1>6, <1>7 DEF WriteInv
<1> QED BY <1>2, <1>8 DEF Kept

LEMMA WriteChunkKept ==
  ASSUME ReadInv, Kept, Framed, WriteChunk
  PROVE  Kept'
<1>1. PICK k \in 1 .. (tw.n - put) :
        wire' = wire \o ChunkTokens(put, k, sent.ext) /\ put' = put + k
  BY DEF WriteChunk
<1>2. /\ pc = "body" /\ pc' = pc /\ Chunked(tw.te)
      /\ UNCHANGED <<msg, tw, sent, b, cr, mb, call, taken, out, ended, over>>
  BY DEF WriteChunk
<1>3. /\ Announced(tw) /\ ~sent.whole /\ ~sent.next /\ cr = NoChunk
      /\ put <= tw.n /\ Run(S("line", 0, 0), wire, S("line", 0, put), sent)
  BY <1>2 DEF Kept, WriteInv, Early
<1>4. tw \in Writers(msg) /\ msg \in Message
  BY <1>2, BodyAssumption DEF ReadInv, TypeInv
<1>5. sent.data = tw.n
  BY <1>2, <1>3, <1>4, ChunkedWriter DEF Announced
<1>6. /\ put \in Nat /\ tw.n \in Nat /\ sent \in SentRec /\ sent.ext \in Nat
      /\ wire \in Seq(TokenRec)
  <2>1. tw \in WriterRec
    BY <1>4, WriterTypes
  <2> QED BY <2>1 DEF ReadInv, TypeInv, SentRec, WriterRec
<1>7. k \in Nat /\ k > 0 /\ put + k \in Nat /\ put + k <= tw.n
  BY <1>6
<1>8. Run(S("line", 0, put), ChunkTokens(put, k, sent.ext), S("line", 0, put + k), sent)
  BY <1>5, <1>6, <1>7, RunChunk
<1>9. ChunkTokens(put, k, sent.ext) \in Seq(TokenRec)
  BY <1>6, <1>7, ChunkType
<1>10. S("line", 0, 0) \in State /\ S("line", 0, put) \in State /\ S("line", 0, put + k) \in State
  BY <1>6, <1>7, PlaceTypes
<1>11. Run(S("line", 0, 0), wire', S("line", 0, put'), sent)
  BY <1>1, <1>3, <1>6, <1>8, <1>9, <1>10, RunConcat
<1>12. Announced(tw)'
  BY <1>2, <1>3 DEF Announced
<1>13. WriteInv'
  BY <1>1, <1>2, <1>3, <1>7, <1>11, <1>12 DEF WriteInv
<1> QED BY <1>2, <1>13 DEF Kept

\* What the chunks and their end leave on the wire.
LEMMA ChunksEnd ==
  ASSUME ReadInv, Kept, Framed, pc = "body", Chunked(tw.te), put = tw.n
  PROVE  LET bytes == wire \o WrittenAtEnd(tw, sent.ext)
         IN  \E c \in State : /\ Run(S("line", 0, 0), bytes, c, sent)
                              /\ WriteSucceeds(tw) => c = S("end", 0, sent.data)
<1> DEFINE end == IF tw.trailer = "ok" THEN <<TrailerBlock>> ELSE <<CRLF>>
           tail == WrittenAtEnd(tw, sent.ext)
<1>1. /\ Announced(tw) /\ Run(S("line", 0, 0), wire, S("line", 0, put), sent)
  BY DEF Kept, WriteInv
<1>2. tw \in Writers(msg) /\ msg \in Message
  BY BodyAssumption DEF ReadInv, TypeInv
<1>3. sent.data = put /\ tw.hasBody
  BY <1>1, <1>2, ChunkedWriter DEF Announced
<1>4. /\ sent \in SentRec /\ sent.ext \in Nat /\ sent.data \in Nat /\ wire \in Seq(TokenRec)
  BY DEF ReadInv, TypeInv, SentRec
<1>5. /\ S("line", 0, 0) \in State /\ S("line", 0, sent.data) \in State
      /\ S("end", 0, sent.data) \in State
  BY <1>4, PlaceTypes, SMTT(60)
<1>6. CASE WriteSucceeds(tw)
  <2>1. tail = <<SizeLine(0, sent.ext)>> \o end
    BY <1>3, <1>6 DEF WrittenAtEnd
  <2>2. Run(S("line", 0, sent.data), <<SizeLine(0, sent.ext)>> \o end, S("end", 0, sent.data), sent)
    <3>1. CASE tw.trailer = "ok"
      BY <1>4, <3>1, RunLast
    <3>2. CASE tw.trailer # "ok"
      BY <1>4, <3>2, RunLast
    <3> QED BY <3>1, <3>2
  <2>3. tail \in Seq(TokenRec)
    <3>1. <<SizeLine(0, sent.ext)>> \in Seq(TokenRec) /\ end \in Seq(TokenRec)
      <4>1. SizeLine(0, sent.ext) \in TokenRec /\ CRLF \in TokenRec /\ TrailerBlock \in TokenRec
        BY <1>4, TokenTypes
      <4> QED BY <4>1
    <3> QED BY <2>1, <3>1, ConcatProperties
  <2> HIDE DEF tail, end
  <2>4. Run(S("line", 0, 0), wire \o tail, S("end", 0, sent.data), sent)
    BY <1>1, <1>3, <1>4, <1>5, <2>1, <2>2, <2>3, RunConcat
  <2> QED BY <1>5, <2>4 DEF tail
<1>7. CASE ~WriteSucceeds(tw)
  <2>1. tail = <<>>
    BY <1>3, <1>7 DEF WrittenAtEnd
  <2>2. wire \o <<>> = wire
    BY <1>4, ConcatEmptySeq
  <2> QED BY <1>1, <1>3, <1>5, <1>7, <2>1, <2>2
<1> QED BY <1>6, <1>7

LEMMA WriteEndKept ==
  ASSUME ReadInv, Kept, Framed, WriteEnd
  PROVE  Kept'
<1> DEFINE bytes == wire \o WrittenAtEnd(tw, sent.ext)
           whole == WriteSucceeds(tw)
           more  == whole /\ ~ShouldClose(msg.proto, sent.h.conn)
           start == S("line", 0, 0)
<1>1. /\ \/ /\ sent' = [sent EXCEPT !.whole = whole, !.next = more]
            /\ wire' = IF more THEN Append(bytes, NextMessage) ELSE bytes
         \/ \E k \in 0 .. (Len(bytes) - 1) : wire' = SubSeq(bytes, 1, k) /\ UNCHANGED sent
      /\ pc = "body" /\ pc' = "header"
      /\ (Chunked(tw.te) /\ tw.hasBody => put = tw.n)
      /\ UNCHANGED <<msg, b, cr, mb, call, taken, out, ended, over>>
  BY DEF WriteEnd
<1>2. /\ Announced(tw) /\ ~sent.whole /\ ~sent.next /\ cr = NoChunk
      /\ (~Chunked(tw.te) => wire = <<>>)
  BY <1>1 DEF Kept, WriteInv, Early
<1>3. tw \in Writers(msg) /\ msg \in Message
  BY <1>1, BodyAssumption DEF ReadInv, TypeInv
<1>4. tw \in WriterRec /\ BytesWritten(tw) \in Nat /\ sent.data = BytesWritten(tw)
  BY <1>2, <1>3, WriterFacts DEF Announced
<1>5. /\ sent \in SentRec /\ sent.ext \in Nat /\ sent.data \in Nat /\ wire \in Seq(TokenRec)
  BY DEF ReadInv, TypeInv, SentRec
<1>6. bytes \in Seq(TokenRec)
  BY <1>4, <1>5, EndType, ConcatProperties
<1>7. whole \in BOOLEAN /\ more \in BOOLEAN
  BY DEF WriteSucceeds
<1>8. Chunked(tw.te) =>
        \E c \in State : Run(start, bytes, c, sent) /\ (whole => c = S("end", 0, sent.data))
  BY <1>1, <1>3, ChunkedWriter, ChunksEnd
<1>9. ~Chunked(tw.te) =>
        /\ Len(bytes) = sent.data /\ \A i \in 1 .. sent.data : bytes[i] = DataByte(i)
  <2> SUFFICES ASSUME ~Chunked(tw.te)
               PROVE  Len(bytes) = sent.data /\ \A i \in 1 .. sent.data : bytes[i] = DataByte(i)
    OBVIOUS
  <2> DEFINE d == DataBytes(1, sent.data)
  <2>1. WrittenAtEnd(tw, sent.ext) = d
    BY <1>4 DEF WrittenAtEnd
  <2>2. /\ d \in Seq(TokenRec) /\ Len(d) = sent.data + 1 - 1
        /\ \A i \in 1 .. sent.data + 1 - 1 : d[i] = DataByte(1 + i - 1)
    <3>1. 1 \in Nat /\ 1 <= sent.data + 1
      BY <1>5
    <3> QED BY <1>5, <3>1, DataFacts
  <2> HIDE DEF d
  <2>3. bytes = d
    BY <1>2, <2>1, <2>2, ConcatEmptySeq
  <2>4. sent.data + 1 - 1 = sent.data /\ \A i \in 1 .. sent.data : 1 + i - 1 = i
    BY <1>5
  <2> HIDE DEF bytes
  <2> QED BY <2>2, <2>3, <2>4
<1> HIDE DEF bytes, whole, more
<1>10. more => whole /\ ~ShouldClose(msg.proto, sent.h.conn)
  BY DEF more
<1>11. start \in State
  BY PlaceTypes
<1>12. Len(bytes) \in Nat
  BY <1>6, LenProperties
<1>13. ASSUME sent' = [sent EXCEPT !.whole = whole, !.next = more],
              wire' = IF more THEN Append(bytes, NextMessage) ELSE bytes
       PROVE  /\ sent'.h = sent.h /\ sent'.data = sent.data
              /\ (sent'.whole => whole) /\ (sent'.next => more) /\ (sent'.next => sent'.whole)
              /\ Chunked(tw.te) => Rest(start, wire', sent')
              /\ ~Chunked(tw.te) => Plain(0, wire', sent')
  <2>1. /\ sent' \in SentRec /\ sent'.h = sent.h /\ sent'.data = sent.data /\ sent'.ext = sent.ext
        /\ sent'.whole = whole /\ sent'.next = more
    BY <1>5, <1>7, <1>13 DEF SentRec
  <2>2. ASSUME Chunked(tw.te)
        PROVE  Rest(start, wire', sent')
    <3>1. PICK c \in State :
            Run(start, bytes, c, sent) /\ (whole => c = S("end", 0, sent.data))
      BY <1>8, <2>2
    <3>2. Run(start, bytes, c, sent')
      BY <1>2, <2>1, <3>1, RunMono
    <3>3. CASE more
      <4>1. Run(S("end", 0, sent.data), <<NextMessage>>, S("next", 0, sent.data), sent')
        BY <1>5, <2>1, <3>3, RunNext
      <4>2. /\ S("end", 0, sent.data) \in State /\ S("next", 0, sent.data) \in State
            /\ S("next", 0, sent.data).ph = "next"
        BY <1>5, PlaceTypes
      <4>3. <<NextMessage>> \in Seq(TokenRec) /\ NextMessage \in TokenRec
        BY TokenTypes
      <4>4. wire' = bytes \o <<NextMessage>>
        BY <1>6, <1>13, <3>3, <4>3, AppendIsConcat
      <4>5. Run(start, wire', S("next", 0, sent.data), sent')
        BY <1>6, <1>10, <1>11, <3>1, <3>2, <3>3, <4>1, <4>2, <4>3, <4>4, RunConcat
      <4> QED BY <2>1, <3>3, <4>2, <4>5 DEF Rest
    <3>4. CASE ~more
      <4>1. wire' = bytes
        BY <1>13, <3>4
      <4>2. S("end", 0, sent.data).ph = "end"
        BY <1>5, PlaceTypes
      <4> QED BY <2>1, <3>1, <3>2, <3>4, <4>1, <4>2 DEF Rest
    <3> QED BY <3>3, <3>4
  <2>3. ASSUME ~Chunked(tw.te)
        PROVE  Plain(0, wire', sent')
    <3>1. Len(bytes) = sent.data /\ \A i \in 1 .. sent.data : bytes[i] = DataByte(i)
      BY <1>9, <2>3
    <3>2. CASE more
      <4>1. wire' = Append(bytes, NextMessage)
        BY <1>13, <3>2
      <4>2. /\ Len(wire') = sent.data + 1 /\ wire'[sent.data + 1] = NextMessage
            /\ \A i \in 1 .. sent.data : wire'[i] = bytes[i]
        BY <1>6, <3>1, <4>1, TokenTypes, AppendProperties
      <4>3. \A i \in 1 .. Len(wire') :
              wire'[i] = IF 0 + i <= sent.data THEN DataByte(0 + i) ELSE NextMessage
        <5> SUFFICES ASSUME NEW i \in 1 .. sent.data + 1
                     PROVE  wire'[i] = IF 0 + i <= sent.data THEN DataByte(0 + i) ELSE NextMessage
          BY <4>2
        <5>1. 0 + i = i /\ (i <= sent.data => i \in 1 .. sent.data)
              /\ (~(i <= sent.data) => i = sent.data + 1)
          BY <1>5
        <5> QED BY <3>1, <4>2, <5>1
      <4>4. 0 + (sent.data + 1) = sent.data + 1 /\ 0 <= sent.data
        BY <1>5
      <4> QED BY <2>1, <3>2, <4>2, <4>3, <4>4 DEF Plain
    <3>3. CASE ~more
      <4>1. wire' = bytes
        BY <1>13, <3>3
      <4>2. \A i \in 1 .. sent.data :
              bytes[i] = IF 0 + i <= sent.data THEN DataByte(0 + i) ELSE NextMessage
        <5> TAKE i \in 1 .. sent.data
        <5>1. 0 + i = i /\ 0 + i <= sent.data
          BY <1>5
        <5> QED BY <3>1, <5>1
      <4>3. 0 + sent.data = sent.data + 0 /\ 0 <= sent.data /\ 0 + sent.data <= sent.data + 0
        BY <1>5
      <4> QED BY <2>1, <3>1, <3>3, <4>1, <4>2, <4>3 DEF Plain
    <3> QED BY <3>2, <3>3
  <2> QED BY <1>10, <2>1, <2>2, <2>3
<1>14. ASSUME NEW k \in 0 .. (Len(bytes) - 1), wire' = SubSeq(bytes, 1, k), UNCHANGED sent
       PROVE  /\ sent'.h = sent.h /\ sent'.data = sent.data
              /\ (sent'.whole => whole) /\ (sent'.next => more) /\ (sent'.next => sent'.whole)
              /\ Chunked(tw.te) => Rest(start, wire', sent')
              /\ ~Chunked(tw.te) => Plain(0, wire', sent')
  <2>1. sent' = sent /\ ~sent'.whole /\ ~sent'.next
    BY <1>2, <1>14
  <2>2. k \in 0 .. Len(bytes) /\ k \in Nat /\ k <= Len(bytes)
    BY <1>12
  <2>3. ASSUME Chunked(tw.te)
        PROVE  Rest(start, wire', sent')
    <3>1. PICK c \in State : Run(start, bytes, c, sent)
      BY <1>8, <2>3
    <3>2. PICK d \in State : Run(start, SubSeq(bytes, 1, k), d, sent)
      BY <1>6, <1>11, <2>2, <3>1, RunPrefix
    <3> QED BY <1>14, <2>1, <3>2 DEF Rest
  <2>4. ASSUME ~Chunked(tw.te)
        PROVE  Plain(0, wire', sent')
    <3>1. Len(bytes) = sent.data /\ \A i \in 1 .. sent.data : bytes[i] = DataByte(i)
      BY <1>9, <2>4
    <3>2. Len(wire') = k /\ \A i \in 1 .. k : wire'[i] = bytes[i]
      <4> DEFINE p == SubSeq(bytes, 1, k)
      <4>1. 1 \in Int /\ k \in Int /\ 1 <= 1
        BY <2>2
      <4>2. /\ Len(p) = IF 1 <= k THEN k - 1 + 1 ELSE 0
            /\ \A i \in 1 .. k - 1 + 1 : p[i] = bytes[1 + i - 1]
        BY <1>6, <2>2, <4>1, SubSeqFacts
      <4> HIDE DEF p
      <4>3. k - 1 + 1 = k /\ (IF 1 <= k THEN k - 1 + 1 ELSE 0) = k
            /\ \A i \in 1 .. k : 1 + i - 1 = i
        BY <2>2
      <4>4. wire' = p
        BY <1>14 DEF p
      <4> QED BY <4>2, <4>3, <4>4
    <3>3. \A i \in 1 .. k :
            wire'[i] = IF 0 + i <= sent.data THEN DataByte(0 + i) ELSE NextMessage
      <4> TAKE i \in 1 .. k
      <4>1. 0 + i = i /\ 0 + i <= sent.data /\ i \in 1 .. sent.data
        BY <1>5, <2>2, <3>1
      <4> QED BY <3>1, <3>2, <4>1
    <3>4. 0 <= sent.data /\ 0 + k <= sent.data + 0
      BY <1>5, <2>2, <3>1
    <3> QED BY <2>1, <3>2, <3>3, <3>4 DEF Plain
  <2> QED BY <2>1, <2>3, <2>4
<1>15. /\ sent'.h = sent.h /\ sent'.data = sent.data
       /\ (sent'.whole => whole) /\ (sent'.next => more) /\ (sent'.next => sent'.whole)
       /\ Chunked(tw.te) => Rest(start, wire', sent')
       /\ ~Chunked(tw.te) => Plain(0, wire', sent')
  BY <1>1, <1>13, <1>14
<1>16. Announced(tw) /\ sent'.h = WrittenHeader(msg, tw) /\ sent'.data = BytesWritten(tw)
  BY <1>2, <1>15 DEF Announced
<1>17. \E t \in Writers(msg)' :
         /\ t.trailer # "bad" /\ sent'.h = WrittenHeader(msg', t) /\ sent'.data = BytesWritten(t)
         /\ sent'.whole => WriteSucceeds(t)
         /\ sent'.next => ~ShouldClose(msg'.proto, sent'.h.conn)
         /\ IF Chunked(t.te) THEN Rest(S("line", 0, 0), wire', sent') ELSE Plain(0, wire', sent')
  <2>1. tw \in Writers(msg) /\ msg' = msg
    BY <1>1, <1>3
  <2>2. tw.trailer # "bad"
    BY <1>2 DEF Announced
  <2>3. sent'.whole => WriteSucceeds(tw)
    BY <1>15 DEF whole
  <2>4. sent'.next => ~ShouldClose(msg'.proto, sent'.h.conn)
    BY <1>10, <1>15, <2>1
  <2> QED BY <1>15, <1>16, <2>1, <2>2, <2>3, <2>4
<1>18. WriteInv'
  BY <1>1, <1>2, <1>15, <1>17 DEF WriteInv, Announced
<1> QED BY <1>1, <1>18 DEF Kept

(* The steps of the reader *)

\* WriteInv once the header was read.
LEMMA WroteOnce ==
  ASSUME Kept, sent.next => sent.whole, pc' \in {"idle", "src"}, UNCHANGED sent
  PROVE  WriteInv'
BY DEF WriteInv, Early

LEMMA ReadHeaderKept ==
  ASSUME ReadInv, Kept, Framed, ReadHeader
  PROVE  Kept'
<1> DEFINE rt    == ReadTransfer(msg.kind, msg.status, msg.method, msg.proto, sent.h)
           early == msg.kind = "req"
<1>1. /\ b' = [b EXCEPT !.src = rt.src, !.n = rt.n, !.hdr = rt.hdr, !.closing = rt.closing,
                        !.doEarlyClose = early]
      /\ mb' = [mb EXCEPT !.n = mb.limit]
      /\ pc = "header" /\ pc' = "idle" /\ pc \in Early /\ pc # "src"
      /\ UNCHANGED <<msg, tw, put, sent, wire, cr, call, taken, out, ended, over>>
  BY DEF ReadHeader, Early
<1>2. PICK t \in Writers(msg) :
        /\ Announced(t)
        /\ sent.whole => WriteSucceeds(t)
        /\ sent.next => ~ShouldClose(msg.proto, sent.h.conn)
        /\ IF Chunked(t.te) THEN Rest(S("line", 0, 0), wire, sent) ELSE Plain(0, wire, sent)
  BY <1>1 DEF Kept, WriteInv
<1>3. sent.h \in HeaderRec /\ b \in BodyRec /\ sent \in SentRec
  BY DEF ReadInv, TypeInv, SentRec
<1>4. /\ rt.src \in {"none", "chunked", "limited", "raw"} /\ rt.n \in Nat
      /\ rt.hdr \in BOOLEAN /\ rt.closing \in BOOLEAN /\ early \in BOOLEAN
  BY <1>3, TransferType
<1>5. msg \in Message
  BY BodyAssumption DEF ReadInv, TypeInv
<1>6. /\ Chunked(t.te) => rt.src = "chunked" /\ rt.hdr
      /\ ~Chunked(t.te) =>
           /\ ~rt.hdr
           /\ \/ /\ rt.src = "limited" /\ rt.n = t.cl /\ t.cl \in Nat /\ t.cl > 0
                 /\ t.hasBody /\ ~t.head
              \/ rt.src = "none" /\ BytesWritten(t) = 0
              \/ rt.src = "raw" /\ ShouldClose(msg.proto, sent.h.conn)
  <2>1. sent.h = WrittenHeader(msg, t)
    BY <1>2 DEF Announced
  <2> QED BY <1>5, <2>1, Agreement
<1> HIDE DEF rt, early
<1>7. /\ b'.src = rt.src /\ b'.n = rt.n /\ b'.hdr = rt.hdr
      /\ b'.closed = b.closed /\ b'.sawEOF = b.sawEOF
  BY <1>1, <1>3, <1>4 DEF BodyRec
<1>8. /\ taken = <<>> /\ out = <<>> /\ ended = "none" /\ ~b.closed /\ ~b.sawEOF
      /\ call.got = 0 /\ cr = NoChunk
  BY <1>1 DEF ReadInv, CallInv, NoCall, Kept, WriteInv
<1>9. Len(taken) = 0 /\ Len(out) = 0
  BY <1>8
<1>10. sent.data \in Nat /\ sent.data = BytesWritten(t) /\ sent.whole \in BOOLEAN
  BY <1>2, <1>3 DEF SentRec, Announced
<1>11. Took'
  BY <1>1, <1>8, <1>9, <1>10 DEF Took
<1>12. Gave'
  <2>1. Len(out) = Len(taken) - call.got
    BY <1>8, <1>9
  <2> QED BY <1>1, <1>7, <1>8, <1>9, <2>1 DEF Gave
<1>13. CASE Chunked(t.te)
  <2>1. b'.src = "chunked" /\ b'.hdr
    BY <1>6, <1>7, <1>13
  <2>2. Here' = S("line", 0, 0)
    BY <1>1, <1>8, <1>9 DEF Here, NoChunk
  <2>3. Rest(S("line", 0, 0), wire, sent)
    BY <1>2, <1>13
  <2>4. /\ cr.n = 0 /\ cr.err = "nil" /\ cr.excess = 0
    BY <1>8 DEF NoChunk
  <2>5. Len(taken) + cr.n <= sent.data
    BY <1>9, <1>10, <2>4
  <2>6. ChunkedInv'
    BY <1>1, <1>7, <1>8, <2>1, <2>2, <2>3, <2>4, <2>5 DEF ChunkedInv
  <2>7. ReadFramed'
    BY <1>11, <1>12, <2>1, <2>6 DEF ReadFramed
  <2> QED BY <1>1, <2>7, WroteOnce DEF Kept, WriteInv
<1>14. CASE ~Chunked(t.te)
  <2>1. ~b'.hdr /\ b'.src # "chunked"
    BY <1>6, <1>7, <1>14
  <2>2. Plain(Len(taken), wire, sent)
    BY <1>2, <1>9, <1>14
  <2>3. ASSUME b'.src = "limited"
        PROVE  /\ Len(taken) + b'.n >= sent.data /\ b'.n > 0
               /\ sent.whole => Len(taken) + b'.n = sent.data
    <3>1. /\ b'.n = t.cl /\ t.cl \in Nat /\ t.cl > 0 /\ t.hasBody /\ ~t.head
      BY <1>6, <1>7, <1>14, <2>3
    <3>2. t.n \in Nat
      BY <1>5, WriterTypes DEF WriterRec
    <3>3. sent.data = Min({t.n, t.cl})
      BY <1>10, <3>1 DEF BytesWritten, Unknown
    <3>4. /\ Min({t.n, t.cl}) \in {t.n, t.cl}
          /\ Min({t.n, t.cl}) <= t.n /\ Min({t.n, t.cl}) <= t.cl
      <4>1. t.n \in Int /\ t.cl \in Int
        BY <3>1, <3>2
      <4> QED BY <4>1, MinTwo
    <3>5. sent.whole => t.cl = t.n
      BY <1>2, <3>1 DEF WriteSucceeds, Unknown
    <3>6. sent.whole => sent.data = t.cl
      BY <3>3, <3>4, <3>5
    <3>7. sent.data <= t.cl
      BY <3>3, <3>4
    <3> QED BY <1>9, <1>10, <3>1, <3>6, <3>7
  <2>4. b'.src = "none" => sent.data = 0
    BY <1>6, <1>7, <1>10, <1>14
  <2>5. b'.src = "raw" => ~sent.next
    BY <1>2, <1>6, <1>7, <1>14
  <2>6. PlainInv'
    BY <1>1, <1>7, <1>8, <2>1, <2>2, <2>3, <2>4, <2>5 DEF PlainInv
  <2>7. ReadFramed'
    BY <1>11, <1>12, <2>1, <2>6 DEF ReadFramed
  <2> QED BY <1>1, <2>7, WroteOnce DEF Kept, WriteInv
<1> QED BY <1>13, <1>14

\* A part of the state that a step leaves alone keeps its place.
LEMMA HereSame ==
  ASSUME UNCHANGED <<cr, taken>>
  PROVE  Here' = Here
BY DEF Here

LEMMA ReadKept ==
  ASSUME ReadInv, Kept, Framed, NEW k \in 1 .. MaxRead, Read(k)
  PROVE  Kept'
<1>1. /\ pc = "idle" /\ mb.err = "nil" /\ pc \notin Early
      /\ UNCHANGED <<msg, tw, put, sent, wire, b, cr, taken, over>>
  BY DEF Read, Early
<1>2. call = NoCall /\ call.op = "none" /\ call.got = 0
  BY <1>1 DEF ReadInv, CallInv, NoCall
<1>3. Took /\ Gave /\ (IF b.src = "chunked" THEN ChunkedInv ELSE PlainInv)
  BY <1>1 DEF Kept, ReadFramed
<1>4. Took'
  BY <1>1, <1>3 DEF Took
<1>5. sent.next => sent.whole
  BY DEF Kept, WriteInv
<1>6. Here' = Here
  BY <1>1, HereSame
<1>7. CASE b.src = "none" \/ b.closed \/ b.sawEOF
  <2> DEFINE e == IF b.src # "none" /\ b.closed THEN "closed" ELSE "eof"
  <2>1. Deliver(<<>>, e) /\ UNCHANGED <<pc, call>>
    BY <1>7 DEF Read
  <2>2. e \in {"nil", "eof", "err", "closed"} /\ e # "err"
    OBVIOUS
  <2>3. e = "eof" => b.src = "none" \/ (b.sawEOF /\ ~b.closed)
    BY <1>7
  <2> HIDE DEF e
  <2>4. <<>> \in Seq(TokenRec) /\ Len(<<>>) = 0
    OBVIOUS
  <2>5. /\ out' \in Seq(TokenRec) /\ ended' = First(e)
        /\ Len(out') <= Len(out) + 0
        /\ mb'.err # "toolarge" => Len(out') = Len(out) + 0
        /\ \A i \in 1 .. Len(out) : out'[i] = out[i]
    BY <1>1, <2>1, <2>2, <2>4, DeliverFacts DEF ReadInv
  <2>6. Len(out) \in Nat /\ Len(out') \in Nat /\ Len(taken) \in Nat
    BY <2>5, LenProperties DEF ReadInv, TypeInv
  <2>7. Len(out') <= Len(out) /\ (mb'.err # "toolarge" => Len(out') = Len(out))
    BY <2>5, <2>6
  <2>8. /\ ended # "none" => ended' = ended
        /\ ended' = "err" => ended = "err"
        /\ ended' = "eof" => ended = "eof" \/ b.src = "none"
    BY <1>3, <2>2, <2>3, <2>5 DEF First, Gave
  <2>9. Gave'
    <3>1. \A i \in 1 .. Len(out') : out'[i] = DataByte(i)
      <4> SUFFICES ASSUME NEW i \in 1 .. Len(out') PROVE out'[i] = DataByte(i)
        OBVIOUS
      <4>1. i \in 1 .. Len(out)
        BY <2>6, <2>7
      <4> QED BY <1>3, <2>5, <4>1 DEF Gave
    <3>2. ended' = "eof" /\ mb'.err # "toolarge" => Len(out') = Len(taken)
      <4>1. CASE ended = "eof"
        BY <1>1, <1>3, <2>7, <4>1 DEF Gave
      <4>2. CASE b.src = "none"
        <5>1. sent.data = 0 /\ Len(taken) <= sent.data
          BY <1>3, <4>2 DEF PlainInv, Took
        <5>2. Len(out) <= Len(taken)
          BY <1>2, <2>6 DEF ReadInv, CallInv
        <5> QED BY <2>6, <2>7, <5>1, <5>2
      <4> QED BY <2>8, <4>1, <4>2
    <3> QED BY <1>1, <1>3, <2>1, <2>7, <2>8, <3>1, <3>2 DEF Gave
  <2>10. IF b.src = "chunked" THEN ChunkedInv' ELSE PlainInv'
    BY <1>1, <1>3, <1>6, <2>8 DEF ChunkedInv, PlainInv
  <2>11. ReadFramed'
    BY <1>1, <1>4, <2>9, <2>10 DEF ReadFramed
  <2> QED BY <1>1, <1>5, <2>1, <2>11, WroteOnce DEF Kept
<1>8. CASE ~(b.src = "none" \/ b.closed \/ b.sawEOF)
  <2> DEFINE room == IF mb.limit < 0 THEN k ELSE Min({k, mb.n + 1})
  <2>1. /\ pc' = "src" /\ call' = [NoCall EXCEPT !.op = "read", !.room = room]
        /\ UNCHANGED <<out, ended, mb>>
    BY <1>8 DEF Read
  <2> HIDE DEF room
  <2>2. call'.got = 0 /\ call'.op = "read"
    BY <2>1 DEF NoCall
  <2>3. Gave'
    BY <1>1, <1>2, <1>3, <2>1, <2>2 DEF Gave
  <2>4. IF b.src = "chunked" THEN ChunkedInv' ELSE PlainInv'
    BY <1>1, <1>3, <1>6, <2>1 DEF ChunkedInv, PlainInv
  <2>5. ReadFramed'
    BY <1>1, <1>4, <2>3, <2>4 DEF ReadFramed
  <2> QED BY <1>1, <1>5, <2>1, <2>5, WroteOnce DEF Kept
<1> QED BY <1>7, <1>8

LEMMA CloseKept ==
  ASSUME ReadInv, Kept, Framed, Close
  PROVE  Kept'
<1> DEFINE pointless == ~b.hdr /\ b.closing
           tooLong   == b.doEarlyClose /\ b.src = "limited" /\ b.n > MaxPost
           early     == ~b.sawEOF /\ ~pointless
           closed    == TRUE
<1>1. /\ pc = "idle" /\ b.src # "none" /\ ~b.closed
      /\ UNCHANGED <<msg, tw, put, sent, wire, cr, mb, taken, out, ended, over>>
      /\ IF b.sawEOF \/ pointless \/ tooLong
         THEN /\ b' = [b EXCEPT !.closed = closed, !.earlyClose = early]
              /\ UNCHANGED <<pc, call>>
         ELSE /\ pc' = "src"
              /\ call' = [NoCall EXCEPT !.op = "drain", !.room = DrainRoom(0)]
              /\ UNCHANGED b
  BY DEF Close
<1>2. call.op = "none" /\ call.got = 0
  BY <1>1 DEF ReadInv, CallInv, NoCall
<1>3. Took /\ Gave /\ (IF b.src = "chunked" THEN ChunkedInv ELSE PlainInv)
  BY <1>1 DEF Kept, ReadFramed
<1>4. Took'
  BY <1>1, <1>3 DEF Took
<1>5. sent.next => sent.whole
  BY DEF Kept, WriteInv
<1>6. Here' = Here
  BY <1>1, HereSame
<1>7. b \in BodyRec
  BY DEF ReadInv, TypeInv
<1>8. early \in BOOLEAN /\ closed \in BOOLEAN /\ closed
  BY <1>7 DEF BodyRec
<1> HIDE DEF early, closed
<1>9. CASE b.sawEOF \/ pointless \/ tooLong
  <2>1. b' = [b EXCEPT !.closed = closed, !.earlyClose = early] /\ UNCHANGED <<pc, call>>
    BY <1>1, <1>9
  <2>2. /\ b'.src = b.src /\ b'.sawEOF = b.sawEOF /\ b'.hdr = b.hdr /\ b'.n = b.n
        /\ b'.closed
    BY <1>7, <1>8, <2>1 DEF BodyRec
  <2>3. Gave'
    BY <1>1, <1>3, <2>1, <2>2 DEF Gave
  <2>4. IF b.src = "chunked" THEN ChunkedInv' ELSE PlainInv'
    BY <1>1, <1>3, <1>6, <2>2 DEF ChunkedInv, PlainInv
  <2>5. ReadFramed'
    BY <1>4, <2>2, <2>3, <2>4 DEF ReadFramed
  <2> QED BY <1>1, <1>5, <2>1, <2>5, WroteOnce DEF Kept
<1>10. CASE ~(b.sawEOF \/ pointless \/ tooLong)
  <2> DEFINE room == DrainRoom(0)
  <2>1. /\ pc' = "src" /\ call' = [NoCall EXCEPT !.op = "drain", !.room = room]
        /\ UNCHANGED b
    BY <1>1, <1>10
  <2> HIDE DEF room
  <2>2. call'.op = "drain"
    BY <2>1 DEF NoCall
  <2>3. Gave'
    BY <1>1, <1>3, <2>1, <2>2 DEF Gave
  <2>4. IF b.src = "chunked" THEN ChunkedInv' ELSE PlainInv'
    BY <1>1, <1>3, <1>6, <2>1 DEF ChunkedInv, PlainInv
  <2>5. ReadFramed'
    BY <1>4, <2>1, <2>3, <2>4 DEF ReadFramed
  <2> QED BY <1>1, <1>5, <2>1, <2>5, WroteOnce DEF Kept
<1> QED BY <1>9, <1>10

\* What the end of readLocked makes of e, when w is left on the wire.
Good(e, w) == e = "eof" /\ b.hdr /\ w # <<>> /\ w[1] \in {CRLF, TrailerBlock}
Bad(e, w) == e = "eof" /\ b.hdr /\ ~Good(e, w)
UsedUp(e, got, n) == e = "nil" /\ got > 0 /\ b.src = "limited" /\ n = 0
Saw(e, got, w, n) == UsedUp(e, got, n) \/ (e = "eof" /\ ~Bad(e, w))
Err(e, got, w, n) ==
  CASE Bad(e, w) \/ Short(e, n) -> "err"
    [] UsedUp(e, got, n) -> "eof"
    [] OTHER -> e

\* The body after it, and what the user was given.
LEMMA SrcReturnsFacts ==
  ASSUME ReadInv, Kept, pc = "src", NEW e \in {"nil", "eof", "err"}, NEW got \in Nat,
         NEW w \in Seq(TokenRec), NEW tk \in Seq(TokenRec), NEW n \in Nat,
         \A i \in 1 .. Len(tk) : tk[i] = DataByte(i), Len(tk) <= sent.data,
         call.op = "read" => Len(out) + got = Len(tk),
         SrcReturns(e, got, w, tk, n), UNCHANGED sent
  PROVE  /\ Took' /\ Gave' /\ pc' \in {"idle", "src"}
         /\ wire' = AfterTrailer(w, Good(e, w)) /\ taken' = tk
         /\ b'.src = b.src /\ b'.n = n /\ b'.hdr = (b.hdr /\ e # "eof")
         /\ b'.sawEOF = Saw(e, got, w, n) /\ (Bad(e, w) => b'.closed)
         /\ ended' = "err" => ended = "err" \/ Err(e, got, w, n) = "err"
         /\ Err(e, got, w, n) = "err"
              /\ ~(call.op = "drain" /\ b.doEarlyClose /\ call.copied + got = MaxPost)
              => ended' = "err"
<1> DEFINE good    == Good(e, w)
           saw     == Saw(e, got, w, n)
           bad     == Bad(e, w)
           err     == Err(e, got, w, n)
           hdr     == b.hdr /\ e # "eof"
           bb      == [b EXCEPT !.n = n, !.sawEOF = saw, !.closed = bad, !.hdr = hdr]
           copied  == call.copied + got
           enough  == b.doEarlyClose /\ copied = MaxPost
           given   == SubSeq(tk, Len(tk) - got + 1, Len(tk))
<1>1. /\ wire' = AfterTrailer(w, good)
      /\ taken' = tk
      /\ CASE call.op = "read" ->
                /\ b' = bb /\ pc' = "idle" /\ call' = NoCall
                /\ Deliver(given, err)
           [] call.op = "drain" /\ (enough \/ err # "nil") ->
                /\ b' = [bb EXCEPT !.closed = TRUE, !.earlyClose = enough]
                /\ pc' = "idle" /\ call' = NoCall
                /\ ended' = IF ~enough /\ err = "err" THEN First(err) ELSE ended
                /\ UNCHANGED <<out, mb>>
           [] OTHER ->
                /\ b' = bb
                /\ call' = [call EXCEPT !.copied = copied, !.got = 0, !.room = DrainRoom(copied)]
                /\ UNCHANGED <<pc, out, ended, mb>>
  <2>1. /\ good = ((e = "eof" /\ b.hdr) /\ w # <<>> /\ w[1] \in {CRLF, TrailerBlock})
        /\ bad = ((e = "eof" /\ b.hdr) /\ ~good)
    BY DEF Good, Bad
  <2>2. saw = (UsedUp(e, got, n) \/ (e = "eof" /\ ((e = "eof" /\ b.hdr) => good)))
    BY <2>1 DEF Saw
  <2> QED BY <2>1, <2>2 DEF SrcReturns, Err, UsedUp, Good, Bad, Saw
<1>2. /\ b \in BodyRec /\ call \in CallRec /\ out \in Seq(TokenRec)
      /\ ended \in {"none", "eof", "err"}
  BY DEF ReadInv, TypeInv
<1>3. /\ call.op \in {"read", "drain"} /\ ~b.closed /\ ended # "eof"
      /\ (call.op = "read" => mb.err = "nil")
  BY <1>2 DEF ReadInv, CallInv, CallRec
<1>4. pc \notin Early
  BY DEF Early
<1>5. /\ good \in BOOLEAN /\ saw \in BOOLEAN /\ bad \in BOOLEAN /\ hdr \in BOOLEAN
      /\ enough \in BOOLEAN
  BY <1>2 DEF BodyRec, Good, Bad, Saw, UsedUp
<1>6. err \in {"nil", "eof", "err"} /\ (saw => err # "nil")
  <2>1. Bad(e, w) \/ Short(e, n) => e = "eof"
    BY DEF Bad, Short
  <2>2. UsedUp(e, got, n) => e = "nil"
    BY DEF UsedUp
  <2>3. CASE Bad(e, w) \/ Short(e, n)
    <3>1. err = "err"
      BY <2>1, <2>2, <2>3 DEF Err
    <3> QED BY <3>1
  <2>4. CASE ~(Bad(e, w) \/ Short(e, n)) /\ UsedUp(e, got, n)
    <3>1. err = "eof"
      BY <2>4 DEF Err
    <3> QED BY <3>1
  <2>5. CASE ~(Bad(e, w) \/ Short(e, n)) /\ ~UsedUp(e, got, n)
    <3>1. err = e
      BY <2>5 DEF Err
    <3> QED BY <2>5, <3>1 DEF Saw
  <2> QED BY <2>3, <2>4, <2>5
<1>7. Len(tk) \in Nat /\ Len(out) \in Nat
  BY <1>2, LenProperties
<1>8. /\ enough => b.doEarlyClose /\ copied = MaxPost
      /\ ~enough <=> ~(b.doEarlyClose /\ call.copied + got = MaxPost)
  OBVIOUS
<1> HIDE DEF good, saw, bad, err, hdr, enough
<1>9. /\ bb \in BodyRec /\ bb.src = b.src /\ bb.sawEOF = saw /\ bb.closed = bad
      /\ bb.hdr = hdr /\ bb.n = n
  BY <1>2, <1>5, ZenonT(60) DEF BodyRec
<1>10. Took'
  BY <1>1 DEF Took
<1>11. /\ \A i \in 1 .. Len(out) : out[i] = DataByte(i)
       /\ ended = "eof" => Len(out) = Len(taken) \/ mb.err = "toolarge"
  BY DEF Kept, ReadFramed, Gave
<1>12. CASE call.op = "read"
  <2>1. b' = bb /\ pc' = "idle" /\ call' = NoCall /\ Deliver(given, err)
    BY <1>1, <1>12
  <2>2. /\ given \in Seq(TokenRec) /\ Len(given) = got
        /\ \A i \in 1 .. got : given[i] = DataByte(Len(out) + i)
    <3>1. Len(tk) - got + 1 \in Int /\ 1 <= Len(tk) - got + 1 /\ Len(tk) \in Int
          /\ Len(tk) <= Len(tk) /\ Len(out) = Len(tk) - got
      BY <1>7, <1>12
    <3>2. /\ given \in Seq(TokenRec)
          /\ Len(given) = IF Len(tk) - got + 1 <= Len(tk) THEN Len(tk) - (Len(tk) - got + 1) + 1 ELSE 0
          /\ \A i \in 1 .. Len(tk) - (Len(tk) - got + 1) + 1 :
               given[i] = tk[Len(tk) - got + 1 + i - 1]
      BY <3>1, SubSeqFacts
    <3> HIDE DEF given
    <3>3. Len(tk) - (Len(tk) - got + 1) + 1 = got
          /\ (IF Len(tk) - got + 1 <= Len(tk) THEN Len(tk) - (Len(tk) - got + 1) + 1 ELSE 0) = got
      BY <1>7
    <3>4. ASSUME NEW i \in 1 .. got PROVE given[i] = DataByte(Len(out) + i)
      <4>1. /\ Len(tk) - got + 1 + i - 1 = Len(out) + i /\ Len(out) + i \in 1 .. Len(tk)
        BY <1>7, <3>1
      <4> QED BY <3>2, <3>3, <4>1
    <3> QED BY <3>2, <3>3, <3>4
  <2> HIDE DEF given
  <2>3. err \in {"nil", "eof", "err", "closed"}
    BY <1>6
  <2>4. /\ out' \in Seq(TokenRec) /\ ended' = First(err)
        /\ Len(out') <= Len(out) + got
        /\ mb'.err # "toolarge" => Len(out') = Len(out) + got
        /\ \A i \in 1 .. Len(out) : out'[i] = out[i]
        /\ \A i \in 1 .. Len(out') - Len(out) : out'[Len(out) + i] = given[i]
    BY <1>3, <1>4, <1>12, <2>1, <2>2, <2>3, DeliverFacts, SMTT(60) DEF ReadInv
  <2>5. Len(out') \in Nat
    BY <2>4, LenProperties
  <2>6. \A i \in 1 .. Len(out') : out'[i] = DataByte(i)
    <3> SUFFICES ASSUME NEW i \in 1 .. Len(out') PROVE out'[i] = DataByte(i)
      OBVIOUS
    <3>1. CASE i <= Len(out)
      <4>1. i \in 1 .. Len(out)
        BY <1>7, <2>5, <3>1
      <4> QED BY <1>11, <2>4, <4>1
    <3>2. CASE ~(i <= Len(out))
      <4>1. /\ i - Len(out) \in 1 .. Len(out') - Len(out) /\ i - Len(out) \in 1 .. got
            /\ Len(out) + (i - Len(out)) = i
        BY <1>7, <2>4, <2>5, <3>2
      <4>2. out'[Len(out) + (i - Len(out))] = given[i - Len(out)]
        BY <2>4, <4>1
      <4>3. given[i - Len(out)] = DataByte(Len(out) + (i - Len(out)))
        BY <2>2, <4>1
      <4> QED BY <4>1, <4>2, <4>3
    <3> QED BY <3>1, <3>2
  <2>7. mb'.err # "toolarge" => Len(out') = Len(tk) /\ Len(out') = Len(tk) - 0
    BY <1>7, <1>12, <2>4
  <2>8. /\ saw => ended' # "none"
        /\ ended' = "err" => ended = "err" \/ err = "err"
        /\ err = "err" => ended' = "err"
    BY <1>2, <1>3, <1>6, <2>4 DEF First
  <2>9. Gave'
    <3>1. call'.got = 0
      BY <2>1 DEF NoCall
    <3> QED BY <1>1, <1>9, <2>1, <2>6, <2>7, <2>8, <3>1 DEF Gave
  <2> QED BY <1>1, <1>9, <1>10, <2>1, <2>8, <2>9 DEF good, saw, bad, err, hdr
<1>13. CASE call.op = "drain" /\ (enough \/ err # "nil")
  <2> DEFINE closed == TRUE
  <2>1. /\ b' = [bb EXCEPT !.closed = closed, !.earlyClose = enough]
        /\ pc' = "idle" /\ call' = NoCall
        /\ ended' = IF ~enough /\ err = "err" THEN First(err) ELSE ended
        /\ UNCHANGED <<out, mb>>
    BY <1>1, <1>13
  <2>2. closed \in BOOLEAN /\ closed
    OBVIOUS
  <2> HIDE DEF closed
  <2>3. /\ b'.src = bb.src /\ b'.sawEOF = bb.sawEOF /\ b'.hdr = bb.hdr /\ b'.n = bb.n
        /\ b'.closed
    <3> HIDE DEF bb
    <3> QED BY <1>5, <1>9, <2>1, <2>2 DEF BodyRec
  <2>4. /\ ended' # "eof" /\ (ended' = "err" => ended = "err" \/ err = "err")
        /\ (err = "err" /\ ~enough => ended' = "err")
    BY <1>2, <1>3, <2>1 DEF First
  <2>5. Gave'
    BY <1>11, <2>1, <2>3, <2>4 DEF Gave
  <2> QED BY <1>1, <1>8, <1>9, <1>10, <1>13, <2>1, <2>3, <2>4, <2>5
          DEF good, saw, bad, err, hdr
<1>14. CASE call.op = "drain" /\ ~(enough \/ err # "nil")
  <2>1. /\ b' = bb /\ UNCHANGED <<pc, out, ended, mb>>
        /\ call' = [call EXCEPT !.copied = copied, !.got = 0, !.room = DrainRoom(copied)]
    BY <1>1, <1>14
  <2>2. call'.op = "drain"
    BY <1>2, <1>14, <2>1 DEF CallRec
  <2>3. Gave'
    BY <1>3, <1>6, <1>9, <1>11, <1>14, <2>1, <2>2 DEF Gave
  <2> QED BY <1>1, <1>9, <1>10, <1>14, <2>1, <2>3 DEF good, saw, bad, err, hdr
<1> QED BY <1>3, <1>12, <1>13, <1>14

\* What a call on a framed body starts from.
LEMMA FramedCall ==
  ASSUME ReadInv, Kept, pc = "src"
  PROVE  /\ Took /\ Gave /\ (IF b.src = "chunked" THEN ChunkedInv ELSE PlainInv)
         /\ (sent.next => sent.whole) /\ sent \in SentRec /\ sent.data \in Nat
         /\ ~b.sawEOF /\ ~b.closed /\ ended # "eof" /\ b.hdr \in BOOLEAN
         /\ call.op = "read" => Len(out) = Len(taken) - call.got
         /\ call.op \in {"read", "drain"}
         /\ b.src \in {"none", "chunked", "limited", "raw"}
<1>1. Took /\ Gave /\ (IF b.src = "chunked" THEN ChunkedInv ELSE PlainInv)
  BY DEF Kept, ReadFramed
<1>2. (sent.next => sent.whole) /\ sent \in SentRec /\ sent.data \in Nat
  BY DEF Kept, WriteInv, ReadInv, TypeInv, SentRec
<1>3. /\ ~b.sawEOF /\ ~b.closed /\ ended # "eof"
      /\ (call.op = "read" => mb.err = "nil") /\ call.op # "none"
  BY DEF ReadInv, CallInv
<1>4. call.op \in {"none", "read", "drain"} /\ b.src \in {"none", "chunked", "limited", "raw"}
      /\ b.hdr \in BOOLEAN
  BY DEF ReadInv, TypeInv, CallRec, BodyRec
<1>5. call.op = "read" => Len(out) = Len(taken) - call.got
  BY <1>1, <1>3 DEF Gave
<1> QED BY <1>1, <1>2, <1>3, <1>4, <1>5

LEMMA SrcPlainKept ==
  ASSUME ReadInv, Kept, Framed, SrcPlain
  PROVE  Kept'
<1> DEFINE most == Min({call.room, Len(wire)} \cup IF b.src = "limited" THEN {b.n} ELSE {})
           have == Len(taken)
           left == Len(wire)
           data == sent.data
           next == IF sent.next THEN 1 ELSE 0
<1>1. /\ pc = "src" /\ b.src \in {"limited", "raw"} /\ b.src # "chunked"
      /\ UNCHANGED <<msg, tw, put, sent, cr, over>>
      /\ \/ most = 0 /\ SrcReturns("eof", 0, wire, taken, b.n)
         \/ \E j \in 1 .. most :
              SrcReturns("nil", j, SubSeq(wire, j + 1, Len(wire)),
                         taken \o SubSeq(wire, 1, j), IF b.src = "limited" THEN b.n - j ELSE b.n)
  BY DEF SrcPlain
<1>2. /\ most \in Nat /\ most <= call.room /\ most <= Len(wire)
      /\ b.src = "limited" => most <= b.n
      /\ most = 0 => Len(wire) = 0 \/ (b.src = "limited" /\ b.n = 0)
  BY <1>1, PlainFacts
<1>3. /\ Took /\ Gave /\ PlainInv /\ (sent.next => sent.whole) /\ ~b.hdr /\ data \in Nat
      /\ ~b.sawEOF /\ ~b.closed /\ ended # "eof"
      /\ call.op = "read" => Len(out) = have - call.got
  BY <1>1, FramedCall DEF PlainInv
<1>4. /\ left \in Nat /\ have \in Nat /\ Len(out) \in Nat /\ call.got = 0 /\ call.room > 0
      /\ call.room \in Nat /\ call.copied \in Nat /\ b.n \in Nat
      /\ wire \in Seq(TokenRec) /\ taken \in Seq(TokenRec)
      /\ call.op = "drain" /\ b.doEarlyClose => call.copied + call.got + call.room <= MaxPost
  BY <1>1, CallFacts
<1>5. MaxPost \in Nat
  BY BodyAssumption
<1>6. /\ have <= data /\ have + left <= data + next
      /\ \A i \in 1 .. left : wire[i] = IF have + i <= data THEN DataByte(have + i) ELSE NextMessage
      /\ sent.whole => have + left = data + next
  BY <1>3 DEF PlainInv, Plain
<1>7. next \in {0, 1} /\ (~sent.next => next = 0)
  OBVIOUS
<1>8. /\ b.src = "raw" => ~sent.next
      /\ b.src = "limited" => have + b.n >= data /\ (sent.whole => have + b.n = data)
      /\ sent.whole => ended # "err"
  BY <1>3 DEF PlainInv
<1>9. \A i \in 1 .. have : taken[i] = DataByte(i)
  BY <1>3 DEF Took
<1> HIDE DEF most
<1>10. CASE most = 0 /\ SrcReturns("eof", 0, wire, taken, b.n)
  <2>1. call.op = "read" => Len(out) + 0 = Len(taken)
    BY <1>3, <1>4
  <2>2. "eof" \in {"nil", "eof", "err"} /\ 0 \in Nat
    OBVIOUS
  <2>3. /\ Took' /\ Gave' /\ pc' \in {"idle", "src"}
        /\ wire' = AfterTrailer(wire, Good("eof", wire)) /\ taken' = taken
        /\ b'.src = b.src /\ b'.n = b.n /\ b'.hdr = (b.hdr /\ "eof" # "eof")
        /\ b'.sawEOF = Saw("eof", 0, wire, b.n)
        /\ ended' = "err" => ended = "err" \/ Err("eof", 0, wire, b.n) = "err"
        /\ Err("eof", 0, wire, b.n) = "err"
              /\ ~(call.op = "drain" /\ b.doEarlyClose /\ call.copied + 0 = MaxPost)
              => ended' = "err"
    BY <1>1, <1>3, <1>4, <1>6, <1>9, <1>10, <2>1, <2>2, SrcReturnsFacts, SMTT(60)
  <2>4. ~Good("eof", wire) /\ ~Bad("eof", wire) /\ ~UsedUp("eof", 0, b.n)
    BY <1>3 DEF Good, Bad, UsedUp
  <2>5. wire' = wire /\ ~b'.hdr
    BY <2>3, <2>4 DEF AfterTrailer
  <2>6. Err("eof", 0, wire, b.n) = "err" <=> b.src = "limited" /\ b.n > 0
    <3>1. Short("eof", b.n) <=> b.src = "limited" /\ b.n > 0
      BY <1>3 DEF Short
    <3>2. CASE Short("eof", b.n)
      <4>1. Err("eof", 0, wire, b.n) = "err"
        BY <2>4, <3>2 DEF Err
      <4> QED BY <3>1, <3>2, <4>1
    <3>3. CASE ~Short("eof", b.n)
      <4>1. Err("eof", 0, wire, b.n) = "eof"
        BY <2>4, <3>3 DEF Err
      <4> QED BY <3>1, <3>3, <4>1
    <3> QED BY <3>2, <3>3
  <2>7. ~(call.op = "drain" /\ b.doEarlyClose /\ call.copied + 0 = MaxPost)
    BY <1>4, <1>5
  <2>8. b.src = "limited" /\ b.n > 0 => ended' = "err"
    BY <2>3, <2>6, <2>7
  <2>9. sent.whole => ended' # "err"
    <3> SUFFICES ASSUME sent.whole, b.src = "limited", b.n > 0 PROVE FALSE
      BY <1>8, <2>3, <2>6
    <3>1. left = b.n + next
      BY <1>4, <1>6, <1>7, <1>8
    <3>2. left = 0
      BY <1>2, <1>4, <1>10
    <3> QED BY <1>4, <1>7, <3>1, <3>2
  <2>10. b.src = "raw" => wire = <<>>
    BY <1>2, <1>4, <1>10, EmptySeq
  <2>11. b'.sawEOF
    BY <2>3, <2>4 DEF Saw
  <2>12. b'.src = "limited" /\ ended' # "err" => b'.n = 0
    BY <1>4, <2>3, <2>8
  <2>13. PlainInv'
    BY <1>1, <1>3, <1>8, <2>3, <2>5, <2>9, <2>10, <2>11, <2>12 DEF PlainInv
  <2>14. ReadFramed'
    BY <1>1, <2>3, <2>13 DEF ReadFramed
  <2> QED BY <1>1, <1>3, <2>3, <2>14, WroteOnce DEF Kept
<1>11. ASSUME NEW j \in 1 .. most,
              SrcReturns("nil", j, SubSeq(wire, j + 1, Len(wire)), taken \o SubSeq(wire, 1, j),
                         IF b.src = "limited" THEN b.n - j ELSE b.n)
       PROVE  Kept'
  <2> DEFINE w  == SubSeq(wire, j + 1, Len(wire))
             tk == taken \o SubSeq(wire, 1, j)
             n  == IF b.src = "limited" THEN b.n - j ELSE b.n
  <2>1. /\ j \in Nat /\ j > 0 /\ j <= left /\ (b.src = "limited" => j <= b.n) /\ n \in Nat
    BY <1>2, <1>4
  <2>2. /\ w \in Seq(TokenRec) /\ Len(w) = left - j
        /\ \A i \in 1 .. left - j : w[i] = wire[j + i]
        /\ tk \in Seq(TokenRec) /\ Len(tk) = have + j
        /\ \A i \in 1 .. have : tk[i] = taken[i]
        /\ \A i \in 1 .. j : tk[have + i] = wire[i]
    <3>1. wire \in Seq(TokenRec) /\ taken \in Seq(TokenRec) /\ j \in Nat /\ j <= Len(wire)
      BY <1>4, <2>1
    <3> HIDE DEF n, most
    <3> QED BY <3>1, TakenFacts
  <2>3. SrcReturns("nil", j, w, tk, n) /\ "nil" \in {"nil", "eof", "err"}
    BY <1>11
  <2>4. b.src = "limited" => n = b.n - j
    OBVIOUS
  <2> HIDE DEF w, tk, n
  <2>5. have + j <= data
    <3>1. CASE sent.next
      <4>1. b.src = "limited" /\ have + b.n = data
        BY <1>1, <1>3, <1>8, <3>1
      <4> QED BY <1>3, <1>4, <2>1, <4>1
    <3>2. CASE ~sent.next
      BY <1>3, <1>4, <1>6, <1>7, <2>1, <3>2
    <3> QED BY <3>1, <3>2
  <2>6. \A i \in 1 .. Len(tk) : tk[i] = DataByte(i)
    <3> SUFFICES ASSUME NEW i \in 1 .. Len(tk) PROVE tk[i] = DataByte(i)
      OBVIOUS
    <3>1. CASE i <= have
      <4>1. i \in 1 .. have
        BY <1>4, <2>1, <2>2, <3>1
      <4> QED BY <1>9, <2>2, <4>1
    <3>2. CASE ~(i <= have)
      <4>1. /\ i - have \in 1 .. j /\ i - have \in 1 .. left /\ have + (i - have) = i
            /\ have + (i - have) <= data
        BY <1>3, <1>4, <2>1, <2>2, <2>5, <3>2, SMTT(60)
      <4>2. tk[have + (i - have)] = wire[i - have]
        BY <2>2, <4>1
      <4>3. wire[i - have] = DataByte(have + (i - have))
        BY <1>6, <4>1
      <4> QED BY <4>1, <4>2, <4>3
    <3> QED BY <3>1, <3>2
  <2>7. call.op = "read" => Len(out) + j = Len(tk)
    <3>1. call.op = "read" => Len(out) = have - 0
      BY <1>3, <1>4
    <3>2. Len(tk) = have + j /\ Len(out) \in Nat /\ have \in Nat /\ j \in Nat
      BY <1>4, <2>1, <2>2
    <3> HIDE DEF have
    <3> QED BY <3>1, <3>2
  <2>8. Len(tk) <= sent.data
    BY <2>2, <2>5
  <2>9. /\ Took' /\ Gave' /\ pc' \in {"idle", "src"}
        /\ wire' = AfterTrailer(w, Good("nil", w)) /\ taken' = tk
        /\ b'.src = b.src /\ b'.n = n /\ b'.hdr = (b.hdr /\ "nil" # "eof")
        /\ b'.sawEOF = Saw("nil", j, w, n)
        /\ ended' = "err" => ended = "err" \/ Err("nil", j, w, n) = "err"
    <3>1. /\ pc = "src" /\ "nil" \in {"nil", "eof", "err"} /\ j \in Nat /\ n \in Nat
          /\ w \in Seq(TokenRec) /\ tk \in Seq(TokenRec) /\ SrcReturns("nil", j, w, tk, n)
          /\ UNCHANGED sent
      BY <1>1, <2>1, <2>2, <2>3
    <3> HIDE DEF have, left, data, next
    <3> QED BY <2>6, <2>7, <2>8, <3>1, SrcReturnsFacts
  <2>10. /\ ~Good("nil", w) /\ ~Bad("nil", w) /\ ~Short("nil", n)
         /\ (UsedUp("nil", j, n) <=> b.src = "limited" /\ n = 0)
    BY <2>1 DEF Good, Bad, Short, UsedUp
  <2>11. Err("nil", j, w, n) # "err"
    <3>1. CASE UsedUp("nil", j, n)
      <4>1. Err("nil", j, w, n) = "eof"
        BY <2>10, <3>1 DEF Err
      <4> QED BY <4>1
    <3>2. CASE ~UsedUp("nil", j, n)
      <4>1. Err("nil", j, w, n) = "nil"
        BY <2>10, <3>2 DEF Err
      <4> QED BY <4>1
    <3> QED BY <3>1, <3>2
  <2>12. wire' = w /\ ~b'.hdr /\ (b'.sawEOF <=> b.src = "limited" /\ n = 0)
    BY <1>3, <2>9, <2>10 DEF AfterTrailer, Saw
  <2>13. Plain(have + j, w, sent)
    <3>1. \A i \in 1 .. left - j :
            w[i] = IF have + j + i <= data THEN DataByte(have + j + i) ELSE NextMessage
      <4> SUFFICES ASSUME NEW i \in 1 .. left - j
                   PROVE  w[i] = IF have + j + i <= data THEN DataByte(have + j + i) ELSE NextMessage
        OBVIOUS
      <4>1. j + i \in 1 .. left /\ have + (j + i) = have + j + i
        BY <1>4, <2>1
      <4>2. w[i] = wire[j + i]
        BY <2>2
      <4>3. wire[j + i] = IF have + (j + i) <= data THEN DataByte(have + (j + i)) ELSE NextMessage
        BY <1>6, <4>1
      <4> QED BY <4>1, <4>2, <4>3
    <3>2. have + j + (left - j) = have + left
      BY <1>4, <2>1
    <3> QED BY <1>6, <2>2, <2>5, <3>1, <3>2 DEF Plain
  <2>14. b.src = "limited" => /\ have + j + n >= data
                              /\ (sent.whole => have + j + n = data)
    <3> SUFFICES ASSUME b.src = "limited"
                 PROVE  have + j + n >= data /\ (sent.whole => have + j + n = data)
      OBVIOUS
    <3>1. have + j + n = have + b.n
      BY <1>4, <2>1, <2>4, SMTT(60)
    <3> QED BY <1>8, <3>1
  <2>15. b.src = "limited" /\ ~b'.sawEOF => n > 0
    BY <2>1, <2>12
  <2>16. PlainInv'
    BY <1>1, <1>8, <2>2, <2>9, <2>11, <2>12, <2>13, <2>14, <2>15 DEF PlainInv
  <2>17. ReadFramed'
    BY <1>1, <2>9, <2>16 DEF ReadFramed
  <2> QED BY <1>1, <1>3, <2>9, <2>17, WroteOnce DEF Kept
<1> QED BY <1>1, <1>10, <1>11

\* From the trailer the run leads to the end of the body.
LEMMA RunTrailer ==
  ASSUME NEW a \in State, a.ph = "trailer", NEW w \in Seq(TokenRec), NEW s \in SentRec,
         Rest(a, w, s)
  PROVE  /\ s.whole => w # <<>>
         /\ w # <<>> => /\ w[1] \in {CRLF, TrailerBlock}
                        /\ Rest(S("end", 0, a.got), Tail(w), s)
<1>1. PICK c \in State :
        Run(a, w, c, s) /\ (s.whole => c.ph = IF s.next THEN "next" ELSE "end")
  BY DEF Rest
<1>2. CASE w = <<>>
  <2>1. a = c
    BY <1>1, <1>2, RunEmpty
  <2> QED BY <1>1, <1>2, <2>1
<1>3. CASE w # <<>>
  <2>1. PICK d \in State : Follows(a, w[1], d, s) /\ Run(d, Tail(w), c, s)
    BY <1>1, <1>3, RunFirst
  <2>2. w[1] \in {CRLF, TrailerBlock} /\ d = S("end", 0, a.got)
    BY <2>1 DEF Follows
  <2> QED BY <1>1, <1>3, <2>1, <2>2 DEF Rest
<1> QED BY <1>2, <1>3

LEMMA ChunkReturnKept ==
  ASSUME ReadInv, Kept, Framed, ChunkReturn
  PROVE  Kept'
<1> DEFINE e == cr.err
<1>1. /\ pc = "src" /\ b.src = "chunked" /\ SrcReturns(e, call.got, wire, taken, b.n)
      /\ UNCHANGED <<msg, tw, put, sent, cr, over>>
  BY DEF ChunkReturn
<1>2. /\ Took /\ ChunkedInv /\ (sent.next => sent.whole) /\ sent \in SentRec
      /\ ~b.sawEOF /\ ~b.closed /\ b.hdr
      /\ call.op = "read" => Len(out) = Len(taken) - call.got
  BY <1>1, FramedCall DEF ChunkedInv
<1>3. /\ Len(taken) \in Nat /\ Len(out) \in Nat /\ call.got \in Nat /\ b.n \in Nat
      /\ wire \in Seq(TokenRec) /\ taken \in Seq(TokenRec) /\ e \in {"nil", "eof", "err"}
  BY <1>1, CallFacts
<1>4. call.op = "read" => Len(out) + call.got = Len(taken)
  BY <1>2, <1>3
<1>5. /\ Took' /\ Gave' /\ pc' \in {"idle", "src"}
      /\ wire' = AfterTrailer(wire, Good(e, wire)) /\ taken' = taken
      /\ b'.src = b.src /\ b'.hdr = (b.hdr /\ e # "eof")
      /\ b'.sawEOF = Saw(e, call.got, wire, b.n) /\ (Bad(e, wire) => b'.closed)
      /\ ended' = "err" => ended = "err" \/ Err(e, call.got, wire, b.n) = "err"
  BY <1>1, <1>2, <1>3, <1>4, SrcReturnsFacts, SMTT(60) DEF Took
<1>6. ~UsedUp(e, call.got, b.n) /\ ~Short(e, b.n)
  BY <1>1 DEF UsedUp, Short
<1>7. Err(e, call.got, wire, b.n) = IF Bad(e, wire) THEN "err" ELSE e
  BY <1>6 DEF Err
<1>8. Here' = Here
  BY <1>1, <1>5, HereSame
<1> HIDE DEF e
<1>9. CASE e = "eof"
  <2>1. Here = S("trailer", 0, Len(taken)) /\ Rest(Here, wire, sent)
    BY <1>2, <1>9 DEF ChunkedInv, Here, e
  <2>2. Here \in State /\ Here.ph = "trailer" /\ Here.got = Len(taken)
    BY <1>3, <2>1, PlaceTypes, SMTT(60)
  <2>3. /\ sent.whole => wire # <<>>
        /\ wire # <<>> => /\ wire[1] \in {CRLF, TrailerBlock}
                          /\ Rest(S("end", 0, Len(taken)), Tail(wire), sent)
    BY <1>2, <1>3, <2>1, <2>2, RunTrailer
  <2>4. (Good(e, wire) <=> wire # <<>>) /\ (Bad(e, wire) <=> wire = <<>>)
    BY <1>2, <1>9, <2>3 DEF Good, Bad
  <2>5. ~b'.hdr /\ (b'.sawEOF <=> wire # <<>>) /\ (wire = <<>> => b'.closed)
    BY <1>5, <1>6, <1>9, <2>4 DEF Saw
  <2>6. wire # <<>> => Rest(S("end", 0, Len(taken)), wire', sent)
    BY <1>5, <2>3, <2>4 DEF AfterTrailer
  <2>7. sent.whole /\ sent.ext = 0 => ended' # "err"
    BY <1>2, <1>5, <1>7, <1>9, <2>3, <2>4 DEF ChunkedInv
  <2>8. ChunkedInv'
    BY <1>1, <1>2, <1>5, <1>9, <2>5, <2>6, <2>7 DEF ChunkedInv, e
  <2>9. ReadFramed'
    BY <1>1, <1>5, <2>8 DEF ReadFramed
  <2> QED BY <1>1, <1>2, <1>5, <2>9, WroteOnce DEF Kept
<1>10. CASE e # "eof"
  <2>1. ~Good(e, wire) /\ ~Bad(e, wire)
    BY <1>10 DEF Good, Bad
  <2>2. wire' = wire /\ b'.hdr /\ ~b'.sawEOF
    BY <1>2, <1>5, <1>6, <1>10, <2>1 DEF AfterTrailer, Saw
  <2>3. sent.whole /\ sent.ext = 0 => ended' # "err"
    BY <1>2, <1>5, <1>7, <2>1 DEF ChunkedInv, e
  <2>4. ChunkedInv'
    BY <1>1, <1>2, <1>5, <1>8, <2>2, <2>3 DEF ChunkedInv
  <2>5. ReadFramed'
    BY <1>1, <1>5, <2>4 DEF ReadFramed
  <2> QED BY <1>1, <1>2, <1>5, <2>5, WroteOnce DEF Kept
<1> QED BY <1>9, <1>10

\* What the loop of chunkedReader.Read finds at its place.
LEMMA RunAhead ==
  ASSUME NEW a \in State, NEW w \in Seq(TokenRec), NEW s \in SentRec, Rest(a, w, s)
  PROVE  /\ s.whole /\ a.ph \notin {"end", "next"} => w # <<>>
         /\ w # <<>> => \E d \in State : Follows(a, w[1], d, s) /\ Rest(d, Tail(w), s)
<1>1. PICK c \in State :
        Run(a, w, c, s) /\ (s.whole => c.ph = IF s.next THEN "next" ELSE "end")
  BY DEF Rest
<1>2. CASE w = <<>>
  <2>1. a = c
    BY <1>1, <1>2, RunEmpty
  <2> QED BY <1>1, <1>2, <2>1
<1>3. CASE w # <<>>
  <2>1. PICK d \in State : Follows(a, w[1], d, s) /\ Run(d, Tail(w), c, s)
    BY <1>1, <1>3, RunFirst
  <2> QED BY <1>1, <1>3, <2>1 DEF Rest
<1> QED BY <1>2, <1>3

LEMMA TurnFacts ==
  ASSUME ReadInv, Kept, Turn
  PROVE  /\ pc = "src" /\ b.src = "chunked" /\ cr.err = "nil"
         /\ Took /\ Gave /\ ChunkedInv /\ (sent.next => sent.whole) /\ sent \in SentRec
         /\ ~b.sawEOF /\ ~b.closed /\ b.hdr /\ ended # "eof" /\ sent.data \in Nat
         /\ wire \in Seq(TokenRec) /\ taken \in Seq(TokenRec) /\ Len(taken) \in Nat
         /\ cr.n \in Nat /\ cr.excess \in Nat /\ cr.checkEnd \in BOOLEAN
         /\ Here \in State /\ Here.left = cr.n /\ Here.got = Len(taken)
         /\ Here.ph = (IF cr.checkEnd THEN "crlf" ELSE IF cr.n > 0 THEN "data" ELSE "line")
         /\ sent.whole => wire # <<>>
         /\ wire # <<>> => \E d \in State : Follows(Here, wire[1], d, sent)
                                             /\ Rest(d, Tail(wire), sent)
         /\ wire # <<>> => Ahead = wire[1] /\ Ahead \in TokenRec
<1> DEFINE ph == IF cr.checkEnd THEN "crlf" ELSE IF cr.n > 0 THEN "data" ELSE "line"
<1>1. pc = "src" /\ b.src = "chunked" /\ cr.err = "nil"
  BY DEF Turn
<1>2. /\ Took /\ Gave /\ ChunkedInv /\ (sent.next => sent.whole) /\ sent \in SentRec
      /\ ~b.sawEOF /\ ~b.closed /\ b.hdr /\ ended # "eof" /\ sent.data \in Nat
  BY <1>1, FramedCall DEF ChunkedInv
<1>3. /\ wire \in Seq(TokenRec) /\ taken \in Seq(TokenRec) /\ Len(taken) \in Nat
      /\ cr.n \in Nat /\ cr.excess \in Nat /\ cr.checkEnd \in BOOLEAN
  BY <1>1, CallFacts
<1>4. ph \in {"line", "data", "crlf", "trailer", "end", "next"} /\ ph \notin {"end", "next"}
  OBVIOUS
<1>5. Here = S(ph, cr.n, Len(taken))
  BY <1>1 DEF Here
<1>6. Here \in State /\ Here.ph = ph /\ Here.left = cr.n /\ Here.got = Len(taken)
  <2> HIDE DEF ph
  <2> QED BY <1>3, <1>4, <1>5, PlaceTypes, SMTT(60)
<1>7. Rest(Here, wire, sent)
  BY <1>1, <1>2 DEF ChunkedInv
<1>8. /\ sent.whole => wire # <<>>
      /\ wire # <<>> => \E d \in State : Follows(Here, wire[1], d, sent)
                                          /\ Rest(d, Tail(wire), sent)
  <2> HIDE DEF ph
  <2> QED BY <1>2, <1>3, <1>4, <1>6, <1>7, RunAhead
<1>9. wire # <<>> => Ahead = wire[1] /\ Ahead \in TokenRec
  BY <1>3, AheadType
<1> QED BY <1>1, <1>2, <1>3, <1>6, <1>8, <1>9

\* A token that follows a place is the one the loop expects there.
LEMMA FollowsKind ==
  ASSUME NEW a, NEW x, NEW c, NEW s, Follows(a, x, c, s)
  PROVE  /\ a.ph = "crlf" => x = CRLF /\ c = S("line", 0, a.got)
         /\ a.ph = "line" => x.t = "size"
         /\ a.ph = "data" => x = DataByte(a.got + 1)
                             /\ c = S(IF a.left = 1 THEN "crlf" ELSE "data", a.left - 1, a.got + 1)
<1>1. a.ph = "line" => x.t = "size"
  <2>1. SizeLine(x.v, s.ext).t = "size" /\ SizeLine(0, s.ext).t = "size"
    BY DEF SizeLine, Token
  <2> QED BY <2>1 DEF Follows
<1>2. a.ph = "crlf" => x = CRLF /\ c = S("line", 0, a.got)
  BY DEF Follows
<1>3. a.ph = "data" => x = DataByte(a.got + 1)
                       /\ c = S(IF a.left = 1 THEN "crlf" ELSE "data", a.left - 1, a.got + 1)
  BY DEF Follows
<1> QED BY <1>1, <1>2, <1>3

\* A step of the loop gives nothing yet.
LEMMA GaveSame ==
  ASSUME Gave, pc = "src", ended # "eof", ~b.sawEOF, UNCHANGED <<b, mb, out, ended>>,
         call'.op = call.op, Len(taken') - call'.got = Len(taken) - call.got
  PROVE  Gave'
BY DEF Gave

LEMMA ChunkMalformedKept ==
  ASSUME ReadInv, Kept, Framed, ChunkMalformed
  PROVE  Kept'
<1>1. /\ Turn /\ cr' = [cr EXCEPT !.err = "err"]
      /\ \/ cr.checkEnd /\ Ahead # CRLF
         \/ ~cr.checkEnd /\ cr.n = 0 /\ Ahead.t # "size"
         \/ ~cr.checkEnd /\ cr.n > 0 /\ call.room > 0 /\ wire = <<>>
      /\ UNCHANGED <<pc, msg, tw, put, sent, wire, b, mb, call, taken, out, ended, over>>
  BY DEF ChunkMalformed
<1>2. /\ pc = "src" /\ b.src = "chunked" /\ cr.err = "nil"
      /\ Took /\ Gave /\ ChunkedInv /\ (sent.next => sent.whole)
      /\ ~b.sawEOF /\ ~b.closed /\ b.hdr /\ cr.n \in Nat
  BY <1>1, TurnFacts
<1>3. cr'.err = "err" /\ cr'.n = cr.n
  BY <1>1 DEF ReadInv, TypeInv, TypeOK
<1>4. ~sent.whole
  <2> SUFFICES ASSUME sent.whole PROVE FALSE
    OBVIOUS
  <2>1. wire # <<>> /\ Ahead = wire[1]
    BY <1>1, TurnFacts
  <2>2. PICK d \in State : Follows(Here, Ahead, d, sent)
    BY <1>1, <2>1, TurnFacts
  <2>3. Here.ph = IF cr.checkEnd THEN "crlf" ELSE IF cr.n > 0 THEN "data" ELSE "line"
    BY <1>1, TurnFacts
  <2> QED BY <1>1, <1>2, <2>1, <2>2, <2>3, FollowsKind
<1>5. Took' /\ Gave'
  BY <1>1, <1>2 DEF Took, Gave
<1>6. ChunkedInv'
  BY <1>1, <1>2, <1>3, <1>4 DEF ChunkedInv
<1>7. ReadFramed'
  BY <1>1, <1>2, <1>5, <1>6 DEF ReadFramed
<1> QED BY <1>1, <1>2, <1>7, WroteOnce DEF Kept

LEMMA ChunkEndKept ==
  ASSUME ReadInv, Kept, Framed, ChunkEnd
  PROVE  Kept'
<1> DEFINE no == FALSE
<1>1. /\ Turn /\ cr.checkEnd /\ wire # <<>> /\ cr' = [cr EXCEPT !.checkEnd = no]
      /\ wire' = Tail(wire)
      /\ UNCHANGED <<pc, msg, tw, put, sent, b, mb, call, taken, out, ended>>
  <2>1. Ahead = CRLF => wire # <<>>
    BY DEF Ahead, CRLF, Token
  <2> QED BY <2>1 DEF ChunkEnd
<1>2. no \in BOOLEAN /\ ~no
  OBVIOUS
<1> HIDE DEF no
<1>3. /\ pc = "src" /\ b.src = "chunked" /\ cr.err = "nil"
      /\ Took /\ Gave /\ ChunkedInv /\ (sent.next => sent.whole)
      /\ ~b.sawEOF /\ ~b.closed /\ b.hdr
  BY <1>1, TurnFacts
<1>4. cr'.err = "nil" /\ cr'.n = cr.n /\ cr'.excess = cr.excess /\ ~cr'.checkEnd
  BY <1>1, <1>2, <1>3 DEF ReadInv, TypeInv, TypeOK
<1>5. cr.n = 0
  BY <1>1 DEF ReadInv, AccountInv
<1>6. Rest(S("line", 0, Len(taken)), Tail(wire), sent)
  <2>1. Here.ph = "crlf" /\ Here.got = Len(taken)
    BY <1>1, TurnFacts
  <2>2. PICK d \in State : Follows(Here, wire[1], d, sent) /\ Rest(d, Tail(wire), sent)
    BY <1>1, TurnFacts
  <2> QED BY <2>1, <2>2, FollowsKind
<1>7. Here' = S("line", 0, Len(taken))
  BY <1>1, <1>4, <1>5 DEF Here
<1>8. Took' /\ Gave'
  BY <1>1, <1>3 DEF Took, Gave
<1>9. ChunkedInv'
  BY <1>1, <1>3, <1>4, <1>6, <1>7 DEF ChunkedInv
<1>10. ReadFramed'
  BY <1>1, <1>3, <1>8, <1>9 DEF ReadFramed
<1> QED BY <1>1, <1>3, <1>10, WroteOnce DEF Kept

\* A chunk of this package's own making is within its allowance.
LEMMA NoExcess ==
  ASSUME NEW n \in Nat, n > 0
  PROVE  Excess(0, SizeLine(n, 0).len, n) = 0
<1>1. SizeLine(n, 0).len = HexDigits(n) + 2 + 0
  BY DEF SizeLine, Token
<1>2. HexDigits(n) \in Nat /\ HexDigits(n) <= n
  BY HexFacts
<1>3. ChunkAllowance \in Nat /\ ChunkAllowance >= 3
  BY BodyAssumption
<1> QED BY <1>1, <1>2, <1>3 DEF Excess

LEMMA BeginChunkKept ==
  ASSUME ReadInv, Kept, Framed, BeginChunk
  PROVE  Kept'
<1> DEFINE size   == Ahead.v
           len    == Ahead.len
           excess == Excess(cr.excess, len, size)
           e == CASE size = 0 -> "eof"
                  [] size > 0 /\ excess > MaxExcess -> "err"
                  [] OTHER -> "nil"
<1>1. /\ Turn /\ ~cr.checkEnd /\ cr.n = 0 /\ Ahead.t = "size"
      /\ cr' = [cr EXCEPT !.n = size, !.excess = excess, !.err = e]
      /\ wire' = Tail(wire)
      /\ UNCHANGED <<pc, msg, tw, put, sent, b, mb, call, taken, out, ended>>
  BY DEF BeginChunk
<1>2. /\ pc = "src" /\ b.src = "chunked" /\ cr.err = "nil"
      /\ Took /\ Gave /\ ChunkedInv /\ (sent.next => sent.whole) /\ sent \in SentRec
      /\ ~b.sawEOF /\ ~b.closed /\ b.hdr /\ cr.excess \in Nat /\ Len(taken) \in Nat
      /\ wire \in Seq(TokenRec) /\ sent.data \in Nat
  BY <1>1, TurnFacts
<1>3. wire # <<>> /\ Ahead = wire[1] /\ size \in Nat /\ len \in Nat
  BY <1>1, <1>2, AheadType
<1>4. Here.ph = "line" /\ Here.got = Len(taken)
  BY <1>1, TurnFacts
<1>5. PICK d \in State : Follows(Here, Ahead, d, sent) /\ Rest(d, Tail(wire), sent)
  BY <1>1, <1>3, TurnFacts
<1>6. \/ /\ size > 0 /\ Ahead = SizeLine(size, sent.ext) /\ Len(taken) + size <= sent.data
         /\ d = S("data", size, Len(taken))
      \/ size = 0 /\ Len(taken) = sent.data /\ d = S("trailer", 0, Len(taken))
  <2>1. SizeLine(0, sent.ext).v = 0
    BY DEF SizeLine, Token
  <2> QED BY <1>4, <1>5, <2>1 DEF Follows
<1> HIDE DEF size, len
<1>7. ChunkAllowance \in Nat /\ MaxExcess \in Nat
  BY BodyAssumption
<1>8. excess \in Nat
  BY <1>2, <1>3, <1>7 DEF Excess
<1>9. sent.ext = 0 /\ sent.whole /\ size > 0 => excess = 0
  <2> SUFFICES ASSUME sent.ext = 0, sent.whole, size > 0 PROVE excess = 0
    OBVIOUS
  <2>1. cr.excess = 0
    BY <1>2 DEF ChunkedInv
  <2>2. len = SizeLine(size, 0).len
    BY <1>6 DEF len
  <2> QED BY <1>3, <2>1, <2>2, NoExcess
<1> HIDE DEF excess
<1>10. /\ e \in {"nil", "eof", "err"} /\ (e = "eof" <=> size = 0)
       /\ (e = "err" => excess > 0) /\ (e = "nil" => size > 0)
  BY <1>3, <1>7, <1>8
<1> HIDE DEF e
<1>11. cr'.err = e /\ cr'.n = size /\ cr'.excess = excess /\ ~cr'.checkEnd
  BY <1>1, <1>3, <1>8, <1>10 DEF ReadInv, TypeInv, TypeOK
<1>12. e # "err" => Here' = d
  <2>1. CASE e = "eof"
    BY <1>1, <1>6, <1>10, <1>11, <2>1 DEF Here
  <2>2. CASE e = "nil"
    BY <1>1, <1>6, <1>10, <1>11, <2>2 DEF Here
  <2> QED BY <1>10, <2>1, <2>2
<1>13. Took' /\ Gave'
  BY <1>1, <1>2 DEF Took, Gave
<1>14. Len(taken) + size <= sent.data /\ (e = "eof" => Len(taken) = sent.data)
  BY <1>2, <1>6, <1>10
<1>15. sent.whole /\ sent.ext = 0 => e # "err" /\ (e = "nil" => excess = 0)
  BY <1>3, <1>8, <1>9, <1>10, <1>6
<1>16. ChunkedInv'
  BY <1>1, <1>2, <1>5, <1>11, <1>12, <1>14, <1>15 DEF ChunkedInv
<1>17. ReadFramed'
  BY <1>1, <1>2, <1>13, <1>16 DEF ReadFramed
<1> QED BY <1>1, <1>2, <1>17, WroteOnce DEF Kept

LEMMA ChunkDataKept ==
  ASSUME ReadInv, Kept, Framed, ChunkData
  PROVE  Kept'
<1> DEFINE end == cr.n = 1
           n == cr.n - 1
           room == call.room - 1
           got == call.got + 1
<1>1. /\ Turn /\ ~cr.checkEnd /\ cr.n > 0 /\ wire # <<>>
      /\ cr' = [cr EXCEPT !.n = n, !.checkEnd = end]
      /\ call' = [call EXCEPT !.room = room, !.got = got]
      /\ taken' = Append(taken, Ahead) /\ wire' = Tail(wire) /\ call.room > 0
      /\ UNCHANGED <<pc, msg, tw, put, sent, b, mb, out, ended>>
  BY DEF ChunkData
<1>2. /\ pc = "src" /\ b.src = "chunked" /\ cr.err = "nil"
      /\ Took /\ Gave /\ ChunkedInv /\ (sent.next => sent.whole)
      /\ ~b.sawEOF /\ ~b.closed /\ b.hdr /\ ended # "eof" /\ sent.data \in Nat
      /\ taken \in Seq(TokenRec) /\ Len(taken) \in Nat /\ cr.n \in Nat
      /\ Ahead = wire[1] /\ Ahead \in TokenRec
  BY <1>1, TurnFacts
<1>3. call.room \in Nat /\ call.got \in Nat
  BY <1>2, CallFacts
<1>4. Here.ph = "data" /\ Here.got = Len(taken) /\ Here.left = cr.n
  BY <1>1, TurnFacts
<1>5. PICK d \in State : Follows(Here, Ahead, d, sent) /\ Rest(d, Tail(wire), sent)
  BY <1>1, <1>2, TurnFacts
<1>6. /\ Ahead = DataByte(Len(taken) + 1)
      /\ d = S(IF cr.n = 1 THEN "crlf" ELSE "data", cr.n - 1, Len(taken) + 1)
  BY <1>4, <1>5, FollowsKind
<1>7. /\ n \in Nat /\ room \in Nat /\ got \in Nat /\ end \in BOOLEAN
      /\ (~end => n > 0)
  BY <1>1, <1>2, <1>3, SMTT(60)
<1>8. d = S(IF end THEN "crlf" ELSE "data", n, Len(taken) + 1)
  BY <1>6
<1>9. Len(taken) + cr.n <= sent.data
  BY <1>2 DEF ChunkedInv
<1>10. Len(taken) + 1 + n <= sent.data /\ Len(taken) + 1 <= sent.data
  BY <1>1, <1>2, <1>9
<1>11. /\ Len(taken') = Len(taken) + 1 /\ taken'[Len(taken) + 1] = Ahead
       /\ \A i \in 1 .. Len(taken) : taken'[i] = taken[i]
  BY <1>1, <1>2, AppendProperties
<1>12. Len(taken') - got = Len(taken) - call.got
  <2>1. Len(taken') = Len(taken) + 1
    BY <1>11
  <2>2. Len(taken) \in Nat
    BY <1>2
  <2>3. \A x, y \in Nat : x + 1 - (y + 1) = x - y
    OBVIOUS
  <2>4. Len(taken) + 1 - (call.got + 1) = Len(taken) - call.got
    BY <1>3, <2>2, <2>3
  <2> DEFINE after == Len(taken')
  <2>5. after = Len(taken) + 1
    BY <2>1
  <2> HIDE DEF after
  <2>6. after - got = Len(taken) - call.got
    BY <1>3, <2>2, <2>4, <2>5
  <2> QED BY <2>6 DEF after
<1> HIDE DEF end, n, room, got
<1>13. cr'.n = n /\ cr'.checkEnd = end /\ cr'.err = "nil" /\ cr'.excess = cr.excess
  BY <1>1, <1>2, <1>7 DEF ReadInv, TypeInv, TypeOK
<1>14. call'.got = got /\ call'.op = call.op
  BY <1>1, <1>7 DEF ReadInv, TypeInv, CallRec
<1>15. Here' = d
  BY <1>7, <1>8, <1>11, <1>13 DEF Here
<1>16. Took'
  <2>1. \A i \in 1 .. Len(taken) + 1 : taken'[i] = DataByte(i)
    <3> SUFFICES ASSUME NEW i \in 1 .. Len(taken) + 1 PROVE taken'[i] = DataByte(i)
      OBVIOUS
    <3>1. CASE i = Len(taken) + 1
      BY <1>6, <1>11, <3>1
    <3>2. CASE i # Len(taken) + 1
      <4>1. i \in 1 .. Len(taken)
        BY <1>2, <3>2
      <4> QED BY <1>2, <1>11, <4>1 DEF Took
    <3> QED BY <3>1, <3>2
  <2> QED BY <1>1, <1>10, <1>11, <2>1 DEF Took
<1>17. Gave'
  BY <1>1, <1>2, <1>12, <1>14, GaveSame
<1>18. ChunkedInv'
  BY <1>1, <1>2, <1>5, <1>10, <1>11, <1>13, <1>15 DEF ChunkedInv
<1>19. ReadFramed'
  BY <1>1, <1>2, <1>16, <1>17, <1>18 DEF ReadFramed
<1> QED BY <1>1, <1>2, <1>19, WroteOnce DEF Kept


LEMMA MsgStays ==
  ASSUME [Next]_vars
  PROVE  msg' = msg
<1>1. ASSUME SrcPlain PROVE msg' = msg
  BY <1>1 DEF SrcPlain
<1>2. ASSUME ChunkReturn PROVE msg' = msg
  BY <1>2, SMTT(60) DEF ChunkReturn
<1>3. ASSUME WriteRequest \/ WriteResponse \/ WriteChunk \/ WriteEnd PROVE msg' = msg
  BY <1>3 DEF WriteRequest, WriteResponse, WriteHeader, WriteChunk, WriteEnd
<1>4. ASSUME ReadRequest \/ ReadResponse \/ (\E k \in 1 .. MaxRead : Read(k)) \/ Close
      PROVE  msg' = msg
  BY <1>4 DEF ReadRequest, ReadResponse, ReadHeader, Read, Close
<1>5. ASSUME ChunkMalformed \/ ChunkEnd \/ BeginChunk \/ ChunkData PROVE msg' = msg
  BY <1>5 DEF ChunkMalformed, ChunkEnd, BeginChunk, ChunkData
<1> QED BY <1>1, <1>2, <1>3, <1>4, <1>5 DEF Next, vars

\* Whether a message is framed is settled by its fields alone.
LEMMA FramedStays ==
  ASSUME msg' = msg
  PROVE  Framed' = Framed
BY DEF Framed, SenderUnframed, WriterUnframed

LEMMA StutterKept ==
  ASSUME Kept, UNCHANGED vars
  PROVE  Kept'
<1>1. WriteInv'
  BY DEF vars, Kept, WriteInv, Announced
<1>2. pc \in {"idle", "src"} => ReadFramed'
  <2>1. Took' = Took /\ Gave' = Gave
    BY DEF vars, Took, Gave
  <2>2. ChunkedInv' = ChunkedInv
    BY HereSame DEF vars, ChunkedInv
  <2>3. PlainInv' = PlainInv
    BY DEF vars, PlainInv
  <2> QED BY <2>1, <2>2, <2>3 DEF vars, Kept, ReadFramed
<1> QED BY <1>1, <1>2 DEF vars, Kept

LEMMA NextKept ==
  ASSUME ReadInv, Kept, Framed, [Next]_vars
  PROVE  Kept'
<1>1. CASE WriteRequest
  BY <1>1, WriteHeaderKept DEF WriteRequest, Writers
<1>2. CASE WriteResponse
  BY <1>2, WriteHeaderKept DEF WriteResponse, Writers
<1>3. CASE WriteChunk
  BY <1>3, WriteChunkKept
<1>4. CASE WriteEnd
  BY <1>4, WriteEndKept
<1>5. CASE ReadRequest \/ ReadResponse
  BY <1>5, ReadHeaderKept DEF ReadRequest, ReadResponse
<1>6. CASE \E k \in 1 .. MaxRead : Read(k)
  BY <1>6, ReadKept
<1>7. CASE Close
  BY <1>7, CloseKept
<1>8. CASE SrcPlain
  BY <1>8, SrcPlainKept
<1>9. CASE ChunkReturn
  BY <1>9, ChunkReturnKept
<1>10. CASE ChunkMalformed
  BY <1>10, ChunkMalformedKept
<1>11. CASE ChunkEnd
  BY <1>11, ChunkEndKept
<1>12. CASE BeginChunk
  BY <1>12, BeginChunkKept
<1>13. CASE ChunkData
  BY <1>13, ChunkDataKept
<1>14. CASE UNCHANGED vars
  BY <1>14, StutterKept
<1> QED
  BY <1>1, <1>2, <1>3, <1>4, <1>5, <1>6, <1>7, <1>8, <1>9, <1>10, <1>11, <1>12, <1>13,
     <1>14 DEF Next

(* transferWriter and transferReader: of a framed message, what is on the  *)
(* wire and what was read from it are the body's bytes, from first to last,*)
(* and the reader knows at every step where in the framing it stands.      *)
THEOREM FramedInvariance == Spec => []FramedInv
<1>1. Init => FramedInv
  BY InitKept DEF FramedInv, Kept
<1>2. ReadInv /\ FramedInv /\ [Next]_vars => FramedInv'
  <2> SUFFICES ASSUME ReadInv, FramedInv, [Next]_vars, Framed' PROVE Kept'
    BY DEF FramedInv, Kept
  <2>1. Framed
    BY MsgStays, FramedStays
  <2>2. Kept
    BY <2>1 DEF FramedInv, Kept
  <2> QED BY <2>1, <2>2, NextKept
<1> QED BY <1>1, <1>2, ReadInvariance, PTL DEF Spec

-----------------------------------------------------------------------------
(* What the user of a framed body may count on *)

\* What was given are bytes of the body, in order.
LEMMA GivenBytes ==
  ASSUME ReadInv, FramedInv, Framed
  PROVE  /\ Len(out) \in Nat /\ sent.data \in Nat /\ Len(out) <= sent.data
         /\ \A i \in 1 .. Len(out) : out[i] = DataByte(i)
<1>1. /\ out \in Seq(TokenRec) /\ taken \in Seq(TokenRec) /\ sent.data \in Nat
      /\ pc \in {"write", "body", "header", "idle", "src"}
  BY DEF ReadInv, TypeInv, TypeOK, SentRec
<1>2. Len(out) \in Nat /\ Len(taken) \in Nat
  BY <1>1, LenProperties
<1>3. CASE pc \in Early
  <2>1. out = <<>>
    BY <1>3 DEF ReadInv, CallInv
  <2>2. Len(out) = 0
    BY <2>1, EmptySeq
  <2> QED BY <1>1, <2>2
<1>4. CASE pc \in {"idle", "src"}
  <2>1. Took /\ Gave
    BY <1>4 DEF FramedInv, ReadFramed
  <2>2. call.got \in Nat /\ call.got <= Len(taken) - Len(out)
    BY DEF ReadInv, TypeInv, CallInv, CallRec
  <2>3. Len(out) <= Len(taken)
    BY <1>2, <2>2
  <2>4. Len(out) <= sent.data
    BY <1>1, <1>2, <2>1, <2>3 DEF Took
  <2> QED BY <1>1, <1>2, <2>1, <2>4 DEF Gave
<1> QED BY <1>1, <1>3, <1>4 DEF Early

\* At a clean io.EOF all of it was given.
LEMMA GivenAll ==
  ASSUME ReadInv, FramedInv, Framed, ended = "eof", b.src # "raw", mb.err # "toolarge"
  PROVE  Len(out) = sent.data
<1>1. /\ taken \in Seq(TokenRec) /\ sent.data \in Nat /\ b.n \in Nat
      /\ b.src \in {"none", "chunked", "limited", "raw"}
  BY DEF ReadInv, TypeInv, SentRec, BodyRec
<1>2. Len(taken) \in Nat
  BY <1>1, LenProperties
<1>3. pc \in {"idle", "src"} /\ (b.sawEOF \/ b.src = "none")
  BY DEF ReadInv, TypeInv, TypeOK, CallInv, Early
<1>4. Took /\ Gave /\ (IF b.src = "chunked" THEN ChunkedInv ELSE PlainInv)
  BY <1>3 DEF FramedInv, ReadFramed
<1>5. Len(out) = Len(taken)
  BY <1>4 DEF Gave
<1>6. Len(taken) <= sent.data
  BY <1>4 DEF Took
<1>7. Len(taken) = sent.data
  <2>1. CASE b.src = "chunked"
    BY <1>3, <1>4, <2>1 DEF ChunkedInv
  <2>2. CASE b.src = "none"
    <3>1. sent.data = 0
      BY <1>4, <2>2 DEF PlainInv
    <3> QED BY <1>2, <1>6, <3>1
  <2>3. CASE b.src = "limited"
    <3>1. b.n = 0 /\ Len(taken) + b.n >= sent.data
      BY <1>3, <1>4, <2>3 DEF PlainInv
    <3> QED BY <1>1, <1>2, <1>6, <3>1
  <2> QED BY <1>1, <2>1, <2>2, <2>3
<1> QED BY <1>5, <1>7

(* body.Read over a chunkedReader or an io.LimitedReader: the user gets    *)
(* the bytes that were written, in order, and io.EOF only after the last,  *)
(* wherever the connection breaks and whatever the writer's body does.     *)
THEOREM EOFMeansEverything == Spec => []EOFMeansAll
<1>1. ReadInv /\ FramedInv => EOFMeansAll
  <2> SUFFICES ASSUME ReadInv, FramedInv, Framed
               PROVE  /\ IsPrefix(out, DataBytes(1, sent.data))
                      /\ ended = "eof" /\ b.src # "raw" /\ mb.err # "toolarge"
                           => out = DataBytes(1, sent.data)
    BY DEF EOFMeansAll, Framed
  <2> DEFINE d == DataBytes(1, sent.data)
             k == Len(out)
  <2>1. /\ k \in Nat /\ sent.data \in Nat /\ k <= sent.data
        /\ \A i \in 1 .. k : out[i] = DataByte(i)
    BY GivenBytes
  <2>2. /\ d \in Seq(TokenRec) /\ Len(d) = sent.data
        /\ \A i \in 1 .. sent.data : d[i] = DataByte(i)
    <3>1. 1 \in Nat /\ 1 <= sent.data + 1
      BY <2>1
    <3>2. /\ d \in Seq(TokenRec) /\ Len(d) = sent.data + 1 - 1
          /\ \A i \in 1 .. sent.data + 1 - 1 : d[i] = DataByte(1 + i - 1)
      BY <2>1, <3>1, DataFacts
    <3> HIDE DEF d
    <3>3. sent.data + 1 - 1 = sent.data
      BY <2>1
    <3>4. \A i \in 1 .. sent.data : 1 + i - 1 = i
      OBVIOUS
    <3> QED BY <3>2, <3>3, <3>4
  <2>3. out \in Seq(TokenRec)
    BY DEF ReadInv, TypeInv
  <2> HIDE DEF d, k
  <2>4. \A i \in 1 .. k : out[i] = d[i]
    BY <2>1, <2>2
  <2>5. SubSeq(out, 1, k) = SubSeq(d, 1, k)
    <3>1. /\ SubSeq(out, 1, k) \in Seq(TokenRec)
          /\ Len(SubSeq(out, 1, k)) = (IF 1 <= k THEN k - 1 + 1 ELSE 0)
          /\ \A i \in 1 .. k - 1 + 1 : SubSeq(out, 1, k)[i] = out[1 + i - 1]
      BY <2>1, <2>3, SubSeqFacts DEF k
    <3>2. /\ SubSeq(d, 1, k) \in Seq(TokenRec)
          /\ Len(SubSeq(d, 1, k)) = (IF 1 <= k THEN k - 1 + 1 ELSE 0)
          /\ \A i \in 1 .. k - 1 + 1 : SubSeq(d, 1, k)[i] = d[1 + i - 1]
      BY <2>1, <2>2, SubSeqFacts
    <3>3. \A i \in 1 .. k : 1 + i - 1 = i
      OBVIOUS
    <3>4. k - 1 + 1 = k /\ Len(SubSeq(out, 1, k)) = k
      BY <2>1, <3>1
    <3>5. \A i \in 1 .. k : SubSeq(out, 1, k)[i] = SubSeq(d, 1, k)[i]
      BY <2>4, <3>1, <3>2, <3>3, <3>4
    <3>6. Len(SubSeq(out, 1, k)) = Len(SubSeq(d, 1, k))
      BY <3>1, <3>2
    <3> QED BY <3>1, <3>2, <3>4, <3>5, <3>6, SeqEqual
  <2>6. IsPrefix(out, d)
    BY <2>1, <2>2, <2>5 DEF IsPrefix, k
  <2>7. ASSUME ended = "eof", b.src # "raw", mb.err # "toolarge" PROVE out = d
    <3>1. Len(out) = Len(d)
      BY <2>2, <2>7, GivenAll
    <3> QED BY <2>2, <2>3, <2>4, <3>1, SeqEqual DEF k
  <2> QED BY <2>6, <2>7 DEF d
<1> QED BY <1>1, ReadInvariance, FramedInvariance, PTL

(* body.readTrailer, Close and the reuse of a connection: once the end of  *)
(* a complete body was seen the next message comes first on the wire.      *)
THEOREM StandsAtBoundary == Spec => []AtBoundary
<1>1. ReadInv /\ FramedInv => AtBoundary
  <2> SUFFICES ASSUME ReadInv, FramedInv, Framed, pc = "idle", ended # "err",
                      b.sawEOF \/ b.src = "none", sent.whole
               PROVE  wire = IF sent.next THEN <<NextMessage>> ELSE <<>>
    BY DEF AtBoundary, Framed
  <2>1. /\ taken \in Seq(TokenRec) /\ wire \in Seq(TokenRec) /\ sent \in SentRec
        /\ sent.data \in Nat /\ b.n \in Nat
        /\ b.src \in {"none", "chunked", "limited", "raw"}
    BY DEF ReadInv, TypeInv, SentRec, BodyRec
  <2>2. Len(taken) \in Nat /\ Len(wire) \in Nat
    BY <2>1, LenProperties
  <2>3. Took /\ (IF b.src = "chunked" THEN ChunkedInv ELSE PlainInv)
    BY DEF FramedInv, ReadFramed
  <2>4. CASE b.src = "chunked"
    <3>1. Rest(S("end", 0, Len(taken)), wire, sent)
      BY <2>3, <2>4 DEF ChunkedInv
    <3>2. S("end", 0, Len(taken)) \in State /\ S("end", 0, Len(taken)).ph = "end"
      BY <2>2, PlaceTypes
    <3> QED BY <2>1, <3>1, <3>2, RunFromEnd
  <2>5. CASE b.src = "raw"
    BY <2>3, <2>5 DEF PlainInv
  <2>6. CASE b.src \in {"none", "limited"}
    <3>1. Plain(Len(taken), wire, sent)
      BY <2>3, <2>6 DEF PlainInv
    <3>2. Len(taken) = sent.data
      <4>1. CASE b.src = "none"
        <5>1. sent.data = 0 /\ Len(taken) <= sent.data
          BY <2>3, <4>1 DEF PlainInv, Took
        <5> QED BY <2>2, <5>1
      <4>2. CASE b.src = "limited"
        <5>1. b.n = 0 /\ Len(taken) + b.n = sent.data
          BY <2>3, <4>2 DEF PlainInv
        <5> QED BY <2>2, <5>1
      <4> QED BY <2>6, <4>1, <4>2
    <3>3. sent.data + Len(wire) = sent.data + (IF sent.next THEN 1 ELSE 0)
      BY <3>1, <3>2 DEF Plain
    <3>4. Len(wire) = IF sent.next THEN 1 ELSE 0
      <4>1. \A x, y, z \in Nat : x + y = x + z => y = z
        OBVIOUS
      <4>2. (IF sent.next THEN 1 ELSE 0) \in Nat
        OBVIOUS
      <4> QED BY <2>1, <2>2, <3>3, <4>1, <4>2
    <3>5. CASE sent.next
      <4>1. wire[1] = IF sent.data + 1 <= sent.data THEN DataByte(sent.data + 1) ELSE NextMessage
        BY <3>1, <3>2, <3>4, <3>5 DEF Plain
      <4>2. wire[1] = NextMessage
        BY <2>1, <4>1
      <4>3. <<NextMessage>> \in Seq(TokenRec) /\ Len(<<NextMessage>>) = 1
        BY TokenTypes
      <4> QED BY <2>1, <3>4, <3>5, <4>2, <4>3, SeqEqual
    <3>6. CASE ~sent.next
      BY <2>1, <3>4, <3>6, EmptySeq
    <3> QED BY <3>5, <3>6
  <2> QED BY <2>1, <2>4, <2>5, <2>6
<1> QED BY <1>1, ReadInvariance, FramedInvariance, PTL

(* beginChunk, readTrailer and the unexpected EOF: none of the reader's    *)
(* checks ever refuses the complete message of this package's writer.      *)
THEOREM HonestIsAccepted == Spec => []HonestAccepted
<1>1. ReadInv /\ FramedInv => HonestAccepted
  <2> SUFFICES ASSUME ReadInv, FramedInv, Framed, sent.whole, sent.ext = 0
               PROVE  ended # "err"
    BY DEF HonestAccepted, Framed
  <2>1. pc \in {"write", "body", "header", "idle", "src"}
    BY DEF ReadInv, TypeInv, TypeOK
  <2>2. CASE pc \in Early
    BY <2>2 DEF ReadInv, CallInv
  <2>3. CASE pc \in {"idle", "src"}
    BY <2>3 DEF FramedInv, ReadFramed, ChunkedInv, PlainInv
  <2> QED BY <2>1, <2>2, <2>3 DEF Early
<1> QED BY <1>1, ReadInvariance, FramedInvariance, PTL
=============================================================================
