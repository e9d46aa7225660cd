------------------------------ MODULE Framing ------------------------------
(***************************************************************************)
(* How an HTTP/1 message says where its body ends (transfer.go, the parts  *)
(* of request.go and response.go that call it): what transferWriter puts   *)
(* in the header and on the wire, and what readTransfer makes of it on the *)
(* other side.  Pure operators; Body.tla runs them as writer and reader.   *)
(*                                                                         *)
(* A message is a record.  `kind' is "req" or "resp", `method' the method  *)
(* of the request (of the answered request for a response), `proto' 10 or  *)
(* 11, `body' one of "nil", "NoBody" and "reader"; a reader yields n bytes *)
(* and then io.EOF, or an error when `fails'.  `cl', `te' and `close' are  *)
(* the fields ContentLength, TransferEncoding and Close, `conn' the value  *)
(* of a Connection header of the user's.  A request is always sent as 11   *)
(* and read as if it were the response to a GET with status 200.           *)
(*                                                                         *)
(* The wire is a sequence of tokens: a data byte, a chunk-size line of     *)
(* `len' bytes, a CRLF, a block of trailers, the start of the next message.*)
(***************************************************************************)
EXTENDS Integers, Sequences, SequencesExt, FiniteSetsExt

Unknown == -1                           \* ContentLength of a body of no known length
BadLength == -2                         \* a Content-Length that does not parse

Token(t, v, len) == [t |-> t, v |-> v, len |-> len]
DataByte(i)      == Token("data", i, 1)
HexDigits(n)     == 1 + Cardinality({d \in 1..(n - 1) : 16 ^ d <= n})
SizeLine(n, ext) == Token("size", n, HexDigits(n) + 2 + ext)  \* digits, extension, \r\n
CRLF             == Token("crlf", 0, 2)
TrailerBlock     == Token("trailer", 0, 4)
NextMessage      == Token("next", 0, 1)

DataBytes(from, to) == [i \in 1..(to - from + 1) |-> DataByte(from + i - 1)]

Codings     == {"chunked", "identity", "gzip"}
Connections == {"", "close", "keep-alive", "upgrade"}

Message ==
  {m \in [kind : {"req", "resp"}, method : STRING, status : Nat, proto : {10, 11},
          body : {"nil", "NoBody", "reader"}, n : Nat, fails : BOOLEAN,
          cl : Nat \cup {Unknown}, te : Seq(Codings), close : BOOLEAN, conn : Connections,
          trailer : {"none", "ok", "bad"}, uncompressed : BOOLEAN] :
     /\ m.kind = "req" => m.proto = 11 /\ m.status = 200
     /\ m.body # "reader" => m.n = 0 /\ ~m.fails}

Chunked(te)    == te # <<>> /\ te[1] = "chunked"
IsIdentity(te) == te = <<"identity">>

NoResponseBodyExpected(method) == method = "HEAD"
BodyAllowedForStatus(status)   == status \notin 100..199 \cup {204, 304}
UsuallyLacksBody(method) ==
  method \in {"GET", "HEAD", "DELETE", "OPTIONS", "PROPFIND", "SEARCH"}

-----------------------------------------------------------------------------
(* The writer: transferWriter. *)

OutgoingLength(r) ==
  CASE r.body \in {"nil", "NoBody"} -> 0
    [] r.body = "reader" /\ r.cl # 0 -> r.cl
    [] OTHER -> Unknown

(* Sanitize Body, ContentLength, TransferEncoding and Trailer. *)
Sanitize(t) ==
  LET te == IF ~t.head /\ (t.proto < 11 \/ ~t.hasBody) THEN <<>> ELSE t.te
  IN  [t EXCEPT !.te = te,
                !.hasBody = t.hasBody /\ ~t.head,
                !.cl = CASE Chunked(te) -> Unknown
                         [] ~Chunked(te) /\ ~t.head /\ ~t.hasBody -> 0
                         [] OTHER -> t.cl,
                !.trailer = IF Chunked(te) THEN t.trailer ELSE "none"]

TransferFields(r) ==
  [isResponse |-> r.kind = "resp", method |-> r.method, proto |-> r.proto,
   hasBody |-> r.body # "nil", n |-> r.n, fails |-> r.fails, cl |-> r.cl,
   te |-> r.te, close |-> r.close, conn |-> r.conn, trailer |-> r.trailer,
   head |-> r.kind = "resp" /\ NoResponseBodyExpected(r.method)]

(* probeRequestBody reads one byte: a body that ends at once counts as no  *)
(* body, unless its answer takes longer than the timer.                    *)
ProbeRequestBody(t) ==
  {[t EXCEPT !.te = <<"chunked">>]}
    \cup IF t.n = 0 /\ ~t.fails THEN {[t EXCEPT !.hasBody = FALSE, !.cl = 0]} ELSE {}

(* The transferWriters that newTransferWriter may return; none for an error. *)
RequestWriters(r) ==
  LET t == [TransferFields(r) EXCEPT !.cl = OutgoingLength(r)]
      asked == t.cl < 0 /\ t.te = <<>> /\ t.method # "CONNECT"
  IN  IF r.cl # 0 /\ r.body = "nil" THEN {}
      ELSE {Sanitize(s) : s \in
             CASE asked /\ UsuallyLacksBody(t.method)  -> ProbeRequestBody(t)
               [] asked /\ ~UsuallyLacksBody(t.method) -> {[t EXCEPT !.te = <<"chunked">>]}
               [] OTHER -> {t}}

(* Response.Write settles the length before it asks for a transferWriter.  *)
WriteLength(r) == IF r.cl = 0 /\ r.body # "nil" /\ r.n > 0 THEN Unknown ELSE r.cl
WriteClose(r) ==
  \/ r.close
  \/ WriteLength(r) = Unknown /\ r.proto >= 11 /\ ~Chunked(r.te) /\ ~r.uncompressed
ResponseWriters(r) ==
  IF r.cl = 0 /\ r.body # "nil" /\ r.n = 0 /\ r.fails THEN {}
  ELSE {Sanitize([TransferFields(r) EXCEPT !.cl = WriteLength(r), !.close = WriteClose(r)])}

ShouldSendContentLength(t) ==
  /\ ~Chunked(t.te)
  /\ \/ t.cl > 0
     \/ t.cl = 0 /\ t.method \in {"POST", "PUT", "PATCH"}
     \/ t.cl = 0 /\ IsIdentity(t.te) /\ t.method \notin {"GET", "HEAD"}

(* After the header Response.Write adds a Content-Length of zero if the    *)
(* response is empty and does not say so yet.                              *)
AddsZeroLength(r, t) ==
  /\ r.kind = "resp" /\ WriteLength(r) = 0 /\ ~Chunked(r.te)
  /\ ~ShouldSendContentLength(t) /\ BodyAllowedForStatus(r.status)

(* The framing fields of the header: writeHeader, and that addition.       *)
WrittenHeader(r, t) ==
  [cls |-> CASE ShouldSendContentLength(t) -> <<t.cl>>
             [] AddsZeroLength(r, t) -> <<0>>
             [] OTHER -> <<>>,
   tes |-> IF Chunked(t.te) THEN <<"chunked">> ELSE <<>>,
   conn |-> ((IF t.close THEN {"close"} ELSE {}) \cup {r.conn}) \ {""},
   trailer |-> t.trailer]

(* What the chunkedWriter makes of a Read of k bytes after the first put.  *)
ChunkTokens(put, k, ext) ==
  <<SizeLine(k, ext)>> \o DataBytes(put + 1, put + k) \o <<CRLF>>

(* Whether writeBody returns without an error. *)
WriteSucceeds(t) ==
  /\ t.hasBody => ~t.fails
  /\ ~t.head /\ t.cl # Unknown => t.cl = IF t.hasBody THEN t.n ELSE 0

(* How many bytes of the body writeBody writes.                            *)
BytesWritten(t) ==
  CASE ~t.hasBody -> 0
    [] t.hasBody /\ t.cl = Unknown -> t.n
    [] OTHER -> Min({t.n, t.cl})

(* What writeBody puts on the wire after the chunks, if any; a read error  *)
(* cuts it short.  The last CRLF belongs to a chunked body's trailer and   *)
(* is also written for a response to HEAD whose TransferEncoding is        *)
(* chunked.                                                                *)
WrittenAtEnd(t, ext) ==
  LET end == IF t.trailer = "ok" THEN <<TrailerBlock>> ELSE <<CRLF>>
  IN  CASE Chunked(t.te) /\ t.hasBody ->
             IF WriteSucceeds(t) THEN <<SizeLine(0, ext)>> \o end ELSE <<>>
        [] Chunked(t.te) /\ ~t.hasBody -> end
        [] OTHER -> DataBytes(1, BytesWritten(t))

-----------------------------------------------------------------------------
(* The reader: readTransfer on the header h of a message of this kind.     *)

ShouldClose(proto, conn) ==
  \/ proto < 10
  \/ "close" \in conn
  \/ proto = 10 /\ "keep-alive" \notin conn

IsChunked(proto, h) == proto >= 11 /\ h.tes # <<>>

(* The header announces a trailer that may not be one; without chunking    *)
(* nobody looks.                                                           *)
TrailerRefused(proto, h) == IsChunked(proto, h) /\ h.trailer = "bad"

HeaderRefused(proto, h) ==
  \/ IsChunked(proto, h) /\ h.tes # <<"chunked">>
  \/ \E i \in DOMAIN h.cls : h.cls[i] # h.cls[1]
  \/ h.cls # <<>> /\ h.cls[1] = BadLength
  \/ TrailerRefused(proto, h)

FixLength(kind, status, method, proto, h) ==
  CASE kind = "resp" /\ NoResponseBodyExpected(method) -> 0
    [] status \in 100..199 \cup {204, 304} -> 0
    [] OTHER -> IF IsChunked(proto, h) THEN Unknown
                ELSE IF h.cls # <<>> THEN h.cls[1]
                ELSE IF kind = "req" THEN 0 ELSE Unknown

(* The body that readTransfer prepares: src is "none" for NoBody,          *)
(* "chunked", "limited" with n bytes to come, or "raw".                    *)
ReadTransfer(kind, status, method, proto, h) ==
  LET real     == FixLength(kind, status, method, proto, h)
      chunked  == IsChunked(proto, h)
      bodiless == kind = "resp" /\ (NoResponseBodyExpected(method) \/ ~BodyAllowedForStatus(status))
      close    == \/ ShouldClose(proto, h.conn)
                  \/ kind = "resp" /\ real = Unknown /\ ~chunked /\ BodyAllowedForStatus(status)
  IN  [src |-> CASE chunked -> IF bodiless THEN "none" ELSE "chunked"
                 [] ~chunked /\ real = 0 -> "none"
                 [] ~chunked /\ real > 0 -> "limited"
                 [] OTHER -> IF close THEN "raw" ELSE "none",
       n |-> IF real > 0 THEN real ELSE 0,
       closing |-> close,
       hdr |-> chunked]
=============================================================================
