-------------------------------- MODULE Body --------------------------------
(***************************************************************************)
(* A message body from writer to reader: transferWriter writes the message *)
(* (Framing.tla), readTransfer prepares a body over a chunkedReader, an    *)
(* io.LimitedReader or the connection itself, and the user reads it in any *)
(* portions and closes it when he likes, on a server through a             *)
(* maxBytesReader.  The connection may break after any token; the chunks   *)
(* may come from another implementation, with extensions.                  *)
(*                                                                         *)
(* b.mu is held for a whole Read or Close, so calls follow one another;    *)
(* `call' is the one in progress, one turn of chunkedReader.Read's loop a  *)
(* step.                                                                   *)
(***************************************************************************)
EXTENDS Framing

CONSTANTS Messages,         \* the messages written
          Extensions,       \* lengths of chunk extensions, 0 among them
          MaxRead,          \* largest buffer passed to Read
          Limits,           \* limits of http.MaxBytesReader; -1 is no such reader
          MaxPost,          \* maxPostHandlerReadBytes
          ChunkAllowance,   \* the 16 of chunkedReader.beginChunk
          MaxExcess         \* its 16*1024

ASSUME BodyAssumption ==
  /\ Messages \subseteq Message
  /\ Extensions \subseteq Nat /\ 0 \in Extensions
  /\ MaxRead \in Nat \ {0} /\ MaxPost \in Nat \ {0}
  /\ Limits \subseteq Nat \cup {-1}
  /\ ChunkAllowance \in Nat /\ ChunkAllowance >= 3 /\ MaxExcess \in Nat

VARIABLES
  pc,       \* "write", "body", "header", "idle", "src": inside b.src.Read
  msg,      \* the message
  tw,       \* the transferWriter while it writes the body
  put,      \* bytes of the body it has written in chunks
  sent,     \* what was written: header, data, whether all of it and of what make
  wire,     \* the tokens not yet read
  b,        \* the body
  cr,       \* the chunkedReader
  mb,       \* the maxBytesReader
  call,     \* the Read or Close in progress
  taken,    \* ghost: every data token taken from the wire by this body
  out,      \* ghost: what the user was given
  ended,    \* ghost: the first final result of b.Read: "none", "eof", "err"
  over      \* ghost: chunk lines and CRLFs, chunks and data the chunkedReader accepted

vars == <<pc, msg, tw, put, sent, wire, b, cr, mb, call, taken, out, ended, over>>

NoCall == [op |-> "none", room |-> 0, got |-> 0, copied |-> 0]
NoWriter == [hasBody |-> FALSE, te |-> <<>>]
NoSent == [h |-> [cls |-> <<>>, tes |-> <<>>, conn |-> {}, trailer |-> "none"],
           data |-> 0, whole |-> FALSE, ext |-> 0, next |-> FALSE]

Init ==
  /\ pc = "write" /\ msg \in Messages /\ tw = NoWriter /\ put = 0
  /\ sent = NoSent /\ wire = <<>>
  /\ b = [src |-> "none", n |-> 0, hdr |-> FALSE, closing |-> FALSE, doEarlyClose |-> FALSE,
          sawEOF |-> FALSE, closed |-> FALSE, earlyClose |-> FALSE]
  /\ cr = [n |-> 0, err |-> "nil", checkEnd |-> FALSE, excess |-> 0]
  /\ mb \in [limit : Limits, n : {0}, err : {"nil"}]
  /\ mb.limit >= 0 => msg.kind = "req"
  /\ call = NoCall /\ taken = <<>> /\ out = <<>> /\ ended = "none"
  /\ over = [bytes |-> 0, chunks |-> 0, data |-> 0]

(* One of these transferWriters writes the header; a trailer that may not  *)
(* be one is an error before that.                                         *)
WriteHeader(writers) ==
  /\ \E t \in {s \in writers : s.trailer # "bad"}, ext \in Extensions :
       /\ ext > 0 => Chunked(t.te) /\ t.hasBody /\ t.n > 0
       /\ tw' = t
       /\ sent' = [NoSent EXCEPT !.h = WrittenHeader(msg, t), !.data = BytesWritten(t),
                                 !.ext = ext]
  /\ pc' = "body"
  /\ UNCHANGED <<msg, put, wire, b, cr, mb, call, taken, out, ended, over>>

WriteRequest  == pc = "write" /\ msg.kind = "req" /\ WriteHeader(RequestWriters(msg))
WriteResponse == pc = "write" /\ msg.kind = "resp" /\ WriteHeader(ResponseWriters(msg))

(* io.CopyBuffer reads k bytes of the body and writes them as a chunk.     *)
WriteChunk ==
  /\ pc = "body" /\ Chunked(tw.te) /\ tw.hasBody
  /\ \E k \in 1..(tw.n - put) :
       wire' = wire \o ChunkTokens(put, k, sent.ext) /\ put' = put + k
  /\ UNCHANGED <<pc, msg, tw, sent, b, cr, mb, call, taken, out, ended, over>>

(* The end of writeBody.  The next message follows only a message written  *)
(* in full that did not announce the end; the connection may break after   *)
(* any token of the body.                                                  *)
WriteEnd ==
  /\ pc = "body" /\ (Chunked(tw.te) /\ tw.hasBody => put = tw.n)
  /\ LET bytes == wire \o WrittenAtEnd(tw, sent.ext)
         whole == WriteSucceeds(tw)
         more  == whole /\ ~ShouldClose(msg.proto, sent.h.conn)
     IN  \/ /\ sent' = [sent EXCEPT !.whole = whole, !.next = more]
            /\ wire' = IF more THEN Append(bytes, NextMessage) ELSE bytes
         \/ \E k \in 0..(Len(bytes) - 1) : wire' = SubSeq(bytes, 1, k) /\ UNCHANGED sent
  /\ pc' = "header" /\ tw' = NoWriter /\ put' = 0
  /\ UNCHANGED <<msg, b, cr, mb, call, taken, out, ended, over>>

(* readTransfer after the header; a message it refuses is not read on.     *)
ReadHeader ==
  /\ pc = "header" /\ ~HeaderRefused(msg.proto, sent.h)
  /\ LET rt == ReadTransfer(msg.kind, msg.status, msg.method, msg.proto, sent.h)
     IN  b' = [b EXCEPT !.src = rt.src, !.n = rt.n, !.hdr = rt.hdr, !.closing = rt.closing,
                        !.doEarlyClose = msg.kind = "req"]
  /\ mb' = [mb EXCEPT !.n = mb.limit]
  /\ pc' = "idle"
  /\ UNCHANGED <<msg, tw, put, sent, wire, cr, call, taken, out, ended, over>>

(* The start line and the lines of the header are the written ones.  The   *)
(* server then sets doEarlyClose, a handler may wrap the body with         *)
(* MaxBytesReader.                                                         *)
ReadRequest  == msg.kind = "req" /\ ReadHeader
ReadResponse == msg.kind = "resp" /\ ReadHeader

-----------------------------------------------------------------------------
(* body.readLocked and its callers *)

First(e) == IF ended = "none" /\ e \in {"eof", "err"} THEN e ELSE ended

Within(k) == mb.limit < 0 \/ k <= mb.n

(* The user receives the tokens just read, with e; maxBytesReader gives at *)
(* most its limit and turns the byte beyond it into an error.              *)
Deliver(tokens, e) ==
  LET k      == Len(tokens)
      err    == IF Within(k) THEN e ELSE "toolarge"
  IN  /\ out' = out \o SubSeq(tokens, 1, IF Within(k) THEN k ELSE mb.n)
      /\ ended' = First(e)
      /\ mb' = IF mb.limit < 0 THEN mb
               ELSE [mb EXCEPT !.n = IF Within(k) THEN mb.n - k ELSE 0, !.err = err]

(* The room a drain gives the next src.Read: a copy buffer, and never more *)
(* than io.CopyN still wants.                                              *)
DrainRoom(copied) == IF b.doEarlyClose THEN Min({MaxRead, MaxPost - copied}) ELSE MaxRead

\* Mutant: the end of the connection is the end of the body.
ShortNever(e, n) == FALSE

(* io.ErrUnexpectedEOF: the connection ended before n bytes more came.     *)
Short(e, n) == e = "eof" /\ ~b.hdr /\ b.src = "limited" /\ n > 0

\* Mutant: the trailer, or the CRLF in its place, stays unread.
AfterTrailerLeft(w, good) == w

(* readTrailer *)
AfterTrailer(w, good) == IF good THEN Tail(w) ELSE w

(* The end of readLocked: src.Read returned e and the last got tokens of   *)
(* tk, leaving the wire w and n bytes to its LimitedReader.  A chunked     *)
(* body's end is followed by the trailer; a LimitedReader that ends early  *)
(* is an error, one that is used up is io.EOF at once.  Then the Read      *)
(* returns, or the copy of Close stops or goes on.                         *)
SrcReturns(e, got, w, tk, n) ==
  LET trailer == e = "eof" /\ b.hdr
      good    == trailer /\ w # <<>> /\ w[1] \in {CRLF, TrailerBlock}
      usedUp  == e = "nil" /\ got > 0 /\ b.src = "limited" /\ n = 0
      err     == CASE (trailer /\ ~good) \/ Short(e, n) -> "err"
                   [] usedUp -> "eof"
                   [] OTHER -> e
      bb      == [b EXCEPT !.n = n,
                           !.sawEOF = usedUp \/ (e = "eof" /\ (trailer => good)),
                           !.closed = trailer /\ ~good,
                           !.hdr = b.hdr /\ e # "eof"]
      copied  == call.copied + got
      enough  == b.doEarlyClose /\ copied = MaxPost
  IN  /\ wire' = AfterTrailer(w, good)
      /\ taken' = tk
      /\ CASE call.op = "read" ->
                /\ b' = bb /\ pc' = "idle" /\ call' = NoCall
                /\ Deliver(SubSeq(tk, Len(tk) - got + 1, Len(tk)), err)
           [] call.op = "drain" /\ (enough \/ err # "nil") ->
                /\ b' = [bb EXCEPT !.closed = TRUE, !.earlyClose = enough]
                /\ pc' = "idle" /\ call' = NoCall
                /\ ended' = IF ~enough /\ err = "err" THEN First(err) ELSE ended
                /\ UNCHANGED <<out, mb>>
           [] OTHER ->
                /\ b' = bb
                /\ call' = [call EXCEPT !.copied = copied, !.got = 0, !.room = DrainRoom(copied)]
                /\ UNCHANGED <<pc, out, ended, mb>>

(* A Read of k bytes, up to the call of src.Read.                          *)
Read(k) ==
  /\ pc = "idle" /\ mb.err = "nil"
  /\ IF b.src = "none" \/ b.closed \/ b.sawEOF
     THEN /\ Deliver(<<>>, IF b.src # "none" /\ b.closed THEN "closed" ELSE "eof")
          /\ UNCHANGED <<pc, call>>
     ELSE /\ pc' = "src"
          /\ call' = [NoCall EXCEPT !.op = "read",
                                    !.room = IF mb.limit < 0 THEN k ELSE Min({k, mb.n + 1})]
          /\ UNCHANGED <<out, ended, mb>>
  /\ UNCHANGED <<msg, tw, put, sent, wire, b, cr, taken, over>>

\* Mutant: a body that was not worth draining is closed like any other.
CloseSilently ==
  /\ pc = "idle" /\ b.src # "none" /\ ~b.closed
  /\ IF b.sawEOF \/ (~b.hdr /\ b.closing)
        \/ (b.doEarlyClose /\ b.src = "limited" /\ b.n > MaxPost)
     THEN b' = [b EXCEPT !.closed = TRUE] /\ UNCHANGED <<pc, call>>
     ELSE /\ pc' = "src"
          /\ call' = [NoCall EXCEPT !.op = "drain", !.room = DrainRoom(0)]
          /\ UNCHANGED b
  /\ UNCHANGED <<msg, tw, put, sent, wire, cr, mb, taken, out, ended, over>>

(* Close: nothing more to read, or not worth it, or drain the body.        *)
Close ==
  /\ pc = "idle" /\ b.src # "none" /\ ~b.closed
  /\ LET pointless == ~b.hdr /\ b.closing
         tooLong   == b.doEarlyClose /\ b.src = "limited" /\ b.n > MaxPost
     IN  IF b.sawEOF \/ pointless \/ tooLong
         THEN /\ b' = [b EXCEPT !.closed = TRUE,
                                !.earlyClose = ~b.sawEOF /\ ~pointless]
              /\ UNCHANGED <<pc, call>>
         ELSE /\ pc' = "src"
              /\ call' = [NoCall EXCEPT !.op = "drain", !.room = DrainRoom(0)]
              /\ UNCHANGED b
  /\ UNCHANGED <<msg, tw, put, sent, wire, cr, mb, taken, out, ended, over>>

-----------------------------------------------------------------------------
(* src.Read *)

(* An io.LimitedReader, or the connection itself.                          *)
SrcPlain ==
  /\ pc = "src" /\ b.src \in {"limited", "raw"}
  /\ LET most == Min({call.room, Len(wire)} \cup IF b.src = "limited" THEN {b.n} ELSE {})
     IN  \/ most = 0 /\ SrcReturns("eof", 0, wire, taken, b.n)
         \/ \E j \in 1..most :
              SrcReturns("nil", j, SubSeq(wire, j + 1, Len(wire)),
                         taken \o SubSeq(wire, 1, j), IF b.src = "limited" THEN b.n - j ELSE b.n)
  /\ UNCHANGED <<msg, tw, put, sent, cr, over>>

(* chunkedReader.Read returns: with its error, or before it would block.   *)
ChunkReturn ==
  /\ pc = "src" /\ b.src = "chunked"
  /\ \/ cr.err # "nil"
     \/ call.got > 0 /\ (cr.checkEnd \/ cr.n = 0)
     \/ ~cr.checkEnd /\ cr.n > 0 /\ call.room = 0
  /\ SrcReturns(cr.err, call.got, wire, taken, b.n)
  /\ UNCHANGED <<msg, tw, put, sent, cr, over>>

(* The token at hand, or none because the connection ended.                *)
Ahead == IF wire = <<>> THEN Token("none", 0, 0) ELSE wire[1]

Turn == pc = "src" /\ b.src = "chunked" /\ cr.err = "nil"

(* The wire ends, or has something else, where a CRLF, a chunk line or     *)
(* data must be: an error that stays.                                      *)
ChunkMalformed ==
  /\ Turn
  /\ \/ cr.checkEnd /\ Ahead # CRLF
     \/ ~cr.checkEnd /\ cr.n = 0 /\ Ahead.t # "size"
     \/ ~cr.checkEnd /\ cr.n > 0 /\ call.room > 0 /\ wire = <<>>
  /\ cr' = [cr EXCEPT !.err = "err"]
  /\ UNCHANGED <<pc, msg, tw, put, sent, wire, b, mb, call, taken, out, ended, over>>

ChunkEnd ==
  /\ Turn /\ cr.checkEnd /\ Ahead = CRLF
  /\ cr' = [cr EXCEPT !.checkEnd = FALSE]
  /\ wire' = Tail(wire)
  /\ over' = [over EXCEPT !.bytes = @ + 2]
  /\ UNCHANGED <<pc, msg, tw, put, sent, b, mb, call, taken, out, ended>>

\* Mutants: a chunk forgets the others, no allowance.
ExcessForgets(x, len, n) ==
  LET y == len + 2 - (ChunkAllowance + 2 * n) IN IF y > 0 THEN y ELSE 0

ExcessStrict(x, len, n) == LET y == x + len + 2 - 2 * n IN IF y > 0 THEN y ELSE 0

(* The excess after a chunk line of len bytes that announces n.            *)
Excess(x, len, n) ==
  LET y == x + len + 2 - (ChunkAllowance + 2 * n) IN IF y > 0 THEN y ELSE 0

(* beginChunk.  The last chunk is the end of the body even when it brings  *)
(* the excess over its bound.                                              *)
BeginChunk ==
  /\ Turn /\ ~cr.checkEnd /\ cr.n = 0 /\ Ahead.t = "size"
  /\ LET size   == Ahead.v
         excess == Excess(cr.excess, Ahead.len, size)
     IN  /\ cr' = [cr EXCEPT !.n = size, !.excess = excess,
                             !.err = CASE size = 0 -> "eof"
                                       [] size > 0 /\ excess > MaxExcess -> "err"
                                       [] OTHER -> "nil"]
         /\ over' = IF cr'.err = "nil"
                    THEN [bytes  |-> over.bytes + Ahead.len,
                          chunks |-> over.chunks + 1, data |-> over.data + size]
                    ELSE over
  /\ wire' = Tail(wire)
  /\ UNCHANGED <<pc, msg, tw, put, sent, b, mb, call, taken, out, ended>>

ChunkData ==
  /\ Turn /\ ~cr.checkEnd /\ cr.n > 0 /\ call.room > 0 /\ wire # <<>>
  /\ cr' = [cr EXCEPT !.n = @ - 1, !.checkEnd = cr.n = 1]
  /\ call' = [call EXCEPT !.room = @ - 1, !.got = @ + 1]
  /\ taken' = Append(taken, Ahead)
  /\ wire' = Tail(wire)
  /\ UNCHANGED <<pc, msg, tw, put, sent, b, mb, out, ended, over>>

Next ==
  \/ WriteRequest \/ WriteResponse \/ WriteChunk \/ WriteEnd \/ ReadRequest \/ ReadResponse
  \/ \E k \in 1..MaxRead : Read(k)
  \/ Close \/ SrcPlain
  \/ ChunkReturn \/ ChunkMalformed \/ ChunkEnd \/ BeginChunk \/ ChunkData

Spec == Init /\ [][Next]_vars

-----------------------------------------------------------------------------
(* Properties *)

(* The chunkedReader's account is not negative and its announced rest is   *)
(* a number; the positions and flags of a call have their types.           *)
TypeOK ==
  /\ pc \in {"write", "body", "header", "idle", "src"}
  /\ cr \in [n : Nat, err : {"nil", "eof", "err"}, checkEnd : BOOLEAN, excess : Nat]
  /\ over \in [bytes : Nat, chunks : Nat, data : Nat]

(* The messages whose sender breaks the framing himself: a tunnel, a       *)
(* request under an encoding that is not chunked, a body or chunked        *)
(* encoding where the status has no body, keep-alive in HTTP/1.0 with a    *)
(* body of unknown length or chunked encoding.                             *)
SenderUnframed ==
  \/ msg.method = "CONNECT"
  \/ msg.kind = "req" /\ msg.te # <<>> /\ ~Chunked(msg.te)
  \/ msg.kind = "resp" /\ ~BodyAllowedForStatus(msg.status)
     /\ (msg.body = "reader" \/ Chunked(msg.te))
  \/ /\ msg.kind = "resp" /\ msg.proto = 10 /\ msg.conn = "keep-alive"
     /\ (WriteLength(msg) = Unknown \/ Chunked(msg.te))

(* The writings of a response that Response.Write itself does not frame: a *)
(* body decompressed by the Transport, chunked encoding or a length        *)
(* without a Body, and chunked encoding in the answer to a HEAD request.   *)
WriterUnframed ==
  msg.kind = "resp" /\ \/ msg.uncompressed
                       \/ msg.body = "nil" /\ (Chunked(msg.te) \/ msg.cl > 0)
                       \/ Chunked(msg.te) /\ msg.method = "HEAD"

(* body.Read, readTrailer, Close and the server's reuse of a connection:   *)
(* when the end of a body was seen, or there is none, the wire stands at   *)
(* the next message, neither before nor behind it.                         *)
AtBoundary ==
  /\ pc = "idle" /\ ended # "err" /\ (b.sawEOF \/ b.src = "none")
  /\ sent.whole /\ ~SenderUnframed /\ ~WriterUnframed
  => wire = IF sent.next THEN <<NextMessage>> ELSE <<>>

(* A Close that returns without an error has read the body to its end,     *)
(* said so (earlyClose), or leaves a connection that will close.           *)
CloseAccounts ==
  b.closed /\ ended # "err" => b.sawEOF \/ b.earlyClose \/ b.closing

(* The user gets the bytes that were written, in order, and a clean io.EOF *)
(* only after all of them: a broken connection, a short or failing body of *)
(* the writer is never taken for a complete message, unless the message    *)
(* ends with its connection.                                               *)
EOFMeansAll ==
  ~SenderUnframed /\ ~WriterUnframed =>
    /\ IsPrefix(out, DataBytes(1, sent.data))
    /\ ended = "eof" /\ b.src # "raw" /\ mb.err # "toolarge"
         => out = DataBytes(1, sent.data)

(* A message of this package, or one whose chunks have no more overhead    *)
(* than its writer's, is read without an error when the connection holds.  *)
HonestAccepted ==
  sent.whole /\ sent.ext = 0 /\ ~SenderUnframed /\ ~WriterUnframed => ended # "err"

(* beginChunk's account: whatever chunks the sender makes, the overhead    *)
(* read stays within the bound, an allowance per chunk and twice the data. *)
OverheadBounded ==
  over.bytes <= MaxExcess + ChunkAllowance * over.chunks + 2 * over.data

(* MaxBytesReader: never more than the limit, and no complaint about a     *)
(* body that fits it.                                                      *)
LimitHolds ==
  mb.limit >= 0 => /\ Len(out) <= mb.limit
                   /\ mb.err = "toolarge" => Len(taken) > mb.limit /\ Len(out) = mb.limit

(* The types, Close and the limit of MaxBytesReader together.              *)
ReadSound == TypeOK /\ CloseAccounts /\ LimitHolds

(* Response.Write: a response of HTTP/1.1 that has a body for its reader   *)
(* says where the body ends, or that the connection will close.            *)
LengthOrClose ==
  /\ pc = "header" /\ msg.kind = "resp" /\ msg.proto >= 11 /\ ~msg.uncompressed
  /\ BodyAllowedForStatus(msg.status) /\ msg.method # "HEAD"
  => sent.h.cls # <<>> \/ sent.h.tes # <<>> \/ "close" \in sent.h.conn
=============================================================================
