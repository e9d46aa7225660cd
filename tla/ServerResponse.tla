--------------------------- MODULE ServerResponse ---------------------------
(***************************************************************************)
(* One exchange on a server connection (server.go: conn.serve, response,   *)
(* chunkWriter, expectContinueReader): the handler writes its header and   *)
(* body in any way the ResponseWriter allows, in a goroutine of its own it *)
(* may read the request body, and conn.serve decides whether the next      *)
(* request may be read from the same connection.                           *)
(*                                                                         *)
(* `w' is the response with its chunkWriter, what it has put on the wire   *)
(* and the request body as body.Close and io.CopyN see it (Body.tla has    *)
(* the body itself).  The wire is a sequence of items: an informational    *)
(* header, the final header, raw data, a chunk, the end of the chunks.     *)
(* The handler sets its header before it writes (a later change of a map   *)
(* that was already cloned has no effect).                                 *)
(***************************************************************************)
EXTENDS Framing

CONSTANTS Requests,        \* the requests served
          Headers,         \* the headers handlers set
          Codes,           \* status codes handlers pass to WriteHeader
          MaxWrite,        \* largest Write of a handler
          MaxWrites,       \* how many Writes and WriteHeaders it makes
          BufSize,         \* bufferBeforeChunkingSize
          MaxPost          \* maxPostHandlerReadBytes

(* What conn.readRequest makes of a request, and what a handler may set.    *)
(* "ok" says that the rest of the body arrives whole, "wrapped" that the   *)
(* handler replaced req.Body, "duplex" that it called EnableFullDuplex.    *)
Request ==
  [method : STRING, proto : {10, 11}, conn : {"", "close", "keep-alive"},
   expect : {"", "100-continue", "other"}, body : {"none", "limited", "chunked"},
   n : Nat, ok : BOOLEAN, wrapped : BOOLEAN, duplex : BOOLEAN]
HandlerHeader ==
  [cl : Nat \cup {Unknown}, te : {"", "identity", "chunked"},
   conn : {"", "close", "keep-alive"}, trailer : BOOLEAN]

ASSUME ResponseAssumption ==
  /\ Requests \subseteq Request /\ Headers \subseteq HandlerHeader
  /\ Codes \subseteq 100..999 /\ MaxWrite \in Nat /\ MaxWrites \in Nat
  /\ BufSize \in Nat \ {0} /\ MaxPost \in Nat \ {0}

VARIABLES
  rq,       \* the request: method, proto, conn, expect, body, n, ok, wrapped, duplex
  hh,       \* handlerHeader: cl, te, conn, trailer
  w,        \* the response
  pc,       \* "serve", "handler", "write", "finish", "decide", "reuse", "closed"
  rpc,      \* the goroutine that reads the request body: "idle", "continue", "read"
  keep,     \* server.doKeepAlives
  calls,    \* how many calls the handler made
  werr      \* conn.werr: a write to the connection has failed

vars == <<rq, hh, w, pc, rpc, keep, calls, werr>>

Item(t, n)    == [t |-> t, n |-> n, h |-> [cls |-> <<>>], status |-> 0]
FinalHeader(status, h) == [t |-> "hdr", n |-> 0, h |-> h, status |-> status]

BodyAllowed(s) == BodyAllowedForStatus(s.status)
IsHEAD         == rq.method = "HEAD"
HasBody        == rq.body # "none"
RequestCloses  == ShouldClose(rq.proto, {rq.conn})
Wants10KeepAlive == rq.proto = 10 /\ rq.conn = "keep-alive"
(* req.Body as conn.serve and the handler leave it.                        *)
Expecting == rq.expect = "100-continue" /\ rq.proto >= 11 /\ HasBody
BodyType  == CASE rq.wrapped -> "other"
               [] ~rq.wrapped /\ Expecting -> "expectContinueReader"
               [] OTHER -> "body"

Init ==
  /\ rq \in Requests /\ hh \in Headers
  /\ w = [wroteHeader |-> FALSE, status |-> 0, contentLength |-> Unknown, written |-> 0,
          closeAfterReply |-> FALSE, bodyLimitHit |-> FALSE, handlerDone |-> FALSE,
          canWriteContinue |-> FALSE, wroteContinue |-> FALSE, ecrSawEOF |-> FALSE,
          cwWroteHeader |-> FALSE, chunking |-> FALSE, buffered |-> 0, wire |-> <<>>,
          left |-> rq.n, sawEOF |-> FALSE, closed |-> FALSE, earlyClose |-> FALSE]
  /\ pc = "serve" /\ rpc = "idle" /\ keep \in BOOLEAN /\ calls = 0
  /\ werr = FALSE

-----------------------------------------------------------------------------
(* The request body *)

(* io.CopyN of k bytes from w.reqBody to io.Discard: what it returns, and  *)
(* the body after it.                                                      *)
CopyResult(s, k) ==
  CASE s.closed -> "closed"
    [] ~s.closed /\ s.sawEOF -> "eof"
    [] ~s.closed /\ ~s.sawEOF /\ s.left >= k -> "nil"
    [] OTHER -> IF rq.ok THEN "eof" ELSE "err"
AfterCopy(s, k) ==
  IF s.closed \/ s.sawEOF THEN s
  ELSE [s EXCEPT !.left = IF s.left > k THEN s.left - k ELSE 0,
                 !.sawEOF = rq.ok /\ (s.left < k \/ (s.left = k /\ rq.body = "limited"))]

(* body.Close with doEarlyClose set.                                       *)
CloseBody(s) ==
  LET pointless == rq.body = "limited" /\ RequestCloses
      tooLong   == rq.body = "limited" /\ s.left > MaxPost
      drained   == AfterCopy(s, MaxPost)
  IN  CASE ~HasBody \/ s.closed -> s
        [] HasBody /\ ~s.closed /\ (s.sawEOF \/ pointless) -> [s EXCEPT !.closed = TRUE]
        [] HasBody /\ ~s.closed /\ ~s.sawEOF /\ ~pointless /\ tooLong ->
             [s EXCEPT !.closed = TRUE, !.earlyClose = TRUE]
        [] OTHER -> [drained EXCEPT !.closed = TRUE, !.earlyClose = s.left >= MaxPost]

-----------------------------------------------------------------------------
(* chunkWriter *)

(* What writeHeader does about the rest of the request body: which error   *)
(* of the copy forces a close, and whether the rest is too big.            *)
Discards(s) ==
  CASE BodyType = "expectContinueReader" -> s.wroteContinue
    [] BodyType = "body" -> ~s.closed /\ ~(rq.body = "limited" /\ s.left >= MaxPost)
    [] OTHER -> TRUE
\* Mutant: whatever is left of the request body, the connection stays.
TooBigNever(s) == FALSE

TooBig(s) ==
  \/ BodyType = "body" /\ ~s.closed /\ rq.body = "limited" /\ s.left >= MaxPost
  \/ Discards(s) /\ CopyResult(s, MaxPost + 1) = "nil"
ConsumeBody(s) ==
  LET result == CopyResult(s, MaxPost + 1)
      copied == AfterCopy(s, MaxPost + 1)
  IN  CASE Discards(s) /\ result = "eof" -> CloseBody(copied)
        [] Discards(s) /\ result = "err" -> [copied EXCEPT !.closeAfterReply = TRUE]
        [] Discards(s) /\ result \in {"nil", "closed"} -> copied
        [] OTHER -> [s EXCEPT !.closeAfterReply = BodyType = "body" /\ s.closed /\ ~s.sawEOF]

(* writeHeader supplies the Content-Length itself when the handler is done *)
(* and has set nothing that could contradict it.                           *)
AutoLength(s, p) ==
  /\ s.handlerDone /\ ~hh.trailer /\ hh.te = "" /\ BodyAllowed(s)
  /\ hh.cl = Unknown /\ (~IsHEAD \/ p > 0)

(* The Connection fields sent: the handler's, unless it is deleted or      *)
(* replaced, and the server's own.                                         *)
ConnectionSent(closes, tooBig, stays10) ==
  LET deleted == closes /\ (~keep \/ hh.conn # "close")
  IN  ((IF deleted \/ tooBig THEN {} ELSE {hh.conn})
        \cup CASE tooBig \/ (deleted /\ rq.proto >= 11) -> {"close"}
               [] ~tooBig /\ ~(deleted /\ rq.proto >= 11) /\ stays10 /\ hh.conn = ""
                    -> {"keep-alive"}
               [] OTHER -> {}) \ {""}

(* writeHeader(p): the final header, with p bytes of body at hand.         *)
PutHeader(s, p) ==
  LET hasTE   == hh.te # ""
      auto    == AutoLength(s, p)
      length  == IF auto THEN p ELSE s.contentLength
      hasCL   == length # Unknown
      stays10 == Wants10KeepAlive /\ (IsHEAD \/ hasCL \/ ~BodyAllowed(s))
      told    == s.closeAfterReply
                   /\ ~(Wants10KeepAlive /\ keep /\ hh.cl # Unknown /\ hh.conn = "keep-alive")
      close1  == \/ told
                 \/ ~stays10 /\ (rq.proto < 11 \/ rq.conn = "close")
                 \/ hh.conn = "close" \/ ~keep
                 \/ BodyType = "expectContinueReader" /\ ~s.ecrSawEOF
      consume == HasBody /\ ~close1 /\ ~rq.duplex
      tooBig  == consume /\ TooBig(s)
      s1      == [s EXCEPT !.contentLength = length, !.closeAfterReply = close1]
      s2      == IF consume THEN ConsumeBody(s1) ELSE s1
      both    == hasCL /\ hasTE /\ hh.te # "identity"
      bodied  == ~IsHEAD /\ BodyAllowed(s) /\ ~(hasCL /\ ~both)
      identity == bodied /\ rq.proto >= 11 /\ hh.te = "identity"
      chunking == bodied /\ rq.proto >= 11 /\ ~identity
      close2  == s2.closeAfterReply \/ tooBig \/ identity \/ (bodied /\ rq.proto < 11)
      explicit == hh.cl # Unknown /\ BodyAllowed(s) /\ ~both /\ ~chunking
      h       == [cls |-> IF auto THEN <<p>> ELSE IF explicit THEN <<hh.cl>> ELSE <<>>,
                  tes |-> IF chunking THEN <<"chunked">> ELSE <<>>,
                  conn |-> ConnectionSent(close2, tooBig, stays10), trailer |-> "none"]
  IN  [s2 EXCEPT !.cwWroteHeader = TRUE, !.chunking = chunking, !.closeAfterReply = close2,
                 !.bodyLimitHit = s2.bodyLimitHit \/ tooBig,
                 !.wire = Append(s2.wire, FinalHeader(s.status, h))]

HeaderOut(s, p) == IF s.cwWroteHeader THEN s ELSE PutHeader(s, p)

(* chunkWriter.Write: a HEAD's body is eaten.                              *)
Put(s, p) ==
  LET s1 == HeaderOut(s, p)
  IN  IF IsHEAD \/ p = 0 THEN s1
      ELSE [s1 EXCEPT !.wire = Append(s1.wire, Item(IF s1.chunking THEN "chunk" ELSE "data", p))]

(* response.w, a bufio.Writer over the chunkWriter: Write and Flush.       *)
BufWrite(s, n) ==
  CASE s.buffered + n <= BufSize -> [s EXCEPT !.buffered = s.buffered + n]
    [] s.buffered + n > BufSize /\ s.buffered = 0 -> Put(s, n)
    [] OTHER -> LET full == [Put(s, BufSize) EXCEPT !.buffered = 0]
                    rest == s.buffered + n - BufSize
                IN  IF rest > BufSize THEN Put(full, rest) ELSE [full EXCEPT !.buffered = rest]
BufFlush(s) == IF s.buffered = 0 THEN s ELSE [Put(s, s.buffered) EXCEPT !.buffered = 0]

(* chunkWriter.close                                                       *)
CloseChunks(s) ==
  LET s1 == HeaderOut(s, 0)
  IN  IF s1.chunking THEN [s1 EXCEPT !.wire = Append(s1.wire, Item("end", 0))] ELSE s1

-----------------------------------------------------------------------------
(* response *)

(* WriteHeader of a final status: logical, nothing is sent.                *)
SetStatus(s, code) ==
  IF s.wroteHeader THEN s
  ELSE [s EXCEPT !.wroteHeader = TRUE, !.status = code,
                 !.contentLength = IF hh.cl >= 0 THEN hh.cl ELSE Unknown]

Informational(code) == code \in 100..199 \ {101}

(* conn.serve hands the request to the handler ...                         *)
Serve ==
  /\ pc = "serve" /\ rq.expect # "other"
  /\ pc' = "handler" /\ w' = [w EXCEPT !.canWriteContinue = Expecting]
  /\ UNCHANGED <<rq, hh, rpc, keep, calls, werr>>

(* ... or answers an expectation it does not know itself, and closes.      *)
SendExpectationFailed ==
  /\ pc = "serve" /\ rq.expect = "other"
  /\ pc' = "finish" /\ w' = [SetStatus(w, 417) EXCEPT !.contentLength = Unknown]
  /\ hh' = [hh EXCEPT !.conn = "close", !.cl = Unknown, !.te = "", !.trailer = FALSE]
  /\ UNCHANGED <<rq, rpc, keep, calls, werr>>

HandlerCall == pc = "handler" /\ calls < MaxWrites /\ calls' = calls + 1

WriteHeader(code) ==
  /\ HandlerCall /\ ~w.wroteHeader
  /\ w' = IF Informational(code)
          THEN [w EXCEPT !.canWriteContinue = w.canWriteContinue /\ code # 100,
                         !.wire = Append(w.wire, Item("1xx", code))]
          ELSE SetStatus(w, code)
  /\ UNCHANGED <<rq, hh, pc, rpc, keep, werr>>

(* Write first takes the right to write 100 Continue from the body reader, *)
(* under writeContinueMu ...                                               *)
StartWrite ==
  /\ HandlerCall
  /\ w' = [w EXCEPT !.canWriteContinue = FALSE]
  /\ pc' = "write"
  /\ UNCHANGED <<rq, hh, rpc, keep, werr>>

(* ... then writes n bytes, counted even when they are refused.            *)
Write(n) ==
  /\ pc = "write"
  /\ LET s1 == SetStatus(w, 200)
         s2 == [s1 EXCEPT !.written = s1.written + n]
     IN  w' = CASE n = 0 \/ ~BodyAllowed(s1) -> s1
                [] n > 0 /\ BodyAllowed(s1) /\ s1.contentLength \in 0..(s2.written - 1) -> s2
                [] OTHER -> BufWrite(s2, n)
  /\ pc' = "handler"
  /\ UNCHANGED <<rq, hh, rpc, keep, calls, werr>>

Flush ==
  /\ HandlerCall
  /\ w' = HeaderOut(BufFlush(SetStatus(w, 200)), 0)
  /\ UNCHANGED <<rq, hh, pc, rpc, keep, werr>>

(* The handler's reader of the body: expectContinueReader.Read decides to  *)
(* write 100 Continue ...                                                  *)
StartRead ==
  /\ pc \in {"handler", "write"} /\ rpc = "idle" /\ HasBody /\ ~w.closed
  /\ LET continue == Expecting /\ ~w.wroteContinue /\ w.canWriteContinue
     IN  /\ rpc' = IF continue THEN "continue" ELSE "read"
         /\ w' = [w EXCEPT !.wroteContinue = w.wroteContinue \/ continue]
  /\ UNCHANGED <<rq, hh, pc, keep, calls, werr>>

(* ... and writes it under writeContinueMu if that is still allowed.       *)
WriteContinue ==
  /\ rpc = "continue"
  /\ w' = IF w.canWriteContinue
          THEN [w EXCEPT !.canWriteContinue = FALSE, !.wire = Append(w.wire, Item("100", 100))]
          ELSE w
  /\ rpc' = "read"
  /\ UNCHANGED <<rq, hh, pc, keep, calls, werr>>

(* The body gives k bytes, io.EOF, or an error.                            *)
ReadBody ==
  /\ rpc = "read" /\ rpc' = "idle"
  /\ \/ \E k \in 1..w.left :
          LET eof == rq.ok /\ k = w.left /\ rq.body = "limited"
          IN  ~w.closed /\ w' = [w EXCEPT !.left = w.left - k, !.sawEOF = eof,
                                          !.ecrSawEOF = w.ecrSawEOF \/ (Expecting /\ eof)]
     \/ /\ w.left = 0 /\ rq.ok /\ ~w.closed
        /\ w' = [w EXCEPT !.sawEOF = TRUE, !.ecrSawEOF = Expecting]
     \/ /\ w.closed \/ (w.left = 0 /\ ~rq.ok)
        /\ UNCHANGED w
  /\ UNCHANGED <<rq, hh, pc, keep, calls, werr>>

(* A MaxBytesReader around the body met its limit: requestTooLarge.        *)
ReadTooLarge ==
  /\ rpc = "read" /\ rq.wrapped /\ w.left > 0 /\ ~w.closed /\ rpc' = "idle"
  /\ w' = [w EXCEPT !.left = @ - 1, !.closeAfterReply = TRUE, !.bodyLimitHit = TRUE,
                    !.sawEOF = rq.ok /\ w.left = 1 /\ rq.body = "limited"]
  /\ hh' = IF w.wroteHeader THEN hh ELSE [hh EXCEPT !.conn = "close"]
  /\ UNCHANGED <<rq, pc, keep, calls, werr>>

(* The handler closes the request body.                                    *)
CloseRequestBody ==
  /\ HandlerCall /\ HasBody /\ rpc = "idle" /\ ~w.closed
  /\ w' = CloseBody(w)
  /\ UNCHANGED <<rq, hh, pc, rpc, keep, werr>>

(* The handler waits for its reader of the body before it returns.         *)
HandlerReturns ==
  /\ pc = "handler" /\ rpc = "idle"
  /\ pc' = "finish"
  /\ UNCHANGED <<rq, hh, w, rpc, keep, calls, werr>>

\* Mutant: what is buffered is not flushed.
FinishUnflushed ==
  /\ pc = "finish"
  /\ w' = CloseBody(CloseChunks(SetStatus([w EXCEPT !.handlerDone = TRUE], 200)))
  /\ werr' \in BOOLEAN
  /\ pc' = "decide"
  /\ UNCHANGED <<rq, hh, rpc, keep, calls>>

(* finishRequest.  Its last flush fails if any write before it has; what   *)
(* the wire holds is then not what arrived.                                *)
Finish ==
  /\ pc = "finish"
  /\ LET s == [w EXCEPT !.handlerDone = TRUE]
     IN  w' = CloseBody(CloseChunks(BufFlush(SetStatus(s, 200))))
  /\ werr' \in BOOLEAN
  /\ pc' = "decide"
  /\ UNCHANGED <<rq, hh, rpc, keep, calls>>

\* Mutant: a short body does not matter.
ShouldReuseShort(s) == ~s.closeAfterReply /\ ~werr /\ ~(BodyType = "body" /\ s.earlyClose)

ShouldReuseConnection(s) ==
  /\ ~s.closeAfterReply
  /\ ~IsHEAD /\ s.contentLength # Unknown /\ BodyAllowed(s) => s.contentLength = s.written
  /\ ~werr
  /\ ~(BodyType = "body" /\ s.earlyClose)

Decide ==
  /\ pc = "decide"
  /\ pc' = IF ShouldReuseConnection(w) /\ rq.expect # "other" /\ keep THEN "reuse" ELSE "closed"
  /\ UNCHANGED <<rq, hh, w, rpc, keep, calls, werr>>

(* SetKeepAlivesEnabled(false) or Shutdown.                                *)
KeepAlivesOff ==
  /\ keep /\ pc \notin {"reuse", "closed"}
  /\ keep' = FALSE
  /\ UNCHANGED <<rq, hh, w, pc, rpc, calls, werr>>

Next ==
  \/ Serve \/ SendExpectationFailed \/ \E code \in Codes : WriteHeader(code)
  \/ StartWrite \/ (\E n \in 0..MaxWrite : Write(n)) \/ Flush
  \/ StartRead \/ WriteContinue \/ ReadBody \/ ReadTooLarge \/ CloseRequestBody
  \/ HandlerReturns \/ Finish \/ Decide \/ KeepAlivesOff

Spec == Init /\ [][Next]_vars

-----------------------------------------------------------------------------
(* Properties *)

TypeOK ==
  /\ pc \in {"serve", "handler", "write", "finish", "decide", "reuse", "closed"}
  /\ rpc \in {"idle", "continue", "read"}
  /\ w.left \in 0..rq.n /\ w.buffered \in 0..BufSize
  /\ w.contentLength >= Unknown

Final == {i \in DOMAIN w.wire : w.wire[i].t = "hdr"}
AfterHeader == SubSeq(w.wire, Min(Final) + 1, Len(w.wire))
(* The bytes of the body an item holds, and the items 1 to i.              *)
BodyBytes(x) == IF x.t \in {"data", "chunk"} THEN x.n ELSE 0
Bytes(items) ==
  LET sum[i \in 0..Len(items)] == IF i = 0 THEN 0 ELSE sum[i - 1] + BodyBytes(items[i])
  IN  sum
Amount(items) == Bytes(items)[Len(items)]
(* The body as the client's readTransfer sees it.                          *)
Client ==
  LET hdr == w.wire[Min(Final)]
  IN  ReadTransfer("resp", hdr.status, rq.method, rq.proto, hdr.h)
(* The client finds the end of the body just where the response ends.      *)
ClientAligned ==
  CASE Client.src = "none"    -> AfterHeader = <<>>
    [] Client.src = "limited" -> /\ Amount(AfterHeader) = Client.n
                                 /\ \A i \in 1..Len(AfterHeader) : AfterHeader[i].t = "data"
    [] Client.src = "chunked" -> /\ AfterHeader # <<>> /\ Last(AfterHeader).t = "end"
                                 /\ \A i \in 1..(Len(AfterHeader) - 1) : AfterHeader[i].t = "chunk"
    [] OTHER -> FALSE

(* canWriteContinue and writeContinueMu "together synchronize the body     *)
(* reader (the expectContinueReader, which wants to write 100 Continue)    *)
(* against the main writer": no 100 Continue behind the final header,      *)
(* where the client takes it for a part of the body or for the next        *)
(* response.  The code does not keep it: a Flush sends the header and      *)
(* leaves the reader its right to write.                                   *)
NoLateContinue ==
  \A i, j \in DOMAIN w.wire : w.wire[i].t = "100" /\ w.wire[j].t = "hdr" => i < j

(* The next request is read only from behind the body of this one.         *)
RequestConsumed == pc = "reuse" /\ HasBody => w.sawEOF

(* writeHeader, shouldReuseConnection: the connection is kept only when    *)
(* the client finds the end of this response exactly where the next one    *)
(* will start, and the server the next request, that is, when it has read  *)
(* the body of this one to its end.  Two exceptions.  A handler that       *)
(* wrapped req.Body may have had 100 Continue written behind its header,   *)
(* and the connection is kept with the client out of step; unless the body *)
(* is wrapped such a response ends its connection.  And the request is not *)
(* known to be consumed if the handler wrapped req.Body or asked for full  *)
(* duplex.                                                                 *)
ReuseInSync ==
  /\ TypeOK
  /\ pc = "reuse" /\ (rq.wrapped => NoLateContinue) => Cardinality(Final) = 1 /\ ClientAligned
  /\ ~rq.wrapped /\ ~rq.duplex => RequestConsumed

(* Every response has one final header, and every byte of the body the     *)
(* handler wrote and was not refused reaches the wire behind it, unless    *)
(* the connection failed.                                                  *)
NothingLost ==
  pc \in {"decide", "reuse", "closed"} /\ ~werr =>
    /\ Cardinality(Final) = 1 /\ w.buffered = 0
    /\ ~IsHEAD /\ (w.contentLength = Unknown \/ w.written <= w.contentLength)
         => Amount(AfterHeader) = w.written

(* A connection the server closes was announced to a client of HTTP/1.1 as *)
(* closing, unless it failed, the handler broke its own Content-Length,    *)
(* the body was left unread in full duplex, the rest of a body that the    *)
(* handler closed was just maxPostHandlerReadBytes long, or keep-alives    *)
(* went off after the header was written.  (A client of 1.0 may be told    *)
(* keep-alive.)                                                            *)
CloseAnnounced ==
  /\ pc = "closed" /\ ~werr /\ rq.proto >= 11 /\ keep /\ ~rq.duplex
  /\ w.contentLength \in {Unknown, w.written} /\ ~(w.sawEOF /\ w.earlyClose)
  => Client.closing

=============================================================================
