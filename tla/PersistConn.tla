----------------------------- MODULE PersistConn -----------------------------
(***************************************************************************)
(* One HTTP/1 connection of http.Transport (persistConn in                 *)
(* src/http/transport.go) and the requests that use it one after another.  *)
(*                                                                         *)
(* Goroutines.  roundTrip of every request r (rt[r]), the readLoop (rl,    *)
(* with the locals of the current iteration in cur), the writeLoop (wl),   *)
(* and the caller who reads the response body (ub[r]).  One action is one  *)
(* critical section or one channel operation; a step on an unbuffered      *)
(* channel moves sender and receiver together.                             *)
(*                                                                         *)
(* The pool is the variable holder: the request that was given the         *)
(* connection, Idle or Out.  ConnPool is about the pool itself.            *)
(*                                                                         *)
(* The server answers a request at any time after its first byte was       *)
(* written, closes its side at any time, and sends nothing unasked.  The   *)
(* content of messages is left out, but for whose response it is, whether  *)
(* it has a body and bytes of it are unread, whether it keeps the          *)
(* connection alive, and whether it switches protocols.  Informational     *)
(* responses are part of RLRead, the wait for one is part of WLWrite.      *)
(***************************************************************************)
EXTENDS Naturals, Sequences

CONSTANTS
  Reqs,                  \* the requests, each sent at most once
  Idle, Out, NoOne,      \* not requests
  ResponseHeaderTimeout, \* whether Transport.ResponseHeaderTimeout is positive
  Upgrade,               \* whether a response may switch protocols (101)
  CancelChans            \* how each request may be canceled: Request.Cancel, the context

Channels == {"Cancel", "Context"}

\* Who else closes a connection.
Loops == {"readLoop", "writeLoop", "pool", "callerOwnsConn"}

ASSUME PersistConnAssumption ==
  /\ Idle # Out
  /\ {Idle, Out, NoOne} \cap (Reqs \cup Loops) = {} /\ Reqs \cap Loops = {}
  /\ ResponseHeaderTimeout \in BOOLEAN
  /\ Upgrade \in BOOLEAN
  /\ CancelChans \in [Reqs -> SUBSET Channels]

VARIABLES
  holder,      \* who was given the connection by the pool
  closedBy,    \* who closed it first (pc.closed # nil), or NoOne
  canceledBy,  \* the request whose cancellation set pc.canceledErr
  expected,    \* pc.numExpectedResponses
  writech,     \* pc.writech, capacity 1
  reqch,       \* pc.reqch, capacity 1
  writeErrCh,  \* pc.writeErrCh, capacity 1
  rt,          \* where roundTrip(r) stands
  canceler,    \* t.reqCanceler[r]: none, that of getConn, or pc.cancelRequest
  ctxDone,     \* the cancel channels of r that are closed
  listen,      \* the cancel channels roundTrip(r) still listens on
  canceled,    \* the local canceled of roundTrip(r)
  closeSeen,   \* the requests whose roundTrip has seen closech closed
  wrCh,        \* the write result on its way to roundTrip(r)
  timer,       \* the requests whose response-header timer runs
  wl, wreq, werr, \* the writeLoop, its request and the result of the write
  rl, cur,     \* the readLoop and its locals
  ub,          \* where the caller stands with the response body
  bodyCh,      \* waitForBodyRead, capacity 2
  sent,        \* the requests of which the server may have seen something
  wire,        \* the responses on their way to the client
  unread,      \* whose response body has unread bytes, or NoOne
  answered,    \* the requests the server has answered
  srvEOF       \* whether the server has closed its side

connVars == <<holder, closedBy, canceledBy, expected>>
chanVars == <<writech, reqch, writeErrCh>>
rtVars   == <<rt, canceler, ctxDone, listen, canceled, closeSeen, wrCh, timer>>
wlVars   == <<wl, wreq, werr>>
rlVars   == <<rl, cur>>
bodyVars == <<ub, bodyCh>>
srvVars  == <<sent, wire, unread, answered, srvEOF>>
vars == <<connVars, chanVars, rtVars, wlVars, rlVars, bodyVars, srvVars>>

Trips   == {"new", "got", "entered", "expects", "wrote", "select", "map",
            "answered", "failed"}
Writers == {"select", "writing", "report", "answer", "close", "done"}
Readers == {"peek", "check", "reqch", "read", "sendErr", "replace",
            "wroteRequest", "put", "park", "sendResp", "body", "eofc", "exit", "close",
            "remove", "done"}
Bodies  == {"none", "open", "broken", "waitEOF", "waitClose", "closed"}
Closers == Reqs \cup Loops
Results == {"none", "ok", "err"}
Locals  == [req : Reqs \cup {NoOne}, err : BOOLEAN, alive : BOOLEAN,
            replaced : BOOLEAN, hasBody : BOOLEAN, bodyEOF : BOOLEAN,
            callerOwnsConn : BOOLEAN]

TypeOK ==
  /\ holder \in Reqs \cup {Idle, Out}
  /\ closedBy \in Closers \cup {NoOne}
  /\ canceledBy \in Reqs \cup {NoOne}
  /\ expected \in 0 .. 1
  /\ writech \in Seq(Reqs) /\ Len(writech) <= 1
  /\ reqch \in Seq(Reqs) /\ Len(reqch) <= 1
  /\ writeErrCh \in Results
  /\ rt \in [Reqs -> Trips]
  /\ canceler \in [Reqs -> {"none", "getConn", "pc"}]
  /\ ctxDone \in [Reqs -> SUBSET Channels]
  /\ listen \in [Reqs -> SUBSET Channels]
  /\ canceled \subseteq Reqs /\ closeSeen \subseteq Reqs /\ timer \subseteq Reqs
  /\ wrCh \in [Reqs -> Results]
  /\ wl \in Writers /\ wreq \in Reqs \cup {NoOne} /\ werr \in BOOLEAN
  /\ rl \in Readers /\ cur \in Locals
  /\ ub \in [Reqs -> Bodies]
  /\ bodyCh \in Seq(BOOLEAN) /\ Len(bodyCh) <= 2
  /\ sent \subseteq Reqs /\ answered \subseteq sent
  /\ wire \in Seq(Reqs) /\ unread \in Reqs \cup {NoOne}
  /\ srvEOF \in BOOLEAN

newIteration == [req |-> NoOne, err |-> FALSE, alive |-> TRUE, replaced |-> FALSE,
                 hasBody |-> FALSE, bodyEOF |-> FALSE, callerOwnsConn |-> FALSE]

Init ==
  /\ holder = Idle /\ closedBy = NoOne /\ canceledBy = NoOne /\ expected = 0
  /\ writech = <<>> /\ reqch = <<>> /\ writeErrCh = "none"
  /\ rt = [r \in Reqs |-> "new"]
  /\ canceler = [r \in Reqs |-> "none"]
  /\ ctxDone = [r \in Reqs |-> {}] /\ listen = CancelChans
  /\ canceled = {} /\ closeSeen = {} /\ timer = {}
  /\ wrCh = [r \in Reqs |-> "none"]
  /\ wl = "select" /\ wreq = NoOne /\ werr = FALSE
  /\ rl = "peek" /\ cur = newIteration
  /\ ub = [r \in Reqs |-> "none"] /\ bodyCh = <<>>
  /\ sent = {} /\ wire = <<>> /\ unread = NoOne /\ answered = {} /\ srvEOF = FALSE

closed == closedBy # NoOne

\* closeLocked leaves the socket open when the connection was handed over.
socketClosed == closed /\ closedBy # "callerOwnsConn"

\* pc.close: only the first close counts.
closeBy(x) == closedBy' = IF closed THEN closedBy ELSE x

\* rc.callerGone is closed: roundTrip has returned.
gone(r) == rt[r] \in {"answered", "failed"}

\* setReqCanceler, replaceReqCanceler
setCanceler(r, fn) == canceler' = [canceler EXCEPT ![r] = fn]

\* Mutant: pc.cancelRequest runs whether or not it is still registered.
cancelRequestAlways(r) == setCanceler(r, "none") /\ canceledBy' = r /\ closeBy(r)

\* Mutant: the canceler is dropped and not called.
cancelRequestDrops(r) == setCanceler(r, "none") /\ UNCHANGED <<canceledBy, closedBy>>

\* t.cancelRequest: the canceler runs once; pc.cancelRequest closes.
cancelRequest(r) ==
  /\ setCanceler(r, "none")
  /\ IF canceler[r] = "pc"
     THEN canceledBy' = r /\ closeBy(r)
     ELSE UNCHANGED <<canceledBy, closedBy>>

moveTrip(r, to) == rt' = [rt EXCEPT ![r] = to]

-----------------------------------------------------------------------------
(***************************************************************************)
(* The pool.  queueForIdleConn skips a broken connection.                  *)
(***************************************************************************)
deliver(r) ==
  /\ holder' = r
  /\ moveTrip(r, "got")
  /\ setCanceler(r, "getConn")

GetConn(r) ==
  /\ rt[r] = "new"
  /\ holder = Idle
  /\ ~closed
  /\ deliver(r)
  /\ UNCHANGED <<closedBy, canceledBy, expected, chanVars, ctxDone, listen,
                 canceled, closeSeen, wrCh, timer, wlVars, rlVars, bodyVars,
                 srvVars>>

\* CloseIdleConnections, the idle timer or an eviction.
PoolClose ==
  /\ holder = Idle
  /\ ~closed
  /\ holder' = Out
  /\ closeBy("pool")
  /\ UNCHANGED <<canceledBy, expected, chanVars, rtVars, wlVars, rlVars,
                 bodyVars, srvVars>>

-----------------------------------------------------------------------------
(***************************************************************************)
(* persistConn.roundTrip.                                                  *)
(***************************************************************************)
\* The canceler of getConn is still there: this Transport has no method by
\* which anyone else could take it away.
RTEnter(r) ==
  /\ rt[r] = "got"
  /\ moveTrip(r, "entered")
  /\ setCanceler(r, "pc")
  /\ UNCHANGED <<connVars, chanVars, ctxDone, listen, canceled, closeSeen,
                 wrCh, timer, wlVars, rlVars, bodyVars, srvVars>>

RTExpect(r) ==
  /\ rt[r] = "entered"
  /\ moveTrip(r, "expects")
  /\ expected' = expected + 1
  /\ UNCHANGED <<holder, closedBy, canceledBy, chanVars, canceler, ctxDone,
                 listen, canceled, closeSeen, wrCh, timer, wlVars, rlVars,
                 bodyVars, srvVars>>

RTSendWrite(r) ==
  /\ rt[r] = "expects"
  /\ writech = <<>>
  /\ writech' = <<r>>
  /\ moveTrip(r, "wrote")
  /\ UNCHANGED <<connVars, reqch, writeErrCh, canceler, ctxDone, listen,
                 canceled, closeSeen, wrCh, timer, wlVars, rlVars, bodyVars,
                 srvVars>>

RTSendReq(r) ==
  /\ rt[r] = "wrote"
  /\ reqch = <<>>
  /\ reqch' = <<r>>
  /\ moveTrip(r, "select")
  /\ UNCHANGED <<connVars, writech, writeErrCh, canceler, ctxDone, listen,
                 canceled, closeSeen, wrCh, timer, wlVars, rlVars, bodyVars,
                 srvVars>>

\* case err := <-writeErrCh
RTWritten(r) ==
  /\ rt[r] = "select"
  /\ wrCh[r] # "none"
  /\ wrCh' = [wrCh EXCEPT ![r] = "none"]
  /\ IF wrCh[r] = "err"
     THEN closeBy(r) /\ moveTrip(r, "map") /\ UNCHANGED timer
     ELSE /\ timer' = timer \cup (IF ResponseHeaderTimeout THEN {r} ELSE {})
          /\ UNCHANGED <<closedBy, rt>>
  /\ UNCHANGED <<holder, canceledBy, expected, chanVars, canceler, ctxDone,
                 listen, canceled, closeSeen, wlVars, rlVars, bodyVars, srvVars>>

\* case <-pcClosed: without a canceler the response is on its way.
RTClosed(r) ==
  /\ rt[r] = "select"
  /\ closed
  /\ r \notin closeSeen
  /\ closeSeen' = closeSeen \cup {r}
  /\ IF r \in canceled
     THEN moveTrip(r, "map") /\ UNCHANGED canceler
     ELSE IF canceler[r] # "none"
          THEN moveTrip(r, "map") /\ setCanceler(r, "none")
          ELSE UNCHANGED <<rt, canceler>>
  /\ UNCHANGED <<connVars, chanVars, ctxDone, listen, canceled, wrCh, timer,
                 wlVars, rlVars, bodyVars, srvVars>>

\* case <-respHeaderTimer
RTTimeout(r) ==
  /\ rt[r] = "select"
  /\ r \in timer
  /\ closeBy(r)
  /\ moveTrip(r, "failed")
  /\ setCanceler(r, "none")
  /\ UNCHANGED <<holder, canceledBy, expected, chanVars, ctxDone, listen,
                 canceled, closeSeen, wrCh, timer, wlVars, rlVars, bodyVars,
                 srvVars>>

\* case <-cancelChan, case <-ctxDoneChan
RTCancel(r) ==
  /\ rt[r] = "select"
  /\ \E c \in ctxDone[r] \cap listen[r] :
       listen' = [listen EXCEPT ![r] = IF c = "Context" THEN {} ELSE @ \ {c}]
  /\ canceled' = IF canceler[r] # "none" THEN canceled \cup {r} ELSE canceled \ {r}
  /\ cancelRequest(r)
  /\ UNCHANGED <<holder, expected, chanVars, rt, ctxDone, closeSeen, wrCh, timer,
                 wlVars, rlVars, bodyVars, srvVars>>

\* mapRoundTripError waits for the writeLoop; the deferred calls follow.
RTMapError(r) ==
  /\ rt[r] = "map"
  /\ wl = "done"
  /\ moveTrip(r, "failed")
  /\ setCanceler(r, "none")
  /\ UNCHANGED <<connVars, chanVars, ctxDone, listen, canceled, closeSeen,
                 wrCh, timer, wlVars, rlVars, bodyVars, srvVars>>

RoundTrip(r) ==
  \/ RTEnter(r)
  \/ RTExpect(r)
  \/ RTSendWrite(r)
  \/ RTSendReq(r)
  \/ RTWritten(r)
  \/ RTClosed(r)
  \/ RTCancel(r)
  \/ RTMapError(r)

\* The caller cancels the request, whatever it is doing.
UserCancel(r) ==
  /\ rt[r] # "new"
  /\ \E c \in CancelChans[r] \ ctxDone[r] :
       ctxDone' = [ctxDone EXCEPT ![r] = @ \cup {c}]
  /\ UNCHANGED <<connVars, chanVars, rt, canceler, listen, canceled, closeSeen,
                 wrCh, timer, wlVars, rlVars, bodyVars, srvVars>>

-----------------------------------------------------------------------------
(***************************************************************************)
(* persistConn.writeLoop.                                                  *)
(***************************************************************************)
WLTake ==
  /\ wl = "select"
  /\ writech # <<>>
  /\ wl' = "writing"
  /\ wreq' = Head(writech)
  /\ writech' = Tail(writech)
  /\ sent' = sent \cup {Head(writech)}
  /\ UNCHANGED <<connVars, reqch, writeErrCh, rtVars, werr, rlVars, bodyVars,
                 wire, unread, answered, srvEOF>>

WLClosed ==
  /\ wl = "select"
  /\ closed
  /\ wl' = "done"
  /\ UNCHANGED <<connVars, chanVars, rtVars, wreq, werr, rlVars, bodyVars, srvVars>>

\* Request.write and Flush end; on a closed socket only with an error.
WLWrite ==
  /\ wl = "writing"
  /\ \E e \in BOOLEAN : (socketClosed => e) /\ werr' = e
  /\ wl' = "report"
  /\ UNCHANGED <<connVars, chanVars, rtVars, wreq, rlVars, bodyVars, srvVars>>

WLReport ==
  /\ wl = "report"
  /\ writeErrCh = "none"
  /\ writeErrCh' = IF werr THEN "err" ELSE "ok"
  /\ wl' = "answer"
  /\ UNCHANGED <<connVars, writech, reqch, rtVars, wreq, werr, rlVars, bodyVars,
                 srvVars>>

\* wr.ch <- err
WLAnswer ==
  /\ wl = "answer"
  /\ wrCh' = [wrCh EXCEPT ![wreq] = IF werr THEN "err" ELSE "ok"]
  /\ wl' = IF werr THEN "close" ELSE "select"
  /\ UNCHANGED <<connVars, chanVars, rt, canceler, ctxDone, listen, canceled,
                 closeSeen, timer, wreq, werr, rlVars, bodyVars, srvVars>>

\* After an error: pc.close, and the deferred close of writeLoopDone.
WLClose ==
  /\ wl = "close"
  /\ wl' = "done"
  /\ closeBy("writeLoop")
  /\ UNCHANGED <<holder, canceledBy, expected, chanVars, rtVars, wreq, werr,
                 rlVars, bodyVars, srvVars>>

WriteLoop == WLTake \/ WLClosed \/ WLReport \/ WLAnswer \/ WLClose

-----------------------------------------------------------------------------
(***************************************************************************)
(* persistConn.readLoop.                                                   *)
(***************************************************************************)
\* Peek(1) returns on a first byte, on EOF or when the connection is closed.
RLPeek ==
  /\ rl = "peek"
  /\ LET bytes == wire # <<>> \/ unread # NoOne
     IN  \E err \in BOOLEAN :
           /\ IF err THEN closed \/ (srvEOF /\ ~bytes) ELSE bytes
           /\ cur' = [newIteration EXCEPT !.err = err]
  /\ rl' = "check"
  /\ UNCHANGED <<connVars, chanVars, rtVars, wlVars, bodyVars, srvVars>>

\* Nothing is expected: readLoopPeekFailLocked.
RLCheck ==
  /\ rl = "check"
  /\ IF expected = 0
     THEN rl' = "exit" /\ closeBy("readLoop")
     ELSE rl' = "reqch" /\ UNCHANGED closedBy
  /\ UNCHANGED <<holder, canceledBy, expected, chanVars, rtVars, wlVars, cur,
                 bodyVars, srvVars>>

RLReceive ==
  /\ rl = "reqch"
  /\ reqch # <<>>
  /\ cur' = [cur EXCEPT !.req = Head(reqch)]
  /\ reqch' = Tail(reqch)
  /\ rl' = IF cur.err THEN "sendErr" ELSE "read"
  /\ UNCHANGED <<connVars, writech, writeErrCh, rtVars, wlVars, bodyVars, srvVars>>

\* readResponse fails: malformed, too many 1xx, connection closed meanwhile.
RLReadError ==
  /\ rl = "read"
  /\ rl' = "sendErr"
  /\ UNCHANGED <<connVars, chanVars, rtVars, wlVars, cur, bodyVars, srvVars>>

\* ... or returns a final response.  bodyIsWritable means protocols switch.
RLRead ==
  /\ rl = "read"
  /\ wire # <<>>
  /\ wire' = Tail(wire)
  /\ expected' = expected - 1
  /\ \E keepAlive, hasBody, switch \in BOOLEAN :
       /\ switch => Upgrade /\ ~keepAlive /\ ~hasBody
       /\ cur' = [cur EXCEPT !.alive = keepAlive, !.hasBody = hasBody,
                             !.callerOwnsConn = switch]
       /\ rl' = IF hasBody THEN "sendResp" ELSE "replace"
       /\ unread' = IF hasBody THEN cur.req ELSE NoOne
  /\ UNCHANGED <<holder, closedBy, canceledBy, chanVars, rtVars, wlVars,
                 bodyVars, sent, answered, srvEOF>>

\* Mutant: the send does not watch rc.callerGone.
RLSendErrBlocks ==
  /\ rl = "sendErr"
  /\ rt[cur.req] = "select"
  /\ moveTrip(cur.req, "map")
  /\ rl' = "exit"
  /\ UNCHANGED <<connVars, chanVars, canceler, ctxDone, listen, canceled,
                 closeSeen, wrCh, timer, wlVars, cur, bodyVars, srvVars>>

\* rc.ch <- responseAndError{err: err}
RLSendErr ==
  /\ rl = "sendErr"
  /\ \/ rt[cur.req] = "select" /\ moveTrip(cur.req, "map")
     \/ gone(cur.req) /\ UNCHANGED rt
  /\ rl' = "exit"
  /\ UNCHANGED <<connVars, chanVars, canceler, ctxDone, listen, canceled,
                 closeSeen, wrCh, timer, wlVars, cur, bodyVars, srvVars>>

nextIteration(alive) == IF alive THEN "peek" ELSE "exit"

afterRecycle(alive) == IF ~cur.hasBody THEN "sendResp"
                       ELSE IF cur.bodyEOF THEN "eofc" ELSE nextIteration(alive)

\* Mutant: a body closed before its end does not prevent the reuse.
RLReplaceNoEOF ==
  /\ rl = "replace"
  /\ setCanceler(cur.req, "none")
  /\ \E sawEOF \in {FALSE, srvEOF} :
       LET again == cur.alive /\ ~sawEOF
       IN  /\ cur' = [cur EXCEPT !.replaced = canceler[cur.req] # "none",
                                 !.alive = again]
           /\ rl' = IF again THEN "wroteRequest" ELSE afterRecycle(FALSE)
  /\ UNCHANGED <<connVars, chanVars, rt, ctxDone, listen, canceled, closeSeen,
                 wrCh, timer, wlVars, bodyVars, srvVars>>

\* replaceReqCanceler(key, nil), and the first tests before a reuse.
RLReplace ==
  /\ rl = "replace"
  /\ setCanceler(cur.req, "none")
  /\ \E sawEOF \in {FALSE, srvEOF} :
       LET again == cur.alive /\ (cur.hasBody => cur.bodyEOF) /\ ~sawEOF
       IN  /\ cur' = [cur EXCEPT !.replaced = canceler[cur.req] # "none",
                                 !.alive = again]
           /\ rl' = IF again THEN "wroteRequest" ELSE afterRecycle(FALSE)
  /\ UNCHANGED <<connVars, chanVars, rt, ctxDone, listen, canceled, closeSeen,
                 wrCh, timer, wlVars, bodyVars, srvVars>>

\* Mutant: the connection is reused when the write has no result yet.
RLWroteRequestTimerOK ==
  /\ rl = "wroteRequest"
  /\ writeErrCh' = "none"
  /\ LET again == writeErrCh # "err" /\ cur.replaced
     IN  /\ cur' = [cur EXCEPT !.alive = again]
         /\ rl' = IF again THEN "put" ELSE afterRecycle(FALSE)
  /\ UNCHANGED <<connVars, writech, reqch, rtVars, wlVars, bodyVars, srvVars>>

\* wroteRequest: the write result, or no result within 50 ms.
RLWroteRequest ==
  /\ rl = "wroteRequest"
  /\ writeErrCh' = "none"
  /\ LET again == writeErrCh = "ok" /\ cur.replaced
     IN  /\ cur' = [cur EXCEPT !.alive = again]
         /\ rl' = IF again THEN "put" ELSE afterRecycle(FALSE)
  /\ UNCHANGED <<connVars, writech, reqch, rtVars, wlVars, bodyVars, srvVars>>

\* tryPutIdleConn refuses a broken connection, and may refuse any ...
RLPut ==
  /\ rl = "put"
  /\ \/ ~closed /\ rl' = "park" /\ UNCHANGED cur
     \/ cur' = [cur EXCEPT !.alive = FALSE] /\ rl' = afterRecycle(FALSE)
  /\ UNCHANGED <<connVars, chanVars, rtVars, wlVars, bodyVars, srvVars>>

\* ... and, later, hands it to a waiting request or lists it as idle.
RLPark ==
  /\ rl = "park"
  /\ \/ holder' = Idle /\ UNCHANGED <<rt, canceler>>
     \/ \E r \in Reqs : rt[r] = "new" /\ deliver(r)
  /\ rl' = afterRecycle(TRUE)
  /\ UNCHANGED <<closedBy, canceledBy, expected, chanVars, ctxDone, listen,
                 canceled, closeSeen, wrCh, timer, wlVars, cur, bodyVars, srvVars>>

\* rc.ch <- responseAndError{res: resp}
RLSendResp ==
  /\ rl = "sendResp"
  /\ \/ /\ rt[cur.req] = "select"
        /\ moveTrip(cur.req, "answered")
        /\ rl' = IF cur.hasBody THEN "body" ELSE nextIteration(cur.alive)
        /\ ub' = [ub EXCEPT ![cur.req] = IF cur.hasBody THEN "open" ELSE "none"]
        /\ bodyCh' = <<>>
     \/ /\ gone(cur.req)
        /\ rl' = "exit"
        /\ UNCHANGED <<rt, bodyVars>>
  /\ UNCHANGED <<connVars, chanVars, canceler, ctxDone, listen, canceled,
                 closeSeen, wrCh, timer, wlVars, cur, srvVars>>

\* case bodyEOF := <-waitForBodyRead
RLBodyRead ==
  /\ rl = "body"
  /\ bodyCh # <<>>
  /\ cur' = [cur EXCEPT !.bodyEOF = Head(bodyCh)]
  /\ bodyCh' = Tail(bodyCh)
  /\ rl' = "replace"
  /\ UNCHANGED <<connVars, chanVars, rtVars, wlVars, ub, srvVars>>

\* case <-rc.req.Cancel, case <-rc.req.Context().Done()
RLBodyCanceled ==
  /\ rl = "body"
  /\ ctxDone[cur.req] # {}
  /\ cancelRequest(cur.req)
  /\ rl' = "exit"
  /\ UNCHANGED <<holder, expected, chanVars, rt, ctxDone, listen, canceled,
                 closeSeen, wrCh, timer, wlVars, cur, bodyVars, srvVars>>

\* case <-pc.closech
RLBodyClosed ==
  /\ rl = "body"
  /\ closed
  /\ rl' = "exit"
  /\ UNCHANGED <<connVars, chanVars, rtVars, wlVars, cur, bodyVars, srvVars>>

\* eofc <- struct{}{}: the caller's Read returns io.EOF.
RLEofc ==
  /\ rl = "eofc"
  /\ ub[cur.req] = "waitEOF"
  /\ ub' = [ub EXCEPT ![cur.req] = "closed"]
  /\ rl' = nextIteration(cur.alive)
  /\ UNCHANGED <<connVars, chanVars, rtVars, wlVars, cur, bodyCh, srvVars>>

\* The deferred calls: close(eofc), pc.close, removeIdleConn.
RLExit ==
  /\ rl = "exit"
  /\ rl' = "close"
  /\ UNCHANGED <<connVars, chanVars, rtVars, wlVars, cur, bodyVars, srvVars>>

RLClose ==
  /\ rl = "close"
  /\ rl' = "remove"
  /\ closeBy(IF cur.callerOwnsConn THEN "callerOwnsConn" ELSE "readLoop")
  /\ UNCHANGED <<holder, canceledBy, expected, chanVars, rtVars, wlVars, cur,
                 bodyVars, srvVars>>

RLRemove ==
  /\ rl = "remove"
  /\ rl' = "done"
  /\ holder' = IF holder = Idle THEN Out ELSE holder
  /\ UNCHANGED <<closedBy, canceledBy, expected, chanVars, rtVars, wlVars, cur,
                 bodyVars, srvVars>>

ReadLoop ==
  \/ RLPeek \/ RLCheck \/ RLReceive \/ RLRead \/ RLReadError \/ RLSendErr
  \/ RLReplace \/ RLWroteRequest \/ RLPut \/ RLPark \/ RLSendResp \/ RLBodyRead
  \/ RLBodyCanceled \/ RLBodyClosed \/ RLEofc \/ RLExit \/ RLClose \/ RLRemove

-----------------------------------------------------------------------------
(***************************************************************************)
(* bodyEOFSignal: the caller reads the body to the end, meets an error, or *)
(* closes early.  Read and Close wait for eofc where the code does.        *)
(***************************************************************************)
eofcClosed == rl \in {"close", "remove", "done"}

BodyEnd(r, to, eof) ==
  /\ ub' = [ub EXCEPT ![r] = to]
  /\ bodyCh' = Append(bodyCh, eof)
  /\ unread' = IF eof THEN NoOne ELSE unread
  /\ UNCHANGED <<connVars, chanVars, rtVars, wlVars, rlVars, sent, wire,
                 answered, srvEOF>>

BodyReadEOF(r) == ub[r] = "open" /\ BodyEnd(r, "waitEOF", TRUE)

BodyReadError(r) ==
  /\ ub[r] = "open"
  /\ closed \/ srvEOF
  /\ BodyEnd(r, "broken", FALSE)

BodyClose(r) == ub[r] \in {"open", "broken"} /\ BodyEnd(r, "waitClose", FALSE)

BodyReturns(r) ==
  /\ ub[r] \in {"waitEOF", "waitClose"}
  /\ eofcClosed
  /\ ub' = [ub EXCEPT ![r] = "closed"]
  /\ UNCHANGED <<connVars, chanVars, rtVars, wlVars, rlVars, bodyCh, srvVars>>

(* The server. *)
ServerRespond(r) ==
  /\ r \in sent \ answered
  /\ ~srvEOF
  /\ wire' = Append(wire, r)
  /\ answered' = answered \cup {r}
  /\ UNCHANGED <<connVars, chanVars, rtVars, wlVars, rlVars, bodyVars, sent, unread, srvEOF>>

ServerClose ==
  /\ ~srvEOF
  /\ srvEOF' = TRUE
  /\ UNCHANGED <<connVars, chanVars, rtVars, wlVars, rlVars, bodyVars, sent, wire,
                 unread, answered>>

-----------------------------------------------------------------------------
Next ==
  \/ \E r \in Reqs :
       \/ GetConn(r) \/ RoundTrip(r) \/ RTTimeout(r) \/ UserCancel(r)
       \/ BodyReadEOF(r) \/ BodyReadError(r) \/ BodyClose(r) \/ BodyReturns(r)
       \/ ServerRespond(r)
  \/ WriteLoop \/ WLWrite
  \/ ReadLoop
  \/ PoolClose
  \/ ServerClose

Spec == Init /\ [][Next]_vars

(***************************************************************************)
(* Fairness: goroutines that can step do.  A write to a peer that does not *)
(* read may block until the socket is closed, and for ever when it was     *)
(* handed to the caller; the server, the caller and the timers owe         *)
(* nothing.                                                                *)
(***************************************************************************)
Fairness ==
  /\ \A r \in Reqs : WF_vars(RoundTrip(r)) /\ WF_vars(BodyReturns(r))
  /\ WF_vars(WriteLoop)
  /\ WF_vars(socketClosed /\ WLWrite)
  /\ WF_vars(ReadLoop)

FairSpec == Spec /\ Fairness

-----------------------------------------------------------------------------
(***************************************************************************)
(* Properties.                                                             *)
(***************************************************************************)

\* The head that readResponse parses answers the request that readLoop took
\* from reqch: neither bytes of an earlier body nor the answer to another
\* request are ever read as this one's response.
ResponseMatches ==
  rl = "read" => /\ unread = NoOne
                 /\ wire # <<>> => Head(wire) = cur.req

\* A usable connection that tryPutIdleConn has parked carries nothing over to
\* its next request: no response is due, no channel holds a leftover, the
\* write of the last request has succeeded and the wire is empty.  Nor does
\* the result of a write outlive its request: writeLoop's send on
\* pc.writeErrCh, which nothing but the channel's one buffer slot makes safe,
\* always finds the slot free.
QuietWhenParked ==
  /\ TypeOK
  /\ holder = Idle /\ ~closed =>
       /\ expected = 0
       /\ writech = <<>> /\ reqch = <<>> /\ writeErrCh = "none"
       /\ wl = "select" \/ (wl = "answer" /\ ~werr)
       /\ sent = answered /\ wire = <<>> /\ unread = NoOne
  /\ wl = "report" => writeErrCh = "none"

\* mapRoundTripError prefers pc.canceledErr to every other error: whenever it
\* is set, it was the failing request itself that was canceled, never an
\* earlier user of the connection.  And a request that closes the connection
\* (a cancellation, a write error) is the one the pool has given it to: it
\* never tears down a connection that is idle or that serves another request.
\* The response-header timer does, see OwnClose, and is the one exception.
CancelErrorIsOwn ==
  /\ [](\A r \in Reqs : rt[r] = "map" /\ canceledBy # NoOne => canceledBy = r)
  /\ [][\A r \in Reqs : closedBy # r /\ closedBy' = r => holder = r \/ RTTimeout(r)]_vars

\* The same without the exception: the code does not keep it.
OwnClose == [][\A r \in Reqs : closedBy # r /\ closedBy' = r => holder = r]_vars

\* The first of two cancellations took effect and the second made roundTrip
\* forget it: cancelRequest finds no canceler and the local canceled is false.
Forgotten(r) == rt[r] = "select" /\ canceledBy = r /\ r \notin canceled

\* roundTrip returns once its request is canceled, by its context, by its
\* Cancel channel or by both, or once its connection is closed, whichever of
\* the select's cases wins, and however readLoop and writeLoop interfere.  One
\* order of events is excepted, in which the code may wait for ever: Cancel
\* first, then the context.
RoundTripReturns ==
  \A r \in Reqs :
    rt[r] = "select" /\ (closed \/ ctxDone[r] # {}) ~> gone(r) \/ Forgotten(r)

\* "The context controls the entire lifetime of a request and its response"
\* (request.go): the same without the exception.  The code does not keep it:
\* roundTrip takes the close for a response on its way, which readLoop need
\* not have taken the request to send.
ContextEndsTrip ==
  \A r \in Reqs : rt[r] = "select" /\ "Context" \in ctxDone[r] ~> gone(r)

\* No goroutine leaks: after a close both loops of the connection end, though
\* each may at that time wait for the other, for roundTrip or for the caller;
\* and a caller who waits in Body.Read at EOF, or in Body.Close, is released.
\* One case is excepted: a protocol switch closes the connection and leaves the
\* socket open, so that a write under way may go on for ever.
LoopsEnd ==
  /\ closed ~> /\ rl = "done"
               /\ wl = "done" \/ (wl = "writing" /\ ~socketClosed)
  /\ \A r \in Reqs : ub[r] \in {"waitEOF", "waitClose"} ~> ub[r] = "closed"

=============================================================================
