# A TLA+ model of this re-implementation of net and net/http

The repository re-implements Go's `net` and `net/http` packages: an HTTP/1
client (`http/client.go`, `http/transport.go`), an HTTP/1 server
(`http/server.go`), message framing (`http/transfer.go`,
`http/internal/chunked.go`), request routing (`http/pattern.go`,
`http/routing_tree.go`), the frame reader of an HTTP/2 server
(`http/h2_bundle.go`), the dialer and the sockets below it (`dial.go`,
`tcpsock_posix.go`, `fd_unix.go`, `sock_posix.go`), and the parsers they share.
This directory holds TLA+ modules translated from that code, TLC configurations
that check them on small instances and TLAPS proofs for instances of every size.

## The system's parts

| Part | State it keeps | Operations | What is hard about it | What makes it correct | Module |
|---|---|---|---|---|---|
| Transport connection pool | `idleConn`, `idleConnWait`, `idleLRU`, `closeIdle` under `idleMu`; `connsPerHost`, `connsPerHostWait` under `connsPerHostMu`; each `wantConn` under `w.mu`; each `persistConn` under `pc.mu` | `getConn`, `queueForIdleConn`, `queueForDial`, `dialConnFor`, `tryPutIdleConn`, `decConnsPerHost`, `removeIdleConn`, `closeConnIfStillIdle`, `CloseIdleConnections` | a dial, a connection that becomes idle and a cancellation race for the same want; four locks; two lists of idle connections that differ on purpose | one owner per connection, right host, limits, exact count, waiters are served | `ConnPool` |
| persistConn exchange | `numExpectedResponses`, `closed`, `canceledErr`, `sawEOF`, channels `reqch`, `writech`, `closech`, `writeErrCh` | `roundTrip`, `readLoop`, `writeLoop`, `wroteRequest`, `bodyEOFSignal` | three goroutines, five events in one select, a response that overtakes the request | a response goes to its request; a connection is reused only when both directions are finished | `PersistConn` |
| Client and Transport.roundTrip | the redirect chain, the deadline timer, the request body and how much of it was read | `do`, `send`, `redirectBehavior`, `setRequestCancel`, `shouldRetryRequest`, `rewindBody` | a timeout racing a late answer, a retry of what may have been done, a body that another goroutine still reads | bodies closed and sent from their beginning, no replay, the Host header along relative Locations only, nothing left open | `ClientDo` |
| Server lifecycle | `inShutdown`, `listeners`, `activeConn`, `listenerGroup`, the state word of every conn | `Serve`, `Shutdown`, `SetKeepAlivesEnabled`, `trackConn`, `setState` | Shutdown races with accept and with requests that arrive | Shutdown returns only with nothing active, and returns | `ServerLifecycle` |
| Server connection | `connReader` (`inRead`, `hasByte`, `aborted`), `hijackedv` | `serve`, background read, `Hijack` | the background read races with handler, abort and hijack | no byte lost or read twice | `ConnReader` |
| Server response | `wroteHeader`, `chunking`, `closeAfterReply`, 100-continue state | `WriteHeader`, `chunkWriter.writeHeader`, `finishRequest` | the header is sent on the first of many events, beside a reader of the request | framing agrees with what is written | `ServerResponse` |
| ServeMux | the routing tree | `registerErr`, `findHandler` | precedence of overlapping patterns, two walks under one lock each | the most specific match wins | `Routing` |
| Bodies | `transferWriter`, `body`, `chunkedReader`, `maxBytesReader` | write, read, close, trailer | truncated and oversized input | a body ends exactly where its framing says | `Framing`, `Body` |
| HTTP/2 Framer | `lastHeaderStream`, the block being assembled | `ReadFrame`, `readMetaFrame` | a block cut into frames, refused in its midst | blocks come out whole, of one stream | `H2Framer` |
| Dialer and sockets | the context, the socket's write deadline, two helper goroutines | `DialContext`, `doDialTCPProto`, `netFD.connect` | deadline, cancellation and answer at once | one clean socket, the dial ends | `Dial` |
| httptest.Server, parsers, addresses | none, or that of the part they wrap | - | characters | left to unit tests | - |

Calls go down the client half (`Client.do` → `Transport.roundTrip` → `getConn` →
`dialConnFor` → dialer; then `persistConn.roundTrip`), and the pool is called
back from below: `readLoop` returns a connection with `tryPutIdleConn`, and
`closeLocked` calls `decConnsPerHost`, which may start another dial. On a server
`Serve` accepts, `conn.serve` reads a request through `connReader`, the mux
chooses a handler, and the handler's `response` decides whether the connection
is read again. Client and server share only bytes on a connection: `Framing`
has both ends of a message and is used by `Body` and by `ServerResponse`.

## Modules

| Module | Content |
|---|---|
| `ConnPool`, `PersistConn`, `ServerLifecycle`, `ConnReader`, `ClientDo`, `Routing`, `Dial`, `H2Framer`, `Body`, `ServerResponse` | one part of the system each: variables, one action per critical section or step, specification, properties |
| `Framing` | pure operators: how a writer announces the end of a body and what a reader makes of it |
| `ByteStream` | what a connection promises its reader; `ConnReader` implements it |
| `MC...` | instances for TLC |
| `ConnPoolProofs` | proofs about `ConnPool` |
| `PersistConnProofs` | proofs about `PersistConn` |
| `ServerLifecycleProofs` | proofs about `ServerLifecycle` |
| `ConnReaderProofs` | proofs about `ConnReader` and its refinement of `ByteStream` |
| `ClientDoProofs` | proofs about `ClientDo` |
| `BodyProofs` | proofs about `Body`, and with it about `Framing` |
| `H2FramerProofs` | proofs about `H2Framer` |
| `ServerResponseProofs` | proofs about `ServerResponse`, and with it about `Framing` |

A definition whose comment begins with "Mutant:" is not part of a model: it is
the definition below it with a plausible bug, and the property it is paired with
in `PROJECT.json` fails when it takes that definition's place.

### ConnPool

State.  The maps of `Transport` are functions from keys to sequences (a missing
map entry and an empty list are the same thing to the code).  `idleLRU` is the
linked list of `connLRU`, oldest first.  A `wantConn` is `wpc[w]` and `werr[w]`;
its channel `ready` is closed, and its `ctx` cleared, exactly when one of them is
set.  Per goroutine there is a program counter: `call[w]` for `getConn` followed
by `persistConn.roundTrip`, `dial[w]` for `dialConnFor`, `readLoop[c]`, a record
in `puts` for every running `tryPutIdleConn`, and the set `closing` for what
`CloseIdleConnections` has taken out and not closed yet.  Since every want is
dialed for at most once, a connection is named after the want that dialed it.

Actions.  One action is one critical section, so goroutines interleave exactly
where the code releases a lock: `isBroken` is tested in one step
(`TryPutIsBroken`) and the pool changed in the next (`TryPutDeliver`,
`TryPutReject`, `TryPutStore`); `tryDeliver` of an error and the following
`decConnsPerHost` are two steps (`DialDeliverErr`, `DialDec`).  Where the code
holds one lock and calls a function that takes the next, the step is one action:
`closeLocked` includes `decConnsPerHost` and the start of the next dial, and
`TryPutStore` includes the eviction, the close and the removal.

Abstractions.  Time: a connection in the idle list is found too old, or its
timer fires, at any moment when `IdleConnTimeout` is set; connections become idle
in list order, so the too-old ones are a prefix of the list.  Dialing succeeds or
fails.  The request is reduced to how it ends: the connection is returned
(`FinishReuse`), broken, aborted by a timeout, a write error or a cancellation,
or returned unused because the canceler is gone (`RoundTripCanceled`).
`RoundTripLateClose` is the step in which `roundTrip` takes the header timeout
although `readLoop` has already returned the connection.  Left out: HTTP/2
(`pc.alt` is always nil in this repository), tracing, the short time
between `decConnsPerHost` and `conn.Close()` inside `closeLocked`.

### PersistConn

State.  One connection and the requests that are given it in turn.  `rt[r]` is
the program counter of `roundTrip`, `rl` and `cur` those and the locals of the
`readLoop` iteration, `wl`, `wreq`, `werr` the `writeLoop`, `ub[r]` the caller who
reads the response body.  Buffered channels are variables of bounded length
(`writech`, `reqch`, `writeErrCh`, the `wr.ch` of each request, `waitForBodyRead`);
a step on an unbuffered one (`rc.ch`, `eofc`) moves both sides.  `closedBy` is
`pc.closed`, with who closed first instead of the error; `canceledBy` is
`pc.canceledErr`; `canceler[r]` the entry of `t.reqCanceler`.  `holder` stands for
the pool: who has the connection.  `wire` and `unread` are what the server has
sent and nobody has read: response heads, and the rest of a body.

Actions.  `RT*` are the steps of `roundTrip`, one per case of its select; `WL*`
and `RL*` those of the loops, in the order of the code: `RLReplace`,
`RLWroteRequest`, `RLPut` and `RLPark` are the operands of the `&&` that decides
on the reuse, with its short cuts; `RLExit`, `RLClose`, `RLRemove` the deferred
calls in the order they run.  `Body*` are `Read` and `Close` of `bodyEOFSignal`
with `fn` and `earlyCloseFn`.  `RTCancel` is taken once per cancel channel, as
the code has it: after the context's no other is listened to.

Abstractions.  The server answers a request once it may have seen its first byte,
in one piece, sends nothing it was not asked for, and closes when it likes.
A close with `errCallerOwnsConn` (a protocol switch) leaves the socket open
(`socketClosed`): a write under way may then succeed, fail or never end.
Informational responses are read inside `RLRead`, and the wait for 100-continue is
part of `WLWrite`, which ends at any time with any result.  `canceler` is never
missing in `RTEnter`: this Transport has no `CancelRequest`.

### ClientDo

State.  One call of `Client.Do`: `pc` is where it stands in the loop of `do` and in
the loop of `Transport.roundTrip`; `bodies[i]` says whether the i-th request body
(the caller's, then one per `GetBody`) is closed; `writers` has one record per
attempt, the `writeLoop` that reads and closes the body in its own goroutine, with
what it has read and written; `conn` is the connection of the attempt, reused or
new, and the error that broke it; `timers` the deadline timers that run.

Actions.  `NextRequest`, `CheckRedirect`, `Slurp`, `Send` are the parts of the
redirect loop; `GetConn`, the exchange, `GiveUp`, `Retry` and `RetryRewinds` those of the retry
loop, with `shouldRetryRequest`'s order of tests; `WriteLoop*` run beside them.  A call
may carry a flaw: a head that `Request.write` refuses before it writes anything, or
a body that fails or has the wrong length once it is read.  What its copy reports
takes precedence over every other error of the attempt and is never retried.
The server answers early, late or never, closes, or redirects to any host.  A
Location is a path, which stays with the host, `//host/path`, which `IsAbs` does not
tell from a path, or absolute; the ghost `via` collects the kinds that were followed.

Abstractions.  URLs are hosts, cookies are names, a body is "read from" or not.
How an exchange fails is a choice among the errors that `shouldRetryRequest`
tells apart (`PersistConn` has the exchange).  As in `PersistConn` the server answers
only what it was sent: a response that precedes `WLTake`, after which `writeLoop` may
select `closech` and leave the request body unclosed (`transport.go:2169`), is not
among the behaviours, and `BodiesClosed` says nothing of it.  Left out: referer, basic
authentication, `Get`, `Post`, `Head`.

### ServerLifecycle

State.  `inShutdown`, `disableKeepAlives`, `listeners`, `activeConn` are the fields
of `Server` (`listenerGroup` counts exactly the members of `listeners`);
`curState[c]` is the state half of the packed word of a connection, `Unset` while
it is zero.  `mu` is who keeps `srv.mu` over several steps.  `sv[l]` and `acc[l]` are
the accept loop of one call of `Serve`, `pc[c]` is `conn.serve`, `sd[x]` a call of
`Shutdown` or `SetKeepAlivesEnabled`, `todo`, `victim` and `quiescent` the locals of
the `closeIdleConns` that has the lock.

Actions.  One critical section of `srv.mu`, one access to an atomic word, or one
call that may block.  `closeIdleConns` is four actions although it holds the lock
throughout: it reads the state of each connection, which `conn.serve` stores
without that lock, before it closes it.  For the same reason `setState(StateNew)`
is two: `trackConn`, then the store.

Abstractions.  Requests are left out, except for whether the connection can be
reused and whether reading one failed with bytes of a request or with none.
Whatever waits for a handler or for the client is a step of its own: the handler
(`HandlerReturns`), `finishRequest` with its flush and its drain of an unread body
(`Finish`), an error answer (`Refuse`).  When `conn.serve` gets to its deferred close
nothing is left to flush, and `closeWriteAndWait` sleeps for a fixed time.  The
clock is one fact per connection: its `StateNew` is over five seconds old.
`conn.serve` has no `recover`, so that a handler's panic ends the program.  The
hooks (`ConnState`, `RegisterOnShutdown`) and TLS are left out.  This repository
has no `Server.Close`.

### ConnReader and ByteStream

State.  The client's bytes are numbered; `bufr` is the buffered reader, `cr` the
`connReader` (`hasByte`, `byteBuf`, `inRead`, `aborted`), `bg` its background
goroutine, `pc` the goroutine of `conn.serve` with handler, body and hijacker in
it.  `taken` lists what was given to the parser, the handlers and the hijacker.

Actions.  Each critical section of `connReader.mu`, and each read of the socket,
which happens outside it: the background read returns a byte (`BackgroundByte`)
or fails, and only later takes the lock (`BackgroundDone`).  `Abort` sets the
deadline and waits on the condition variable, `AbortReturns` clears it.  Requests
without a body start the background read at once, others at the EOF of the body
(`registerOnHitEOF`).  A handler whose read of the body fails gets the error and goes
on; it may hijack with the body unread, whose bytes then go to the hijacker
(`HijackDone`, which peeks at the byte held back).

`ByteStream` is what a connection promises its reader: each byte once and in order.
`ImplementsStream` states that `ConnReader`, with `arrived` and `taken` for
`sent` and `delivered`, implements it.

### Framing, Body

`Framing` has the choices of `transferWriter` (probing a body of unknown length,
`shouldSendContentLength`, chunked, close) and of `readTransfer` (`fixLength`,
`bodyAllowedForStatus`, the kinds of reader it builds) as operators on records.
`Body` runs them: `WriteRequest` and `WriteResponse` choose a `transferWriter` and
write the header, `WriteChunk` copies some bytes of the body as a chunk,
`WriteEnd` writes what ends the body (or a body without chunks) and, if the message
allows another one, the start of the next.  `ReadRequest` and `ReadResponse` build
the `body`; then `body.Read`, `body.Close`, `chunkedReader.Read` (one turn of its
loop is one step) and `maxBytesReader.Read` run in any order the user likes.  The
connection may end after any token.  Foreign writers put extensions into their
chunk lines; a size line has the length of its hexadecimal number.  Trailer fields
are one token.  Writing comes before reading: the wire between them is a buffer
nobody looks at from outside, so that the order does not matter to the reader.

`Message` is the type of what may be written: a request is an HTTP/1.1 one, and only
a reader has bytes or fails.  Nothing is promised of messages whose sender breaks
the framing himself (`SenderUnframed`: CONNECT, a request under an encoding other than
chunked, a body or chunked encoding where the status has none, keep-alive of
HTTP/1.0 with a body of unknown length or chunks).

### ServerResponse

One exchange of a server: the handler calls `WriteHeader`, `Write`, `Flush` in any
order while a second goroutine reads or closes the request body, which sends
`100 Continue` through `expectContinueReader`; then `finishRequest`.  `w` holds
the fields of `response` and `chunkWriter` that decide the framing, and what is on
the wire.  `Write` and `expectContinueReader.Read` are cut where they take and
release `writeContinueMu`.  `werr` is `conn.werr`: the connection may fail by the time
`finishRequest` is through, and a failed one is not kept; what a handler does on
seeing a failed write is among what it may do anyway.  The reader on the other side is `Framing`'s, so that
`ReuseInSync` compares two ends.  `BufWrite` is `bufio.Writer.Write` over the
`chunkWriter`: a write that fits stays in the buffer, one that meets an empty buffer
and exceeds it goes straight out, any other fills the buffer first, and what then
still exceeds it goes out behind that.  A request whose expectation is unknown is
answered 417 before a handler ran, with an empty header map
(`SendExpectationFailed`).  `Request` and `HandlerHeader` say what `readRequest` can
return and what a handler may set, its Content-Length a number or absent; a handler
that switches protocols ("Connection: upgrade") is left out.  So are `ReadFrom`
(sendfile), Date and Content-Type, the logging of superfluous calls.

### Routing

The tree is a function from paths of keys to patterns; `match`, `matchPath` and
their backtracking, `matchingMethods`, `findHandler` with its clean-path and
trailing-slash redirects and the 405 answer are operators.  The lock is held for
one walk of the tree at a time, so `Handle` may come between the two walks of a
request that is not found (`FindHandler`, then `MatchingMethods`).  Paths are sequences
of elements, "." and ".." among them; escapes are not modelled.  The path of a
redirect is what `Redirect` puts into Location, cleaned once more.  `routing_index.go` is not called at this
commit (the conflict check in `registerErr` is commented out), so conflicts are
ruled out by the properties' hypotheses where they need it.

### Dial

`DialContext` with its deadline, its `Cancel` watcher and the caller's context;
`doDialTCPProto` with its retries of self-connections and `EADDRNOTAVAIL`;
`netFD.connect` with the interrupter goroutine that moves the write deadline into
the past.  `internetAddrList` returns a single address at this commit, so
`dialParallel` never has a fallback and its race is unreachable; it is not modelled.

### H2Framer

`ReadFrame` as the server would configure it: the checks of each frame parser
(each frame type has its flaws), `checkFrameOrder`, `readMetaFrame` with header
list limits, pseudo-header order and the HPACK decoder as an external source of
fields.  `Read` reads a frame and, if it belongs to a block, hands its fragment to the
decoder (`Decode`); each field the decoder emits is a step (`Emit`), and so is the
end of the fragment, where `readMetaFrame` goes on or returns (`FragmentEnds`).  The rest of the HTTP/2 server is a stub at this commit: `go
sc.readFrames()` is commented out and flushing does nothing, so that streams, flow
control and write scheduling never run.

## Runs

| Run | Instance | Shows |
|---|---|---|
| `pool` | 3 requests to 2 hosts, 1 connection per host and 1 idle connection in all, idle timeouts, one request may be canceled anywhere | `PoolInv`, `ExclusiveUse`, `NoPoolPanic`, `RightHost`, `PoolLimits` |
| `live` | keep-alives off, 1 connection, 3 requests, fairness | `GetConnReturns` |
| `persist` | 2 requests in turn on a connection; protocol switch, one request that may be canceled by `Cancel` and by its context, header timer, write errors, early close; fairness | `ResponseMatches`, `QuietWhenParked`, `CancelErrorIsOwn`, `RoundTripReturns`, `LoopsEnd` |
| `server` | 2 accept loops, 1 connection, a `Shutdown` and a `SetKeepAlivesEnabled`, fairness | `LifecycleInv`, `Drained`, `KeepAliveSwept`, `ConnStateLaw`, `ShutdownReturns` |
| `message` | 3,276 messages: every combination of method, status, protocol, body, length, encoding, close, trailer, written and read back | `AtBoundary`, `EOFMeansAll`, `HonestAccepted`, `OverheadBounded`, `ReadSound` |
| `response` | every kind of request and handler header, 3 calls of the handler, a connection that may fail | `ReuseInSync`, `NothingLost`, `CloseAnnounced` |
| `connReader` | 3 pipelined requests with bodies of 2, 0 and 1 bytes, a buffer of 3 | `ReaderInv`, `CancelMeansGone`, `AbortEnds`, `ImplementsStream` |
| `client` | 3 hosts, one a subdomain of another, 7 kinds of calls (one that cannot be written and one whose body cannot be read among them), 2 hops, 1 idle connection that may be stale, fairness | `BodiesClosed`, `SentFromStart`, `AttemptsApart`, `NothingLeft`, `HeadersStay`, `TimeoutReturns` |
| `routing` | all sets of up to 3 of 23 patterns against 128 requests, with empty, "." and ".." elements in their midst and at their end | `MostSpecificWins`, `RedirectsEnd`, `AllowIsHonest` |
| `dial` | every combination of deadline, context, `Cancel` and local port; fairness | `OneCleanSocket`, `DialEnds` |
| `framer` | 6 frames of any type on 2 streams and the connection, blocks of up to 3 fields | `BlockSound` |
| `h2end` | the same | **violates** `ContinuationGuaranteed` |

Bounds.  Three getConn calls are the least that let one hold a connection, one wait
for an idle one and one wait for permission to dial; two hosts and a limit of one
idle connection make an eviction hit another host.  A want is used once: a retry or
a second request is another want.  On one connection two requests are the least for
one to disturb the other; a request is sent once and answered once, which bounds
everything else (the proofs cover any number of requests, canceled in any way).  One server connection serves any
number of requests, and two accept loops let one be in `Accept` when the other has
left.  A body of three bytes with reads of at most two ends in every way a longer
one can: inside a read, at its end, before it; extensions of four against an
allowance of three exercise both sides of the overhead test.  `BufSize` 1 with
writes of up to 3 lets a write fit into the buffer, pass it by, fill it and leave a
rest that fits, or a rest that does not; lengths of 2 are met, missed and exceeded.  Three
pipelined requests put a request without a body between two with one, and a buffer
of 3 is full before the byte held back is added.  `RedirectLimit` 2 stands for the
ten of the code: one redirect is followed and one refused.  Three patterns are the least for a
backtracking that passes over one and fails into another.  Six frames hold two
blocks of a HEADERS and two CONTINUATIONs, or one between others.  `Dial` has no
bound but the code's three tries.

Deadlock is checked in `pool`, `live`, `routing` and `dial`.  The other systems do stop: an
idle connection whose server is silent, a server whose clients are silent or that
has been shut down, a call that has returned, a message that has been read.

### Fairness

* `live`: weak fairness of every goroutine's next step (the Go scheduler), of the
  dial (it has a deadline or the network answers) and of a request in use (it ends).
  Not assumed: cancellation, aborts, idle timeouts, `CloseIdleConnections`.
* `persist`: weak fairness of `roundTrip`, of both loops and of a body reader who can
  return; a write ends once the socket is closed, which takes for granted that the
  caller's request body returns from `Read`.  The server, the caller, the timers and a
  write on an open socket owe nothing; a protocol switch leaves the socket open, so
  that `LoopsEnd` excepts a `writeLoop` that is still writing after one.
* `server`: every accept loop, connection and call that can step infinitely often
  does (strong fairness: several of them compete for `srv.mu`, and a `sync.Mutex`
  starves nobody), time passes, and a read on a closed connection or an accept on a
  closed listener fails.  Handlers and clients owe nothing: `HandlerReturns` is not
  fair, `Refuse` and `Finish` only on a connection that this side has closed.  A busy
  connection may therefore keep `Shutdown` waiting "indefinitely", as its doc says,
  and `ShutdownReturns` says that nothing else does: a client may connect and stay
  silent for ever, which is what the five seconds in `closeIdleConns` are for (without
  them the property fails), or stop in the middle of a request's head.
* `connReader`: the background goroutine and a woken `abortPendingRead` get their
  turn; a read whose deadline is in the past returns.  Clients owe nothing.
* `client`: Do's own goroutine runs on, the deadline passes, and a `writeLoop` leaves
  a closed connection.  The server owes nothing, not even the rest of a body.
* `dial`: the caller, the interrupter, the watcher and the timers get their turn.  The
  peer owes nothing and nobody need cancel.

## Where the code and its documentation differ

`h2end` is a run; the others can be repeated: TLC finds the definition named violated in
the instance of its module's run (`NoBodyAfterRewrite` and, to see the request sent,
`SensitiveHeadersStay` with `RedirectLimit = 3`, `AlwaysAHandler` with
`Asked <- Connects`).

* `ContinuationGuaranteed` (`h2end`, `http/h2_bundle.go:1646`): `HeadersEnded` tests
  END_STREAM where it means END_HEADERS, so that `readMetaFrame` takes the frame
  behind a complete HEADERS for a CONTINUATION and its type assertion panics.
* `SlotReturned` (`ConnPool`): the comment of `dialConnFor` (`transport.go:1236`) says
  that a canceled dial decrements the per-host count; when the want has been served
  by an idle connection, or canceled, before the goroutine's first step, it returns
  without doing so (1240) and the slot is lost.  With keep-alives on `GetConnReturns`
  fails for that reason once all slots are lost, which is why `live` has them off,
  where a want can only be served by its own dial.
* `NoOrphan` (`ConnPool`): `queueForIdleConn` drops a too-old connection from
  `idleConn` and leaves it in `idleLRU` for `closeConnIfStillIdle`.  When
  `CloseIdleConnections` (828) comes in between it empties `idleLRU` and closes only
  what is in `idleConn`: the connection is closed by nobody.
* `OwnClose` (`PersistConn`): `readLoop` gives the connection back before `roundTrip`
  has received the response.  It takes the request's canceler away first, so that a
  cancellation cannot hit the next user, but the response-header timer still runs
  (2405); if it wins the select, a connection that is idle or serves another request
  is closed.  `CancelErrorIsOwn` makes that one exception.
* `ContextEndsTrip` (`PersistConn`): "the context controls the entire lifetime of a
  request" (`request.go:750`), but with both cancel channels `canceled` is overwritten
  (`transport.go:2422`).  On a connection whose `readLoop` has gone without taking the
  request, `Request.Cancel`, then the context, then `closech` leave `roundTrip` in a
  select of which no case can become ready.  `RoundTripReturns` is checked with both
  channels and excepts that order alone (`Forgotten`).
* A protocol switch: when the server answers 101 before the request is fully written,
  a write error makes `writeLoop` close the socket (2195), although `roundTrip` has
  handed it to the caller.  No property rules it out.
* `NotInterrupted` (`ServerLifecycle`): `closeIdleConns` reads the state of a
  connection and then closes it; in between, and from the last byte of a request to
  the store of `StateActive`, the connection still counts as idle.  Its handler then
  runs on a closed connection, and `Shutdown` may return before it does, although its
  doc promises not to interrupt active connections (`server.go:2708`).
* `NoLateContinue` (`ServerResponse`): `canWriteContinue` is said to synchronize
  the body reader with the main writer (`server.go:400`), but a handler that flushes its
  header and then reads the body has `100 Continue` written behind it.  `ReuseInSync`
  shows that such a connection is not kept, unless the handler wrapped `req.Body`: then
  `writeHeader` does not see that the body is unread, and the connection is kept with
  the client out of step.  `RequestConsumed` fails in full duplex.
* `NoConcurrentRead` (`ConnReader`): in full duplex the body may still be unread when
  `finishRequest` closes it while a background read runs: "invalid concurrent
  Body.Read call".  `Hijack` fails, after the connection was marked hijacked, when the
  buffer is full and a byte is held back ("lost").
* `SensitiveHeadersStay` (`ClientDo`): sensitive headers are to be left out on
  a redirect to a domain that is not that of the initial request or below it
  (`client.go:41`), but `shouldCopyHeaderOnRedirect` is asked with the previous request
  (769) and the headers of the first: of home, other, other the last request has the
  caller's Cookie again.
* The caller's Host header: kept for "relative" Locations (`client.go:619`), and `IsAbs`
  looks at the scheme only, so that `//other/path` sends it to another host.
  `HostHeaderStays` names the case.
* `NoBodyAfterRewrite` (`ClientDo`): after POST, 302, GET, 307 the body of the POST is sent
  again (`client.go:549`).  With `ErrUseLastResponse` the body that `GetBody`
  returned is not closed (`BodiesClosed` excepts it).  Requests made for redirects have
  no `GetBody`, so their bodies are never rewound.  The jar is not given the cookies of
  responses, contrary to the doc of `Client.Jar`.
* `AlwaysAHandler` (`Routing`): a CONNECT request that no pattern matches meets a nil
  pattern (`server.go:2386`).  A literal segment "*" has the key of a multi wildcard in
  the tree; it is not among the elements.
* `AllRedirectsEnd` (`Routing`): with the pattern "/{x}/" a request for "/",
  "/.." or "/a/.." is matched as "//" and redirected there (`server.go:2407`), which
  `Redirect` cleans to "/", and so for ever; with "/a/{x}/" a request for "/a/" alike.
  `RedirectsEnd` shows that this is the only way: the path, cleaned, ends in a slash and
  a pattern that ends in "{x}/" takes the empty element behind it.
* `LengthOrClose` (`Body`): a `Response.Write` of a chunked response, or one with a length,
  without a Body, and the answer to a HEAD with chunked encoding, are not framed
  (`WriterUnframed`); `AtBoundary` excepts them.
* `netFD.accept` (`fd_unix.go:154`) leaves the descriptor open when `init` fails.

## Proofs

`ConnPoolProofs` proves, from `PoolAssumption` alone (finitely many wants, limits
that are integers of any sign):

* `PoolInvariant`: `Spec => []PoolInv`;
* `TypeCorrect`, `Exclusive`, `SameHost`, `NoDuplicateIdle`: `TypeOK`,
  `ExclusiveUse`, `RightHost` and `NoPoolPanic` always hold.

`ExclusiveUse` alone is not inductive.  `PoolInv` adds what the code relies on
without saying so: whoever holds a connection, its `dialConnFor` is over
(`Born`), so that the dialer cannot deliver it a second time; the idle lists have
no duplicates and every listed connection is in the LRU list, while the converse
fails for connections dropped as too old, so ownership must be stated against the
LRU list (`UserInv`, `PutInv`, `ParkedInv`); a want in `connsPerHostWait` has no
`dialConnFor` yet, so that a freed permission starts only one (`DialInv`); and
queues and lists hold only wants and connections of their key (`KeyInv`).  There
is one lemma per action.  The actions that close share `CloseStep` (what
`closeLocked` and `decConnsPerHost` may change) and `OwnersShrink`; those that
give a connection back share `GiveBack`.

Its second part proves `LimitsHold`: `Spec => []PoolLimits`, under the same
assumption.  Above `PoolInv` it needs that `connsPerHost` is exactly the number of
permitted dials and open connections (`ConnCount`), that it stays within the limit
(`Permitted`), and the lengths of the idle lists (`IdleLens`).  A step leaves what is
counted alone (`SameCount`), takes a permission (`CountUp`), or gives one back:
`Released` shows that it then either lowers the count or passes to one waiting want
that was not counted.  A dial that succeeds turns its permission into an open
connection without passing through zero or two.  `HostLimit` follows because dials
under way and open connections are among what is counted.

`PersistConnProofs` proves, for any set of requests with or without timer, upgrade
and cancel channels (`PersistConnAssumption` only keeps names apart):

* `ResponsesMatch`, `Quiet`, `CancelIsOwn`: `ResponseMatches`, `QuietWhenParked` and
  `CancelErrorIsOwn` always hold.

They follow from one invariant (`Invariance`).  `TripInv` says who can stand where:
only the holder of the connection is ahead of its `select`, and only it has a
canceler.  `DueInv` says that, until the response is read, what the server has sent is
exactly what the holder is due.  The readLoop is ahead of the holder's request,
serving it, past its response, or ended; while it is ahead it may still be trailing,
with the last request's response to hand over after the connection was parked.
`AheadInv`, `ServingInv` and `PastInv` tie each phase to `reqch`, to the count of
expected responses and to the tests of the reuse that have succeeded.  `WriteInv` follows the one result of a write from `writeLoop` to
`writeErrCh` and `wr.ch`, which is what makes the send without a receiver safe;
`BodyInv` the signal on `waitForBodyRead`; `CancelInv` who may have set `canceledErr`.

`ServerLifecycleProofs` proves, for any sets of accept loops, connections and calls
(`ServerAssumption` only keeps their names apart):

* `LifecycleInvariant`: `Spec => []LifecycleInv`;
* `ShutdownDrains`, `KeepAlivesAreSwept`, `StatesFollowTheLaw`: `Drained`,
  `KeepAliveSwept` and `ConnStateLaw`.

`Drained` needs the whole chain from `Accept` to the last sweep: a connection
between `Accept` and `go c.serve` belongs to one loop that is still in
`listenerGroup` (`LoopInv`, `TrackInv`), no loop joins once `inShutdown` is set and
the group has been empty (`ShutdownInv`), and a sweep that ends quiescent has
looked at every tracked connection, nothing being added while it has the lock
(`SweepInv`).  `KeepAliveSwept` is a store-then-load argument between two parties:
`SetterInv` says that a connection that waits although keep-alives are off is still
ahead of some setter's sweep.  `ConnStateLaw` needs that the state follows the step
of `conn.serve` (`StateInv`), and with it that `Serve` stores `StateNew` before the
goroutine starts.

`ConnReaderProofs` proves, for any sequence of request bodies and any size of the
buffer:

* `ReaderInvariant`: `Spec => []ReaderInv`;
* `OnlyTheGone`: `CancelMeansGone`; `StreamImplemented`: every step of `ConnReader`
  maps to a step of `ByteStream` or to a stutter (`ImplementsStream`).

What was taken, the buffer, the byte held back and the one just read are, one behind
the other, each byte followed by its number (`Numbered`), so that a byte that moves
from one place to the next stays in line.  `OneReader` says who may read the socket
in each phase of `conn.serve` (`Phases`), and `Aborts` that a deadline in the past
only meets a background read that was told of it.

`ClientDoProofs` proves, for any hosts, cookies, redirect limit and kinds of calls:

* `AllBodiesClosed`, `BodiesSentFromStart`, `AttemptsStayApart`, `NothingLeftBehind`,
  `HeadersStayHome`: `BodiesClosed`, `SentFromStart`, `AttemptsApart`, `NothingLeft` and
  `HeadersStay`.

They follow from one invariant (`Invariance`).  A body is closed or somebody still has
to close it: a `writeLoop` that is not through, `roundTrip`, or `do` between `GetBody`
and the next send (`OwnerInv`).  Only the last attempt has a `writeLoop` that may
still read, and its connection's error says how far it got (`CurrentInv`); that is
what `shouldRetryRequest` goes by, so that when a new attempt starts, the earlier
ones of the hop are over, none met an error of the body, and they wrote something
only if the request may be repeated (`AttemptInv`).  The body of the next attempt is
unread (`Fresh`): for a retry `rewindBody` sees to it, on a redirect `GetBody` has just
made it.  `RespInv` pairs open responses
and timers with the step of `do`.  The `writeLoop`s interleave with everything: their
steps are one lemma (`MovesKeeps`) about whatever reads, writes or closes on.

`BodyProofs` proves, for any messages of the type `Message`, any extensions, limits,
buffers and drain bound, and an allowance per chunk of at least three bytes
(`BodyAssumption`; the code has 16):

* `OverheadStaysBounded`, `ReadsSound`: `OverheadBounded` and `ReadSound`, whatever is on
  the wire;
* `EOFMeansEverything`, `StandsAtBoundary`, `HonestIsAccepted`: `EOFMeansAll`,
  `AtBoundary` and `HonestAccepted`.

The first two need the reader alone (`ReadInvariance`): the account of `beginChunk` as
a sum over the chunks accepted, with the two bytes that the CRLF of the chunk at hand
will cost (`AccountInv`), and what the limit of `maxBytesReader` leaves (`LimitInv`).
The others relate both ends (`FramedInvariance`).  The wire of a chunked body is a run
of a small automaton whose places are a size line, data, a CRLF, the trailer and the
next message (`Follows`, `Run`): no fold over the data is needed, the writer extends
a run at its end chunk by chunk and the reader takes it from the front.  The
invariant says that the rest of the wire is a run from the place the `chunkedReader`
has reached (`Here`) and, unless the connection broke, that it leads to the end;
without chunks it says how many bytes are due (`Plain`).  `Agreement` is the lemma in
between: from the header that a `transferWriter` wrote, `readTransfer` builds the kind
of body that matches its bytes.  It is where the exceptions `SenderUnframed` and
`WriterUnframed` are needed.  An allowance of three bytes is what `HonestAccepted`
needs: a chunk of n bytes costs at most n digits and two CRLFs, against twice n and
the allowance.

`H2FramerProofs` proves `BlocksSound`: `Spec => []BlockSound`, for any streams, fragments
and limits.  The invariant (`Invariance`) keeps the block under way well-formed field by
field, whatever was refused, and ties its stream to `lastHeaderStream`, which is
what `checkFrameOrder` compares a CONTINUATION with.

`ServerResponseProofs` proves, for any requests and handler headers, any writes, status
codes and calls, any size of the buffer and any drain bound (`ResponseAssumption`: the
requests are what `readRequest` returns, codes have three digits, buffer and bound
are not empty):

* `ResponseInvariant`, `ContinueInvariant`: `Spec => []IInv`, `Spec => []ContinueInv`;
* `SpecReuseInSync`, `SpecNothingLost`, `SpecCloseAnnounced`: `ReuseInSync`, `NothingLost`
  and `CloseAnnounced`.

The properties compare the end of an exchange with what was decided when the header
was sent, which may be at any of a dozen moments.  The invariant carries the decision
along.  `WireInv` says that before the header only informational ones are on the wire,
and behind it only what `HeaderTells`: under chunked coding chunks, and an end that is
last; with a Content-Length plain data; with neither, nothing, or a connection that
closes; and that "close" was said if `closeAfterReply` is set, in whatever state the
handler's header was (`PutHeaderFacts`, the longest lemma: it goes through
`chunkWriter.writeHeader`).  `StageInv` keeps the length that `WriteHeader` parsed until
`writeHeader` uses it or, once the handler is done, fills it in.  `Counted` is the
account of the bytes: written is what lies on the wire, in the buffer, and in the write
under way, until one write was refused.  `RequestInv` says what is true of the request
body once the header promised to keep the connection: read to its end or, if the
handler wrapped it, closed, so that `requestTooLarge` cannot withdraw the promise
(`ReadTooLargeKeeps`).  Each step of the response that the handler's calls are made of
(`SetStatus`, `BufWrite`, `BufFlush`, `HeaderOut`, `Put`, `CloseChunks`, `CloseBody`,
`ConsumeBody`) has its lemma, and the actions combine them.

`ReuseInSync` also has to see where `100 Continue` came, which `ContinueInv` follows: a
reader that is past its `100 Continue` finds `canWriteContinue` cleared, one that may
still write it has not read the body to its end, so that a header which went out
before closes the connection, unless the body is wrapped (`Settled`).  Each step of the
response only moves on in that respect (`Forward`).

`Amount` adds up the bytes on the wire with a recursive function.  That the function
exists and what it gives for a longer or a shorter wire (`SumsExist`, `AmountAppend`,
`AmountBehind`) is proved by induction over the length, which the library's theorems
do not give here: a set of numbers that holds 0 and with each number the next one has
no least missing member (`SetInduction`, from the well-foundedness of the order on
numbers).

Only model-checked:

* liveness (`GetConnReturns`, `RoundTripReturns`, `LoopsEnd`, `ShutdownReturns`,
  `AbortEnds`, `TimeoutReturns`, `DialEnds`), which the prover cannot reach;
* `Routing`, whose tree walk is recursive (RECURSIVE operators are out of its reach);
* `Dial`, which has no constants: TLC's run is exhaustive.

## Not modelled

* `dialParallel`'s fallback race: unreachable with one address.
* The HTTP/2 server above the Framer: a stub at this commit; its inflow accounting is
  never called.
* `httptest.Server`: a helper for tests of other code over `ConnState`, whose
  transitions `ConnStateLaw` checks.
* `routing_index.go`: not called at this commit.
* Parsing and formatting of characters (headers, cookies, URLs, IP addresses), system
  calls and name resolution, TLS, HTTP/2 on the client (not wired up), `Server`'s
  read deadlines and header limit, sendfile.

What could follow: `ConnReader` composed with `ServerLifecycle`, so that a sweep meets
a background read; the two-array `wantConnQueue` as an implementation of a sequence;
informational responses as steps of `PersistConn`; a handler that switches protocols in
`ServerResponse`; the tree walk of `Routing` with recursive functions.
