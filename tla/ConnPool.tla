------------------------------ MODULE ConnPool ------------------------------
(***************************************************************************)
(* The connection pool of http.Transport (src/http/transport.go): how a    *)
(* call of getConn obtains a persistConn, either an idle one or a newly    *)
(* dialed one, and what becomes of the connection afterwards.              *)
(*                                                                         *)
(* Goroutines.  Every getConn call w has its own goroutine (call[w]) and   *)
(* at most one dialConnFor goroutine (dial[w]); every persistConn has a    *)
(* readLoop goroutine (readLoop[c]).  A running putOrCloseIdleConn or      *)
(* tryPutIdleConn call is a record in puts.  One action is one critical    *)
(* section of the code (idleMu, connsPerHostMu, w.mu or pc.mu): where the  *)
(* code releases a lock, another goroutine may step in.                    *)
(*                                                                         *)
(* A wantConn is used by one getConn call only, and dialConnFor runs at    *)
(* most once for it, so the connection that was dialed on behalf of w is   *)
(* named w too: Conns = Wants.                                             *)
(*                                                                         *)
(* Left out because nothing here depends on it: pc.reused and the tracing  *)
(* hooks; idleTimer and idleAt are represented by the fact that a          *)
(* connection in idleLRU may be found too old at any time when             *)
(* IdleConnTimeout is set.  pc.alt is always nil (HTTP/2 is not wired up). *)
(***************************************************************************)
EXTENDS Integers, Sequences, FiniteSets, SequencesExt

CONSTANTS
  Wants,               \* the getConn calls, each with its wantConn
  Keys,                \* connectMethodKeys
  KeyOf,               \* the key of each wantConn (w.key)
  Cancellable,         \* the calls whose request may be canceled while waiting
  NoConn,              \* the nil *persistConn
  DisableKeepAlives,   \* Transport.DisableKeepAlives
  MaxIdleConns,        \* Transport.MaxIdleConns: 0 means no limit
  MaxIdleConnsPerHost, \* Transport.MaxIdleConnsPerHost: 0 means the default
  MaxConnsPerHost,     \* Transport.MaxConnsPerHost: 0 means no limit
  IdleConnTimeout      \* whether Transport.IdleConnTimeout is positive

ASSUME PoolAssumption ==
  /\ IsFiniteSet(Wants)
  /\ KeyOf \in [Wants -> Keys]
  /\ Cancellable \subseteq Wants
  /\ NoConn \notin Wants
  /\ DisableKeepAlives \in BOOLEAN
  /\ IdleConnTimeout \in BOOLEAN
  /\ MaxIdleConns \in Int
  /\ MaxIdleConnsPerHost \in Int
  /\ MaxConnsPerHost \in Int

Conns == Wants

DefaultMaxIdleConnsPerHost == 2

maxIdleConnsPerHost ==
  IF MaxIdleConnsPerHost # 0 THEN MaxIdleConnsPerHost
                             ELSE DefaultMaxIdleConnsPerHost

VARIABLES
  idleConn,         \* per key, the idle connections, most recently used last
  idleConnWait,     \* per key, the queue of wants waiting for an idle connection
  idleLRU,          \* all idle connections, least recently used first
  closeIdle,        \* whether the user asked to close idle connections
  connsPerHost,     \* per key, how many dials and connections are counted
  connsPerHostWait, \* per key, the queue of wants waiting for leave to dial
  wpc,              \* w.pc: the connection delivered to w
  werr,             \* whether w.err is set
  call,             \* where the getConn call, then the request, stands
  dial,             \* where dialConnFor(w) stands
  readLoop,         \* where the readLoop of the connection stands
  closed,           \* pc.closed # nil
  puts,             \* the tryPutIdleConn calls that are under way
  closing           \* taken out by CloseIdleConnections, still to be closed

idleVars == <<idleConn, idleConnWait, idleLRU, closeIdle>>
hostVars == <<connsPerHost, connsPerHostWait>>
wantVars == <<wpc, werr>>
vars == <<idleVars, hostVars, wantVars, call, dial, readLoop, closed, puts,
          closing>>

Callers  == {"start", "queueForDial", "select", "cancel", "got", "using",
             "leaving", "done"}
Dialers  == {"none", "spawned", "dialing", "dialed", "failed", "dec",
             "aborted", "done"}
Loops    == {"none", "run", "exit", "gone"}
PutSteps == {"isBroken", "locked", "close"}
PutCalls == [by : {"dialConnFor", "cancel", "roundTrip", "readLoop"}, of : Wants,
             pc : Conns, step : PutSteps]

TypeOK ==
  /\ idleConn \in [Keys -> Seq(Conns)]
  /\ idleConnWait \in [Keys -> Seq(Wants)]
  /\ idleLRU \in Seq(Conns)
  /\ closeIdle \in BOOLEAN
  /\ connsPerHost \in [Keys -> Int]
  /\ connsPerHostWait \in [Keys -> Seq(Wants)]
  /\ wpc \in [Wants -> Conns \cup {NoConn}]
  /\ werr \in [Wants -> BOOLEAN]
  /\ call \in [Wants -> Callers]
  /\ dial \in [Wants -> Dialers]
  /\ readLoop \in [Conns -> Loops]
  /\ closed \in [Conns -> BOOLEAN]
  /\ puts \subseteq PutCalls
  /\ closing \subseteq Conns

Init ==
  /\ idleConn = [k \in Keys |-> <<>>]
  /\ idleConnWait = [k \in Keys |-> <<>>]
  /\ idleLRU = <<>>
  /\ closeIdle = FALSE
  /\ connsPerHost = [k \in Keys |-> 0]
  /\ connsPerHostWait = [k \in Keys |-> <<>>]
  /\ wpc = [w \in Wants |-> NoConn]
  /\ werr = [w \in Wants |-> FALSE]
  /\ call = [w \in Wants |-> "start"]
  /\ dial = [w \in Wants |-> "none"]
  /\ readLoop = [c \in Conns |-> "none"]
  /\ closed = [c \in Conns |-> FALSE]
  /\ puts = {}
  /\ closing = {}

-----------------------------------------------------------------------------
(***************************************************************************)
(* wantConn.  ready is closed, and ctx cleared, exactly when pc or err is  *)
(* set, so waiting(w) also stands for "ctx is not nil".                    *)
(***************************************************************************)
waiting(w) == wpc[w] = NoConn /\ ~werr[w]

getCtxForDial(w) == waiting(w)

firstWaiting(q) == SelectInSeq(q, waiting)

\* What is left of a queue after its front, up to but without index i.
from(q, i) == SubSeq(q, i, Len(q))

cleanFront(q) == IF firstWaiting(q) = 0 THEN <<>> ELSE from(q, firstWaiting(q))

\* What is left of a queue when wants are popped until one still waits.
popWaiting(q) ==
  IF firstWaiting(q) = 0 THEN <<>> ELSE from(q, firstWaiting(q) + 1)

-----------------------------------------------------------------------------
(***************************************************************************)
(* Closing a connection.  d is the dial state after the step of the        *)
(* goroutine that closes; the freed permission may start one more dial.    *)
(***************************************************************************)
\* Mutant: a freed permission is not handed to a waiting want.
decConnsPerHostForgetsWaiters(k, d) ==
  /\ dial' = d
  /\ connsPerHost' = [connsPerHost EXCEPT ![k] = @ - 1]
  /\ UNCHANGED connsPerHostWait

decConnsPerHost(k, d) ==
  LET q == connsPerHostWait[k]
      i == firstWaiting(q)
  IN  \/ /\ MaxConnsPerHost <= 0
         /\ dial' = d
         /\ UNCHANGED hostVars
      \/ /\ MaxConnsPerHost > 0
         /\ connsPerHostWait' = [connsPerHostWait EXCEPT ![k] = popWaiting(q)]
         /\ IF i # 0
            THEN /\ dial' = [d EXCEPT ![q[i]] = "spawned"]
                 /\ UNCHANGED connsPerHost
            ELSE /\ connsPerHost' = [connsPerHost EXCEPT ![k] = @ - 1]
                 /\ dial' = d

closeLocked(c, d) ==
  \/ /\ closed[c]
     /\ dial' = d
     /\ UNCHANGED <<closed, hostVars>>
  \/ /\ ~closed[c]
     /\ closed' = [closed EXCEPT ![c] = TRUE]
     /\ decConnsPerHost(KeyOf[c], d)

\* removeIdleConnLocked: the idle list and the LRU list without c.
withoutIdle(ic, c) == [ic EXCEPT ![KeyOf[c]] = RemoveFirst(@, c)]
\* Mutant: the connection is only taken out of the idle list.
withoutLRUForgotten(lru, c) == lru

withoutLRU(lru, c) == RemoveFirst(lru, c)

-----------------------------------------------------------------------------
(***************************************************************************)
(* tryPutIdleConn(c).  isBroken is tested before idleMu is taken.          *)
(***************************************************************************)
beginPut(by, w, c) == [by |-> by, of |-> w, pc |-> c, step |-> "isBroken"]

moveTo(p, step) == (puts \ {p}) \cup {[p EXCEPT !.step = step]}

TryPutIsBroken(p) ==
  /\ p.step = "isBroken"
  /\ puts' = moveTo(p, IF DisableKeepAlives \/ MaxIdleConnsPerHost < 0
                          \/ closed[p.pc]
                       THEN "close" ELSE "locked")
  /\ UNCHANGED <<idleVars, hostVars, wantVars, call, dial, readLoop, closed,
                 closing>>

\* Mutant: the connection goes to whoever waits, for whatever host.
TryPutDeliverAnyHost(p) ==
  \E k \in Keys :
    LET q == idleConnWait[k]
    IN  /\ p.step = "locked"
        /\ firstWaiting(q) # 0
        /\ wpc' = [wpc EXCEPT ![q[firstWaiting(q)]] = p.pc]
        /\ idleConnWait' = [idleConnWait EXCEPT ![k] = popWaiting(q)]
        /\ puts' = puts \ {p}
        /\ UNCHANGED <<idleConn, idleLRU, closeIdle, hostVars, werr, call,
                       dial, readLoop, closed, closing>>

\* The first want of idleConnWait that still waits gets the connection.
TryPutDeliver(p) ==
  LET k == KeyOf[p.pc]
      q == idleConnWait[k]
  IN  /\ p.step = "locked"
      /\ firstWaiting(q) # 0
      /\ wpc' = [wpc EXCEPT ![q[firstWaiting(q)]] = p.pc]
      /\ idleConnWait' = [idleConnWait EXCEPT ![k] = popWaiting(q)]
      /\ puts' = puts \ {p}
      /\ UNCHANGED <<idleConn, idleLRU, closeIdle, hostVars, werr, call, dial,
                     readLoop, closed, closing>>

hostFull(k) == Len(idleConn[k]) >= maxIdleConnsPerHost

tooManyIdle(lru) == MaxIdleConns # 0 /\ Len(lru) > MaxIdleConns

\* errCloseIdle, errTooManyIdleHost: the caller has to close the connection.
TryPutReject(p) ==
  LET k == KeyOf[p.pc]
  IN  /\ p.step = "locked"
      /\ firstWaiting(idleConnWait[k]) = 0
      /\ closeIdle \/ hostFull(k)
      /\ idleConnWait' = [idleConnWait EXCEPT ![k] = <<>>]
      /\ puts' = moveTo(p, "close")
      /\ UNCHANGED <<idleConn, idleLRU, closeIdle, hostVars, wantVars, call,
                     dial, readLoop, closed, closing>>

\* The connection goes idle; the oldest one is evicted beyond MaxIdleConns.
TryPutStore(p) ==
  LET k   == KeyOf[p.pc]
      ic  == [idleConn EXCEPT ![k] = Append(@, p.pc)]
      lru == Append(idleLRU, p.pc)
  IN  /\ p.step = "locked"
      /\ firstWaiting(idleConnWait[k]) = 0
      /\ ~closeIdle
      /\ ~hostFull(k)
      /\ idleConnWait' = [idleConnWait EXCEPT ![k] = <<>>]
      /\ IF tooManyIdle(lru)
         THEN /\ idleConn' = withoutIdle(ic, Head(lru))
              /\ idleLRU' = Tail(lru)
              /\ closeLocked(Head(lru), dial)
         ELSE /\ idleConn' = ic
              /\ idleLRU' = lru
              /\ UNCHANGED <<closed, hostVars, dial>>
      /\ puts' = puts \ {p}
      /\ UNCHANGED <<closeIdle, wantVars, call, readLoop, closing>>

\* tryPutIdleConn failed: putOrCloseIdleConn or the readLoop closes.
PutOrClose(p) ==
  /\ p.step = "close"
  /\ closeLocked(p.pc, dial)
  /\ puts' = puts \ {p}
  /\ UNCHANGED <<idleVars, wantVars, call, readLoop, closing>>

Put(p) ==
  \/ TryPutIsBroken(p)
  \/ TryPutDeliver(p)
  \/ TryPutReject(p)
  \/ TryPutStore(p)
  \/ PutOrClose(p)

-----------------------------------------------------------------------------
(***************************************************************************)
(* queueForIdleConn(w), the first step of getConn.                         *)
(*                                                                         *)
(* The list is searched from its most recently used end.  A broken         *)
(* connection, or one that has been idle too long, is dropped from the     *)
(* list (not from the LRU list).  Connections were appended in the order   *)
(* in which they became idle, so the ones that are too old are the ones at *)
(* positions 1..old.                                                       *)
(***************************************************************************)
ages(list) == IF IdleConnTimeout THEN 0 .. Len(list) ELSE {0}

usable(list, old) == {i \in (old + 1) .. Len(list) : ~closed[list[i]]}

QueueForIdleConnDisabled(w) ==
  /\ call[w] = "start"
  /\ DisableKeepAlives
  /\ call' = [call EXCEPT ![w] = "queueForDial"]
  /\ UNCHANGED <<idleVars, hostVars, wantVars, dial, readLoop, closed, puts,
                 closing>>

QueueForIdleConnDeliver(w) ==
  LET list == idleConn[KeyOf[w]]
  IN  /\ call[w] = "start"
      /\ ~DisableKeepAlives
      /\ \E old \in ages(list) :
           LET i == Max(usable(list, old))
           IN  /\ usable(list, old) # {}
               /\ wpc' = [wpc EXCEPT ![w] = list[i]]
               /\ idleLRU' = withoutLRU(idleLRU, list[i])
               /\ idleConn' = [idleConn EXCEPT
                                 ![KeyOf[w]] = SubSeq(list, 1, i - 1)]
      /\ closeIdle' = FALSE
      /\ call' = [call EXCEPT ![w] = "got"]
      /\ UNCHANGED <<idleConnWait, hostVars, werr, dial, readLoop, closed,
                     puts, closing>>

QueueForIdleConnWait(w) ==
  LET list == idleConn[KeyOf[w]]
  IN  /\ call[w] = "start"
      /\ ~DisableKeepAlives
      /\ \E old \in ages(list) : usable(list, old) = {}
      /\ idleConn' = [idleConn EXCEPT ![KeyOf[w]] = <<>>]
      /\ idleConnWait' = [idleConnWait EXCEPT
                            ![KeyOf[w]] = Append(cleanFront(@), w)]
      /\ closeIdle' = FALSE
      /\ call' = [call EXCEPT ![w] = "queueForDial"]
      /\ UNCHANGED <<idleLRU, hostVars, wantVars, dial, readLoop, closed,
                     puts, closing>>

QueueForIdleConn(w) ==
  \/ QueueForIdleConnDisabled(w)
  \/ QueueForIdleConnDeliver(w)
  \/ QueueForIdleConnWait(w)

-----------------------------------------------------------------------------
(* queueForDial(w): start the dial, or wait for leave to do so. *)
\* Mutant: off by one.
mayDialOffByOne(k) == connsPerHost[k] <= MaxConnsPerHost

mayDial(k) == connsPerHost[k] < MaxConnsPerHost

QueueForDial(w) ==
  LET k == KeyOf[w]
  IN  /\ call[w] = "queueForDial"
      /\ call' = [call EXCEPT ![w] = "select"]
      /\ \/ /\ MaxConnsPerHost <= 0
            /\ dial' = [dial EXCEPT ![w] = "spawned"]
            /\ UNCHANGED hostVars
         \/ /\ MaxConnsPerHost > 0
            /\ mayDial(k)
            /\ connsPerHost' = [connsPerHost EXCEPT ![k] = @ + 1]
            /\ dial' = [dial EXCEPT ![w] = "spawned"]
            /\ UNCHANGED connsPerHostWait
         \/ /\ MaxConnsPerHost > 0
            /\ ~mayDial(k)
            /\ connsPerHostWait' = [connsPerHostWait EXCEPT
                                      ![k] = Append(cleanFront(@), w)]
            /\ UNCHANGED <<connsPerHost, dial>>
      /\ UNCHANGED <<idleVars, wantVars, readLoop, closed, puts, closing>>

(* The select of getConn: a connection, an error, or a cancellation. *)
SelectReady(w) ==
  /\ call[w] = "select"
  /\ ~waiting(w)
  /\ call' = [call EXCEPT ![w] = IF werr[w] THEN "done" ELSE "got"]
  /\ UNCHANGED <<idleVars, hostVars, wantVars, dial, readLoop, closed, puts,
                 closing>>

SelectCanceled(w) ==
  /\ call[w] = "select"
  /\ w \in Cancellable
  /\ call' = [call EXCEPT ![w] = "cancel"]
  /\ UNCHANGED <<idleVars, hostVars, wantVars, dial, readLoop, closed, puts,
                 closing>>

(* w.cancel, deferred by getConn: a delivered connection is handed back. *)
WantConnCancel(w) ==
  /\ call[w] = "cancel"
  /\ call' = [call EXCEPT ![w] = "done"]
  /\ wpc' = [wpc EXCEPT ![w] = NoConn]
  /\ werr' = [werr EXCEPT ![w] = TRUE]
  /\ puts' = puts \cup (IF wpc[w] = NoConn THEN {}
                        ELSE {beginPut("cancel", w, wpc[w])})
  /\ UNCHANGED <<idleVars, hostVars, dial, readLoop, closed, closing>>

GetConn(w) ==
  \/ QueueForIdleConn(w)
  \/ QueueForDial(w)
  \/ SelectReady(w)
  \/ WantConnCancel(w)

-----------------------------------------------------------------------------
(***************************************************************************)
(* dialConnFor(w).  A want that no longer waits when the goroutine gets to *)
(* run makes it return at once ("aborted").                                *)
(***************************************************************************)
DialStart(w) ==
  /\ dial[w] = "spawned"
  /\ dial' = [dial EXCEPT ![w] = IF getCtxForDial(w) THEN "dialing"
                                                     ELSE "aborted"]
  /\ UNCHANGED <<idleVars, hostVars, wantVars, call, readLoop, closed, puts,
                 closing>>

\* dialConn returns a connection and has started its readLoop, or an error.
DialConn(w) ==
  /\ dial[w] = "dialing"
  /\ \/ /\ dial' = [dial EXCEPT ![w] = "dialed"]
        /\ readLoop' = [readLoop EXCEPT ![w] = "run"]
     \/ /\ dial' = [dial EXCEPT ![w] = "failed"]
        /\ UNCHANGED readLoop
  /\ UNCHANGED <<idleVars, hostVars, wantVars, call, closed, puts, closing>>

\* Mutant: dialConnFor pools its connection without asking tryDeliver's result.
DialDeliverAlwaysPuts(w) ==
  /\ dial[w] = "dialed"
  /\ dial' = [dial EXCEPT ![w] = "done"]
  /\ wpc' = IF waiting(w) THEN [wpc EXCEPT ![w] = w] ELSE wpc
  /\ puts' = puts \cup {beginPut("dialConnFor", w, w)}
  /\ UNCHANGED <<idleVars, hostVars, werr, call, readLoop, closed, closing>>

\* tryDeliver(pc, nil): a want that was served otherwise leaves pc to the pool.
DialDeliver(w) ==
  /\ dial[w] = "dialed"
  /\ dial' = [dial EXCEPT ![w] = "done"]
  /\ IF waiting(w)
     THEN /\ wpc' = [wpc EXCEPT ![w] = w]
          /\ UNCHANGED puts
     ELSE /\ puts' = puts \cup {beginPut("dialConnFor", w, w)}
          /\ UNCHANGED wpc
  /\ UNCHANGED <<idleVars, hostVars, werr, call, readLoop, closed, closing>>

\* tryDeliver(nil, err), then the count goes back.
DialDeliverErr(w) ==
  /\ dial[w] = "failed"
  /\ dial' = [dial EXCEPT ![w] = "dec"]
  /\ werr' = [werr EXCEPT ![w] = @ \/ waiting(w)]
  /\ UNCHANGED <<idleVars, hostVars, wpc, call, readLoop, closed, puts,
                 closing>>

DialDec(w) ==
  /\ dial[w] = "dec"
  /\ decConnsPerHost(KeyOf[w], [dial EXCEPT ![w] = "done"])
  /\ UNCHANGED <<idleVars, wantVars, call, readLoop, closed, puts, closing>>

DialConnFor(w) ==
  \/ DialStart(w)
  \/ DialConn(w)
  \/ DialDeliver(w)
  \/ DialDeliverErr(w)
  \/ DialDec(w)

-----------------------------------------------------------------------------
(***************************************************************************)
(* The request on its connection.  The protocol between roundTrip,         *)
(* readLoop and writeLoop is reduced to how a use of the connection ends.  *)
(***************************************************************************)
RoundTripStart(w) ==
  /\ call[w] = "got"
  /\ call' = [call EXCEPT ![w] = "using"]
  /\ UNCHANGED <<idleVars, hostVars, wantVars, dial, readLoop, closed, puts,
                 closing>>

\* The canceler set by getConn is gone: the connection goes back unused.
RoundTripCanceled(w) ==
  /\ call[w] = "got"
  /\ w \in Cancellable
  /\ call' = [call EXCEPT ![w] = "done"]
  /\ puts' = puts \cup {beginPut("roundTrip", w, wpc[w])}
  /\ UNCHANGED <<idleVars, hostVars, wantVars, dial, readLoop, closed, closing>>

readLoopPuts(c) == \E p \in puts : p.by = "readLoop" /\ p.pc = c

\* The response is complete: readLoop tries to return the connection, without
\* a body even before roundTrip has received the response.
FinishReuse(w) ==
  /\ call[w] = "using"
  /\ readLoop[wpc[w]] = "run"
  /\ ~readLoopPuts(wpc[w])
  /\ call' = [call EXCEPT ![w] = "leaving"]
  /\ puts' = puts \cup {beginPut("readLoop", wpc[w], wpc[w])}
  /\ UNCHANGED <<idleVars, hostVars, wantVars, dial, readLoop, closed, closing>>

RoundTripReturns(w) ==
  /\ call[w] = "leaving"
  /\ call' = [call EXCEPT ![w] = "done"]
  /\ UNCHANGED <<idleVars, hostVars, wantVars, dial, readLoop, closed, puts,
                 closing>>

\* The select of roundTrip prefers the header timeout or a write error to the
\* response, and closes a connection that may have been handed on already.
RoundTripLateClose(w) ==
  /\ call[w] = "leaving"
  /\ call' = [call EXCEPT ![w] = "done"]
  /\ closeLocked(wpc[w], dial)
  /\ UNCHANGED <<idleVars, wantVars, readLoop, puts, closing>>

\* roundTrip sees closech closed and returns the error.
FinishBroken(w) ==
  /\ call[w] = "using"
  /\ closed[wpc[w]]
  /\ call' = [call EXCEPT ![w] = "done"]
  /\ UNCHANGED <<idleVars, hostVars, wantVars, dial, readLoop, closed, puts,
                 closing>>

\* roundTrip or cancelRequest closes: write error, timeout, cancellation.
AbortInUse(w) ==
  /\ call[w] = "using"
  /\ ~closed[wpc[w]]
  /\ closeLocked(wpc[w], dial)
  /\ UNCHANGED <<idleVars, wantVars, call, readLoop, puts, closing>>

\* readLoop ends (EOF, bad response, no keep-alive, closed): deferred close.
ReadLoopExit(c) ==
  /\ readLoop[c] = "run"
  /\ ~readLoopPuts(c)
  /\ readLoop' = [readLoop EXCEPT ![c] = "exit"]
  /\ closeLocked(c, dial)
  /\ UNCHANGED <<idleVars, wantVars, call, puts, closing>>

\* ... and then removeIdleConn.
ReadLoopRemoveIdle(c) ==
  /\ readLoop[c] = "exit"
  /\ readLoop' = [readLoop EXCEPT ![c] = "gone"]
  /\ idleConn' = withoutIdle(idleConn, c)
  /\ idleLRU' = withoutLRU(idleLRU, c)
  /\ UNCHANGED <<idleConnWait, closeIdle, hostVars, wantVars, call, dial,
                 closed, puts, closing>>

-----------------------------------------------------------------------------
(* closeConnIfStillIdle, run by the idle timer or by queueForIdleConn. *)
CloseConnIfStillIdle(c) ==
  /\ IdleConnTimeout
  /\ c \in ToSet(idleLRU)
  /\ idleConn' = withoutIdle(idleConn, c)
  /\ idleLRU' = withoutLRU(idleLRU, c)
  /\ closeLocked(c, dial)
  /\ UNCHANGED <<idleConnWait, closeIdle, wantVars, call, readLoop, puts,
                 closing>>

\* Mutant: the LRU list is not reset.
CloseIdleConnectionsKeepsLRU ==
  /\ closing' = closing \cup UNION {ToSet(idleConn[k]) : k \in Keys}
  /\ idleConn' = [k \in Keys |-> <<>>]
  /\ closeIdle' = TRUE
  /\ UNCHANGED <<idleConnWait, idleLRU, hostVars, wantVars, call, dial,
                 readLoop, closed, puts>>

(* CloseIdleConnections empties the pool under idleMu, then closes. *)
CloseIdleConnections ==
  /\ closing' = closing \cup UNION {ToSet(idleConn[k]) : k \in Keys}
  /\ idleConn' = [k \in Keys |-> <<>>]
  /\ idleLRU' = <<>>
  /\ closeIdle' = TRUE
  /\ UNCHANGED <<idleConnWait, hostVars, wantVars, call, dial, readLoop,
                 closed, puts>>

CloseIdleConnectionsClose(c) ==
  /\ c \in closing
  /\ closing' = closing \ {c}
  /\ closeLocked(c, dial)
  /\ UNCHANGED <<idleVars, wantVars, call, readLoop, puts>>

-----------------------------------------------------------------------------
Next ==
  \/ \E w \in Wants :
       \/ GetConn(w)
       \/ SelectCanceled(w)
       \/ DialConnFor(w)
       \/ RoundTripStart(w)
       \/ RoundTripCanceled(w)
       \/ RoundTripReturns(w)
       \/ RoundTripLateClose(w)
       \/ FinishReuse(w)
       \/ FinishBroken(w)
       \/ AbortInUse(w)
  \/ \E p \in puts : Put(p)
  \/ \E c \in Conns :
       \/ ReadLoopExit(c)
       \/ ReadLoopRemoveIdle(c)
       \/ CloseConnIfStillIdle(c)
       \/ CloseIdleConnectionsClose(c)
  \/ CloseIdleConnections

Spec == Init /\ [][Next]_vars

(***************************************************************************)
(* Fairness: a goroutine that can take a step eventually takes one (the Go *)
(* scheduler), a dial ends (the dialer has a deadline or the network       *)
(* answers), and a request in use ends.  Cancellation, aborts, idle        *)
(* timeouts and CloseIdleConnections never have to happen.                 *)
(***************************************************************************)
Fairness ==
  /\ \A w \in Wants :
       /\ WF_vars(GetConn(w))
       /\ WF_vars(DialConnFor(w))
       /\ WF_vars(RoundTripStart(w) \/ RoundTripReturns(w))
       /\ WF_vars(FinishReuse(w) \/ FinishBroken(w))
  /\ \A c \in Conns :
       /\ WF_vars(\E p \in puts : p.pc = c /\ Put(p))
       /\ WF_vars(closed[c] /\ ReadLoopExit(c))
       /\ WF_vars(ReadLoopRemoveIdle(c))
       /\ WF_vars(CloseIdleConnectionsClose(c))

FairSpec == Spec /\ Fairness

-----------------------------------------------------------------------------
(***************************************************************************)
(* Who has a connection.                                                   *)
(***************************************************************************)
\* delivered to w, and the getConn call or the request of w not over yet
Uses(w, c) == wpc[w] = c /\ call[w] \notin {"leaving", "done"}

\* in the hands of dialConnFor, not delivered yet
JustDialed(c) == dial[c] = "dialed"

Idle(c) == c \in ToSet(idleConn[KeyOf[c]])

BeingPut(c) == \E p \in puts : p.pc = c

InUse(c) == \E w \in Wants : Uses(w, c)

(***************************************************************************)
(* ExclusiveUse: an HTTP/1 connection has one owner at a time.  It is      *)
(* never in use by two requests, never in use while it sits in the idle    *)
(* list, is being returned, or is on the list CloseIdleConnections is      *)
(* about to close, and no two goroutines return it to the pool at once.    *)
(* The code keeps no owner field: this rests on how dialConnFor, cancel,   *)
(* tryPutIdleConn, queueForIdleConn and readLoop hand it to each other.    *)
(***************************************************************************)
ExclusiveUse ==
  \A c \in Conns :
    /\ \A v, w \in Wants : Uses(v, c) /\ Uses(w, c) => v = w
    /\ \A p, q \in puts : p.pc = c /\ q.pc = c => p = q
    /\ InUse(c) => ~(BeingPut(c) \/ JustDialed(c) \/ Idle(c) \/ c \in closing)
    /\ BeingPut(c) => ~(JustDialed(c) \/ Idle(c) \/ c \in closing)
    /\ JustDialed(c) => ~(Idle(c) \/ c \in closing)
    /\ Idle(c) => c \notin closing

(***************************************************************************)
(* RightHost: whatever path a connection took to a request (idle list,     *)
(* idleConnWait, its own dial), it was dialed for the request's key.       *)
(***************************************************************************)
RightHost ==
  \A w \in Wants : wpc[w] # NoConn => KeyOf[wpc[w]] = KeyOf[w]

(***************************************************************************)
(* NoPoolPanic: neither log.Fatalf("dup idle pconn ... in freelist") nor   *)
(* panic("persistConn was already in LRU") can be reached.  The second one *)
(* is not implied by the first: queueForIdleConn drops a connection from   *)
(* the idle list and leaves it in the LRU list.                            *)
(***************************************************************************)
NoPoolPanic ==
  \A p \in puts : p.step = "locked" => p.pc \notin ToSet(idleLRU) /\ ~Idle(p.pc)

(***************************************************************************)
(* IdleLimits: the two limits on idle connections hold at every release of *)
(* idleMu, and the LRU list, on which eviction and the idle timeout        *)
(* depend, misses no idle connection.                                      *)
(***************************************************************************)
IdleLimits ==
  /\ \A k \in Keys :
       /\ Len(idleConn[k]) <= Max({0, maxIdleConnsPerHost})
       /\ ToSet(idleConn[k]) \subseteq ToSet(idleLRU)
  /\ MaxIdleConns # 0 => Len(idleLRU) <= Max({0, MaxIdleConns})

-----------------------------------------------------------------------------
(***************************************************************************)
(* The per-host count.                                                     *)
(***************************************************************************)
\* a connection that exists and is not closed
Open(c) == readLoop[c] # "none" /\ ~closed[c]

\* a dial that has its permission and has not given it back
HasPermission(w) ==
  dial[w] \in {"spawned", "dialing", "failed", "dec", "aborted"}

Counted(k) == {w \in Wants : KeyOf[w] = k /\ (HasPermission(w) \/ Open(w))}

(***************************************************************************)
(* ConnCount: connsPerHost counts every dial with permission and every     *)
(* open connection exactly once, whoever closes, fails or hands over, so   *)
(* the panic("connCount underflow") of decConnsPerHost is unreachable.     *)
(***************************************************************************)
ConnCount ==
  MaxConnsPerHost > 0 =>
    \A k \in Keys : connsPerHost[k] = Cardinality(Counted(k))

(***************************************************************************)
(* HostLimit: Transport.MaxConnsPerHost "limits the total number of        *)
(* connections per host, including connections in the dialing, active, and *)
(* idle states": dials under way and connections not yet closed.           *)
(***************************************************************************)
HostLimit ==
  MaxConnsPerHost > 0 =>
    \A k \in Keys :
      Cardinality({w \in Wants : KeyOf[w] = k /\ (dial[w] = "dialing" \/ Open(w))})
        <= MaxConnsPerHost

(***************************************************************************)
(* PoolLimits: the limits of the Transport hold together.  A connection    *)
(* that leaves one account without entering the next one breaks a limit    *)
(* only in steps of other requests.                                        *)
(***************************************************************************)
PoolLimits == IdleLimits /\ HostLimit /\ ConnCount

(***************************************************************************)
(* NoOrphan: an open connection always has somebody who will use it, reuse *)
(* it or close it: it does not leak.                                       *)
(***************************************************************************)
NoOrphan ==
  \A c \in Conns :
    Open(c) => \/ InUse(c) \/ BeingPut(c) \/ JustDialed(c)
               \/ Idle(c) \/ c \in closing
               \/ IdleConnTimeout /\ c \in ToSet(idleLRU)

(***************************************************************************)
(* SlotReturned: the comment of dialConnFor, "If the dial is canceled or   *)
(* unsuccessful, dialConnFor decrements t.connCount[w.cm.key()]": a        *)
(* goroutine that has returned without a connection is no longer counted.  *)
(***************************************************************************)
SlotReturned ==
  MaxConnsPerHost > 0 =>
    \A k \in Keys :
      connsPerHost[k] =
        Cardinality({w \in Counted(k) : dial[w] # "aborted"})

(***************************************************************************)
(* GetConnReturns: a getConn call that waits for a connection gets one, or *)
(* an error.                                                               *)
(***************************************************************************)
GetConnReturns ==
  \A w \in Wants : call[w] = "select" ~> call[w] \in {"got", "done"}

-----------------------------------------------------------------------------
(***************************************************************************)
(* The inductive invariant behind ExclusiveUse, RightHost and NoPoolPanic. *)
(* The reachable states satisfy more than the properties say: a connection *)
(* that anybody may hold has left its dialConnFor, the two idle lists have *)
(* no duplicates and agree, and a want that queues for leave to dial has   *)
(* no dialConnFor yet, so that a freed permission starts only one.         *)
(***************************************************************************)
Born(c) == dial[c] = "done" /\ readLoop[c] # "none"

KeyInv ==
  /\ RightHost
  /\ \A k \in Keys : \A w \in ToSet(idleConnWait[k]) : KeyOf[w] = k
  /\ \A k \in Keys : \A c \in ToSet(idleConn[k]) : KeyOf[c] = k

IdleInv ==
  /\ IsInjective(idleLRU)
  /\ \A k \in Keys : /\ IsInjective(idleConn[k])
                     /\ ToSet(idleConn[k]) \subseteq ToSet(idleLRU)

\* what a request, a tryPutIdleConn call and the pool itself hold
UserInv ==
  /\ \A w \in Wants, c \in Conns :
       Uses(w, c) => /\ Born(c)
                     /\ c \notin ToSet(idleLRU)
                     /\ c \notin closing
                     /\ \A p \in puts : p.pc # c
  /\ \A v, w \in Wants, c \in Conns : Uses(v, c) /\ Uses(w, c) => v = w
  /\ \A w \in Wants, c \in Conns : wpc[w] = c => Born(c)

PutInv ==
  /\ \A p \in puts : /\ Born(p.pc)
                     /\ p.pc \notin ToSet(idleLRU)
                     /\ p.pc \notin closing
  /\ \A p, q \in puts : p.pc = q.pc => p = q

ParkedInv ==
  /\ \A c \in Conns : c \in ToSet(idleLRU) => Born(c) /\ c \notin closing
  /\ \A c \in closing : Born(c)

OwnerInv == UserInv /\ PutInv /\ ParkedInv

DialInv ==
  /\ \A w \in Wants :
       /\ call[w] \in {"start", "queueForDial"} => dial[w] = "none"
       /\ call[w] \in {"got", "using", "leaving"} => wpc[w] # NoConn
       /\ dial[w] = "dialed" => readLoop[w] # "none"
       /\ dial[w] \notin {"dialed", "done"} => readLoop[w] = "none"
       /\ closed[w] => readLoop[w] # "none"
  /\ \A k \in Keys :
       /\ IsInjective(connsPerHostWait[k])
       /\ \A w \in ToSet(connsPerHostWait[k]) :
            /\ KeyOf[w] = k
            /\ dial[w] = "none"
            /\ call[w] \notin {"start", "queueForDial"}

PoolInv == TypeOK /\ KeyInv /\ IdleInv /\ OwnerInv /\ DialInv

=============================================================================
