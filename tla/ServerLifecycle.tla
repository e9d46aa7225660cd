--------------------------- MODULE ServerLifecycle ---------------------------
(***************************************************************************)
(* The life of http.Server (src/http/server.go): Serve accepts             *)
(* connections and tracks them, conn.serve moves each through its          *)
(* ConnState, and Shutdown and SetKeepAlivesEnabled(false) sweep the idle  *)
(* ones with closeIdleConns.                                               *)
(*                                                                         *)
(* One action is one critical section of srv.mu, one access to an atomic   *)
(* word or one call that may block.  closeIdleConns keeps srv.mu over many *)
(* steps, because it reads the state of each connection, which is not      *)
(* under the lock, before it closes it.                                    *)
(*                                                                         *)
(* Requests and responses are left out, but for whether the connection can *)
(* be reused; the clock is reduced to StateNew being over 5 seconds old.   *)
(* There is no recover in conn.serve, so a handler's panic ends the        *)
(* program and not the connection.  The listeners are plain TCP.           *)
(***************************************************************************)
CONSTANTS
  Loops,      \* the calls of Serve, each with its own listener
  Conns,      \* the connections that clients may open
  Shutdowns,  \* the calls of Shutdown
  Setters,    \* the calls of SetKeepAlivesEnabled
  Nobody      \* not one of these

ASSUME ServerAssumption ==
  /\ Shutdowns \cap Setters = {}
  /\ Nobody \notin Conns \cup Shutdowns \cup Setters

Callers == Shutdowns \cup Setters

VARIABLES
  inShutdown,         \* srv.inShutdown
  disableKeepAlives,  \* srv.disableKeepAlives
  mu,                 \* who keeps srv.mu across steps, or Nobody
  listeners,          \* srv.listeners; srv.listenerGroup counts them
  lnClosed,           \* the listeners that are closed
  sv, acc,            \* Serve: where it stands, the connection just accepted
  activeConn,         \* srv.activeConn
  curState,           \* c.curState, Unset before the first setState
  old,                \* connections whose StateNew is over 5 seconds old
  rwcClosed,          \* connections whose c.rwc is closed
  hijacked,           \* c.hijackedv
  pc,                 \* conn.serve
  sd,                 \* Shutdown or SetKeepAlivesEnabled
  todo, victim, quiescent \* the locals of the closeIdleConns that keeps mu

srvVars  == <<inShutdown, disableKeepAlives, mu>>
loopVars == <<listeners, lnClosed, sv, acc>>
connVars == <<activeConn, curState, old, rwcClosed, hijacked, pc>>
callVars == <<sd, todo, victim, quiescent>>
vars == <<srvVars, loopVars, connVars, callVars>>

LoopSteps == {"init", "accept", "accepted", "tracked", "untrack", "close", "done"}
ConnSteps == {"none", "accepted", "read", "parsed", "failed", "handler",
              "hijacking", "finish", "refuse", "setIdle", "check", "peek", "close",
              "untrack", "done"}
CallSteps == {"init", "listeners", "wait", "poll", "sweep", "tick", "expired",
              "done"}
ConnState == {"Unset", "New", "Active", "Idle", "Hijacked", "Closed"}

TypeOK ==
  /\ inShutdown \in BOOLEAN /\ disableKeepAlives \in BOOLEAN
  /\ mu \in Callers \cup {Nobody}
  /\ listeners \subseteq Loops /\ lnClosed \subseteq Loops
  /\ sv \in [Loops -> LoopSteps] /\ acc \in [Loops -> Conns \cup {Nobody}]
  /\ activeConn \subseteq Conns
  /\ curState \in [Conns -> ConnState]
  /\ old \subseteq Conns /\ rwcClosed \subseteq Conns /\ hijacked \subseteq Conns
  /\ pc \in [Conns -> ConnSteps]
  /\ sd \in [Callers -> CallSteps]
  /\ todo \subseteq Conns /\ victim \in Conns \cup {Nobody}
  /\ quiescent \in BOOLEAN

Init ==
  /\ inShutdown = FALSE /\ disableKeepAlives = FALSE /\ mu = Nobody
  /\ listeners = {} /\ lnClosed = {}
  /\ sv = [l \in Loops |-> "init"] /\ acc = [l \in Loops |-> Nobody]
  /\ activeConn = {} /\ old = {} /\ rwcClosed = {} /\ hijacked = {}
  /\ curState = [c \in Conns |-> "Unset"]
  /\ pc = [c \in Conns |-> "none"]
  /\ sd = [x \in Callers |-> "init"]
  /\ todo = {} /\ victim = Nobody /\ quiescent = TRUE

\* The lock srv.mu for a critical section of one step.
unlocked == mu = Nobody

\* Mutant: the flag of SetKeepAlivesEnabled is not read.
doKeepAlivesShutdownOnly == ~inShutdown

doKeepAlives == ~disableKeepAlives /\ ~inShutdown

setState(c, state) == curState' = [curState EXCEPT ![c] = state]

loopTo(l, step) == sv' = [sv EXCEPT ![l] = step]
connTo(c, step) == pc' = [pc EXCEPT ![c] = step]
callTo(x, step) == sd' = [sd EXCEPT ![x] = step]

-----------------------------------------------------------------------------
(***************************************************************************)
(* Serve.                                                                  *)
(***************************************************************************)
\* trackListener(&l, true)
ServeTrack(l) ==
  /\ sv[l] = "init"
  /\ unlocked
  /\ IF inShutdown
     THEN loopTo(l, "close") /\ UNCHANGED listeners
     ELSE loopTo(l, "accept") /\ listeners' = listeners \cup {l}
  /\ UNCHANGED <<srvVars, lnClosed, acc, connVars, callVars>>

ServeAccept(l) ==
  /\ sv[l] = "accept"
  /\ l \notin lnClosed
  /\ \E c \in Conns :
       /\ pc[c] = "none"
       /\ connTo(c, "accepted")
       /\ acc' = [acc EXCEPT ![l] = c]
  /\ loopTo(l, "accepted")
  /\ UNCHANGED <<srvVars, listeners, lnClosed, activeConn, curState, old,
                 rwcClosed, hijacked, callVars>>

\* A closed listener, or an error that is not temporary.
ServeAcceptError(l) ==
  /\ sv[l] = "accept"
  /\ loopTo(l, "untrack")
  /\ UNCHANGED <<srvVars, listeners, lnClosed, acc, connVars, callVars>>

\* Mutant: conn.serve starts before setState(StateNew).
ServeTrackConnStarts(l) ==
  /\ sv[l] = "accepted"
  /\ unlocked
  /\ activeConn' = activeConn \cup {acc[l]}
  /\ connTo(acc[l], "read")
  /\ loopTo(l, "tracked")
  /\ UNCHANGED <<srvVars, listeners, lnClosed, acc, curState, old, rwcClosed,
                 hijacked, callVars>>

\* setState(StateNew), its first half: trackConn(c, true) ...
ServeTrackConn(l) ==
  /\ sv[l] = "accepted"
  /\ unlocked
  /\ activeConn' = activeConn \cup {acc[l]}
  /\ loopTo(l, "tracked")
  /\ UNCHANGED <<srvVars, listeners, lnClosed, acc, curState, old, rwcClosed,
                 hijacked, pc, callVars>>

\* ... and the store; then go c.serve.
ServeConn(l) ==
  /\ sv[l] = "tracked"
  /\ setState(acc[l], "New")
  /\ connTo(acc[l], "read")
  /\ loopTo(l, "accept")
  /\ UNCHANGED <<srvVars, listeners, lnClosed, acc, activeConn, old, rwcClosed,
                 hijacked, callVars>>

\* The deferred trackListener(&l, false) and l.Close.
ServeUntrack(l) ==
  /\ sv[l] = "untrack"
  /\ unlocked
  /\ listeners' = listeners \ {l}
  /\ loopTo(l, "close")
  /\ UNCHANGED <<srvVars, lnClosed, acc, connVars, callVars>>

ServeClose(l) ==
  /\ sv[l] = "close"
  /\ lnClosed' = lnClosed \cup {l}
  /\ loopTo(l, "done")
  /\ UNCHANGED <<srvVars, listeners, acc, connVars, callVars>>

-----------------------------------------------------------------------------
(***************************************************************************)
(* conn.serve.  The stores of curState run the ConnState hook as well.     *)
(***************************************************************************)
connLeaves == <<srvVars, loopVars, callVars>>

\* readRequest: its last byte came before the connection was closed ...
ReadRequest(c) ==
  /\ pc[c] = "read"
  /\ c \notin rwcClosed
  /\ connTo(c, "parsed")
  /\ UNCHANGED <<connLeaves, activeConn, curState, old, rwcClosed, hijacked>>

\* ... or it fails, with some bytes of a request or with none.
ReadRequestError(c) ==
  /\ pc[c] = "read"
  /\ \E step \in {"failed", "close"} : connTo(c, step)
  /\ UNCHANGED <<connLeaves, activeConn, curState, old, rwcClosed, hijacked>>

\* setState(StateActive).  A request with an unknown Expect is refused, one
\* that could not be read is answered unless the connection failed.
SetActive(c) ==
  /\ pc[c] \in {"parsed", "failed"}
  /\ setState(c, "Active")
  /\ \E step \in IF pc[c] = "parsed" THEN {"handler", "refuse"} ELSE {"refuse", "close"} :
       connTo(c, step)
  /\ UNCHANGED <<connLeaves, activeConn, old, rwcClosed, hijacked>>

\* The handler calls Hijack ...
Hijack(c) ==
  /\ pc[c] = "handler"
  /\ c \notin hijacked
  /\ hijacked' = hijacked \cup {c}
  /\ connTo(c, "hijacking")
  /\ UNCHANGED <<connLeaves, activeConn, curState, old, rwcClosed>>

\* ... which ends with setState(StateHijacked).
HijackState(c) ==
  /\ pc[c] = "hijacking"
  /\ unlocked
  /\ activeConn' = activeConn \ {c}
  /\ setState(c, "Hijacked")
  /\ connTo(c, "handler")
  /\ UNCHANGED <<connLeaves, old, rwcClosed, hijacked>>

\* The error answer is written, which may wait for the client.
Refuse(c) ==
  /\ pc[c] = "refuse"
  /\ connTo(c, "close")
  /\ UNCHANGED <<connLeaves, activeConn, curState, old, rwcClosed, hijacked>>

\* ServeHTTP returns.
HandlerReturns(c) ==
  /\ pc[c] = "handler"
  /\ connTo(c, IF c \in hijacked THEN "done" ELSE "finish")
  /\ UNCHANGED <<connLeaves, activeConn, curState, old, rwcClosed, hijacked>>

\* finishRequest writes what is left of the response and reads on in an unread
\* body, both of which may wait for the client; shouldReuseConnection decides.
Finish(c) ==
  /\ pc[c] = "finish"
  /\ \E step \in {"setIdle", "close"} : connTo(c, step)
  /\ UNCHANGED <<connLeaves, activeConn, curState, old, rwcClosed, hijacked>>

SetIdle(c) ==
  /\ pc[c] = "setIdle"
  /\ setState(c, "Idle")
  /\ connTo(c, "check")
  /\ UNCHANGED <<connLeaves, activeConn, old, rwcClosed, hijacked>>

CheckKeepAlives(c) ==
  /\ pc[c] = "check"
  /\ connTo(c, IF doKeepAlives THEN "peek" ELSE "close")
  /\ UNCHANGED <<connLeaves, activeConn, curState, old, rwcClosed, hijacked>>

\* Peek(4): the next request begins ...
Peek(c) ==
  /\ pc[c] = "peek"
  /\ c \notin rwcClosed
  /\ connTo(c, "read")
  /\ UNCHANGED <<connLeaves, activeConn, curState, old, rwcClosed, hijacked>>

\* ... or the client is gone, IdleTimeout expires or c.rwc is closed.
PeekError(c) ==
  /\ pc[c] = "peek"
  /\ connTo(c, "close")
  /\ UNCHANGED <<connLeaves, activeConn, curState, old, rwcClosed, hijacked>>

\* The deferred c.close, with nothing left to flush ...
ConnClose(c) ==
  /\ pc[c] = "close"
  /\ rwcClosed' = rwcClosed \cup {c}
  /\ connTo(c, "untrack")
  /\ UNCHANGED <<connLeaves, activeConn, curState, old, hijacked>>

\* ... and setState(StateClosed).
ConnUntrack(c) ==
  /\ pc[c] = "untrack"
  /\ unlocked
  /\ activeConn' = activeConn \ {c}
  /\ setState(c, "Closed")
  /\ connTo(c, "done")
  /\ UNCHANGED <<connLeaves, old, rwcClosed, hijacked>>

\* Five seconds pass after setState(StateNew).
Age(c) ==
  /\ curState[c] = "New"
  /\ c \notin old
  /\ old' = old \cup {c}
  /\ UNCHANGED <<connLeaves, activeConn, curState, rwcClosed, hijacked, pc>>

-----------------------------------------------------------------------------
(***************************************************************************)
(* Shutdown and SetKeepAlivesEnabled.                                      *)
(***************************************************************************)
ShutdownBegin(x) ==
  /\ x \in Shutdowns
  /\ sd[x] = "init"
  /\ inShutdown' = TRUE
  /\ callTo(x, "listeners")
  /\ UNCHANGED <<disableKeepAlives, mu, loopVars, connVars, todo, victim,
                 quiescent>>

closeListenersLocked(x) ==
  /\ sd[x] = "listeners"
  /\ unlocked
  /\ lnClosed' = lnClosed \cup listeners
  /\ callTo(x, "wait")
  /\ UNCHANGED <<srvVars, listeners, sv, acc, connVars, todo, victim, quiescent>>

\* Mutant: Shutdown does not wait for the accept loops.
ListenerGroupNoWait(x) ==
  /\ sd[x] = "wait"
  /\ callTo(x, "poll")
  /\ UNCHANGED <<srvVars, loopVars, connVars, todo, victim, quiescent>>

\* srv.listenerGroup.Wait()
ListenerGroupWait(x) ==
  /\ sd[x] = "wait"
  /\ listeners = {}
  /\ callTo(x, "poll")
  /\ UNCHANGED <<srvVars, loopVars, connVars, todo, victim, quiescent>>

\* closeIdleConns, from s.mu.Lock ...
SweepBegin(x) ==
  /\ sd[x] = "poll"
  /\ unlocked
  /\ mu' = x
  /\ todo' = activeConn
  /\ quiescent' = TRUE
  /\ callTo(x, "sweep")
  /\ UNCHANGED <<inShutdown, disableKeepAlives, loopVars, connVars, victim>>

\* Mutant: without the five seconds of issue 22682.
sweepIdleNever5s(c) == curState[c] = "Idle"

\* Mutant: a connection that is tracked and has no state yet counts as old.
sweepIdleUnset(c) ==
  curState[c] \in {"Idle", "Unset"} \/ (curState[c] = "New" /\ c \in old)

\* a connection without a state yet is never idle (unixSec == 0)
sweepIdle(c) == curState[c] = "Idle" \/ (curState[c] = "New" /\ c \in old)

\* ... one connection after another: getState ...
SweepLook(x) ==
  /\ mu = x
  /\ victim = Nobody
  /\ \E c \in todo :
       /\ todo' = todo \ {c}
       /\ IF sweepIdle(c)
          THEN victim' = c /\ UNCHANGED quiescent
          ELSE quiescent' = FALSE /\ UNCHANGED victim
  /\ UNCHANGED <<srvVars, loopVars, connVars, sd>>

\* ... and, if idle, c.rwc.Close and delete ...
SweepClose(x) ==
  /\ mu = x
  /\ victim # Nobody
  /\ rwcClosed' = rwcClosed \cup {victim}
  /\ activeConn' = activeConn \ {victim}
  /\ victim' = Nobody
  /\ UNCHANGED <<srvVars, loopVars, curState, old, hijacked, pc, sd, todo,
                 quiescent>>

\* ... to s.mu.Unlock.  Shutdown goes on until the server is quiescent.
SweepEnd(x) ==
  /\ mu = x
  /\ todo = {} /\ victim = Nobody
  /\ mu' = Nobody
  /\ callTo(x, IF x \in Setters \/ quiescent THEN "done" ELSE "tick")
  /\ UNCHANGED <<inShutdown, disableKeepAlives, loopVars, connVars, todo, victim,
                 quiescent>>

\* case <-timer.C
ShutdownTick(x) ==
  /\ sd[x] = "tick"
  /\ callTo(x, "poll")
  /\ UNCHANGED <<srvVars, loopVars, connVars, todo, victim, quiescent>>

\* case <-ctx.Done()
ShutdownExpires(x) ==
  /\ sd[x] = "tick"
  /\ callTo(x, "expired")
  /\ UNCHANGED <<srvVars, loopVars, connVars, todo, victim, quiescent>>

SetKeepAlivesEnabled(x) ==
  /\ x \in Setters
  /\ sd[x] = "init"
  /\ \E v \in BOOLEAN :
       /\ disableKeepAlives' = ~v
       /\ callTo(x, IF v THEN "done" ELSE "poll")
  /\ UNCHANGED <<inShutdown, mu, loopVars, connVars, todo, victim, quiescent>>

-----------------------------------------------------------------------------
Serve(l) ==
  \/ ServeTrack(l) \/ ServeAccept(l) \/ ServeAcceptError(l) \/ ServeTrackConn(l)
  \/ ServeConn(l) \/ ServeUntrack(l) \/ ServeClose(l)

ConnServe(c) ==
  \/ ReadRequest(c) \/ ReadRequestError(c) \/ SetActive(c) \/ Hijack(c)
  \/ HijackState(c) \/ Refuse(c) \/ HandlerReturns(c) \/ Finish(c) \/ SetIdle(c)
  \/ CheckKeepAlives(c) \/ Peek(c) \/ PeekError(c) \/ ConnClose(c) \/ ConnUntrack(c)

closeIdleConns(x) == SweepBegin(x) \/ SweepLook(x) \/ SweepClose(x) \/ SweepEnd(x)

Call(x) ==
  \/ ShutdownBegin(x) \/ closeListenersLocked(x) \/ ListenerGroupWait(x)
  \/ closeIdleConns(x) \/ ShutdownTick(x) \/ ShutdownExpires(x)
  \/ SetKeepAlivesEnabled(x)

Next ==
  \/ \E l \in Loops : Serve(l)
  \/ \E c \in Conns : ConnServe(c) \/ Age(c)
  \/ \E x \in Callers : Call(x)

Spec == Init /\ [][Next]_vars

(***************************************************************************)
(* Fairness.  Goroutines that can step do, sync.Mutex starves nobody       *)
(* (hence strong fairness), time passes, and what waits for a connection   *)
(* that this side has closed fails.  Clients and handlers owe nothing: a   *)
(* client need not connect, send a request or the rest of one, read a      *)
(* response or go away, and no timeout of the Server is set.               *)
(***************************************************************************)
ServeOwes(l) ==
  \/ ServeTrack(l) \/ ServeTrackConn(l) \/ ServeConn(l)
  \/ l \in lnClosed /\ ServeAcceptError(l)
  \/ ServeUntrack(l) \/ ServeClose(l)

ConnOwes(c) ==
  \/ SetActive(c) \/ HijackState(c) \/ SetIdle(c) \/ CheckKeepAlives(c)
  \/ ConnClose(c) \/ ConnUntrack(c)
  \/ c \in rwcClosed /\ (ReadRequestError(c) \/ Refuse(c) \/ Finish(c) \/ PeekError(c))

CallOwes(x) ==
  closeListenersLocked(x) \/ ListenerGroupWait(x) \/ closeIdleConns(x) \/ ShutdownTick(x)

Fairness ==
  /\ \A l \in Loops : SF_vars(ServeOwes(l))
  /\ \A c \in Conns : SF_vars(ConnOwes(c)) /\ WF_vars(Age(c))
  /\ \A x \in Callers : SF_vars(CallOwes(x))

FairSpec == Spec /\ Fairness

-----------------------------------------------------------------------------
(***************************************************************************)
(* Properties.                                                             *)
(***************************************************************************)

\* When a Shutdown returns without an error of its context, no accept loop is
\* left that could bring in a connection, nothing is tracked, and every
\* connection ever accepted is closed or was hijacked: none slipped through
\* between Accept, trackConn, the listener's end and the last sweep.
Drained ==
  \A x \in Shutdowns : sd[x] = "done" =>
    /\ \A l \in Loops : sv[l] \in {"init", "close", "done"}
    /\ activeConn = {}
    /\ \A c \in Conns : pc[c] # "none" => c \in rwcClosed \cup hijacked

\* Once SetKeepAlivesEnabled(false) has returned, and while nobody is inside
\* that call, no connection waits for a next request: conn.serve stores
\* StateIdle before it reads the flag, the setter stores the flag before it
\* reads the states, so at least one of them sees the other.
KeepAliveSwept ==
  disableKeepAlives /\ (\A x \in Setters : sd[x] \in {"init", "done"})
    => \A c \in Conns : pc[c] = "peek" => c \in rwcClosed

\* The transitions the comments of ConnState allow, StateHijacked and
\* StateClosed being terminal; setState has no lock and two goroutines call it.
Transitions ==
  {<<"Unset", "New">>, <<"New", "Active">>, <<"New", "Closed">>,
   <<"Active", "Idle">>, <<"Active", "Hijacked">>, <<"Active", "Closed">>,
   <<"Idle", "Active">>, <<"Idle", "Closed">>}

ConnStateLaw ==
  [][\A c \in Conns : curState'[c] # curState[c]
                         => <<curState[c], curState'[c]>> \in Transitions]_vars

\* "Shutdown gracefully shuts down the server without interrupting any active
\* connections": a connection whose handler runs is not closed under it.
NotInterrupted ==
  \A c \in Conns :
    pc[c] \in {"handler", "finish"} /\ c \notin hijacked => c \notin rwcClosed

\* A request is being answered: by its handler, which may take its time, or
\* with a client that may keep finishRequest waiting.
busy(c) == pc[c] \in {"handler", "refuse", "finish"} /\ c \notin hijacked

\* Shutdown waits "indefinitely for connections to return to idle", so it need
\* not return while a request is being answered, which a handler or a silent
\* client can draw out for ever.  But that is all it waits for: if no connection
\* stays busy Shutdown ends, though a client may connect and send nothing or
\* half a request, a connection may be anywhere in its life when the first
\* sweep passes it, and sweeps, connections and accept loops compete for one
\* lock.  And every Serve returns, whatever the connections do.
ShutdownReturns ==
  /\ (\A c \in Conns : []<>~busy(c)) =>
       \A x \in Shutdowns : sd[x] = "listeners" ~> sd[x] \in {"done", "expired"}
  /\ \A l \in Loops : inShutdown /\ sv[l] = "accept" ~> sv[l] = "done"

-----------------------------------------------------------------------------
(***************************************************************************)
(* The inductive invariant.                                                *)
(***************************************************************************)
\* listenerGroup counts the loops that may still accept.
LoopInv ==
  \A l \in Loops :
    /\ l \in listeners <=> sv[l] \in {"accept", "accepted", "tracked", "untrack"}
    /\ sv[l] \in {"accepted", "tracked"} =>
         /\ acc[l] \in Conns
         /\ pc[acc[l]] = "accepted"
         /\ \A k \in Loops \ {l} : sv[k] \in {"accepted", "tracked"} => acc[k] # acc[l]
    /\ sv[l] = "tracked" => acc[l] \in activeConn

\* A connection in Serve's hands has no state; then its state follows its step.
StateInv ==
  \A c \in Conns :
    /\ pc[c] \in {"none", "accepted"} => curState[c] = "Unset"
    /\ pc[c] \in {"read", "parsed", "failed"} => curState[c] \in {"New", "Idle"}
    /\ pc[c] \in {"hijacking", "refuse", "finish", "setIdle"} => curState[c] = "Active"
    /\ pc[c] = "handler" /\ c \notin hijacked => curState[c] = "Active"
    /\ pc[c] \in {"check", "peek"} => curState[c] = "Idle"
    /\ pc[c] \in {"close", "untrack"} => curState[c] \in {"New", "Active", "Idle"}

\* What is neither tracked nor closed was hijacked or is still Serve's.
TrackInv ==
  \A c \in Conns :
    /\ pc[c] = "accepted" =>
         \E l \in Loops : sv[l] \in {"accepted", "tracked"} /\ acc[l] = c
    /\ pc[c] = "untrack" => c \in rwcClosed
    /\ pc[c] = "hijacking" => c \in hijacked
    /\ c \in hijacked => pc[c] \in {"hijacking", "handler", "done"}
    /\ pc[c] \notin {"none", "accepted"} =>
         c \in activeConn \cup rwcClosed \cup hijacked

\* Who keeps the lock sweeps, and what a quiet sweep has not seen is left to do.
SweepInv ==
  /\ \A x \in Callers : sd[x] = "sweep" <=> mu = x
  /\ mu = Nobody => victim = Nobody
  /\ victim # Nobody => pc[victim] \notin {"none", "accepted"}
  /\ mu # Nobody /\ quiescent => activeConn \subseteq todo \cup {victim}

\* After listenerGroup.Wait no loop is left, and none starts again.
ShutdownInv ==
  \A x \in Shutdowns :
    /\ sd[x] # "init" => inShutdown
    /\ sd[x] \in {"poll", "sweep", "tick", "expired", "done"} => listeners = {}
    /\ sd[x] = "done" => activeConn = {}

\* A waiting connection that should not be is still before some setter's sweep.
SetterInv ==
  \A c \in Conns :
    disableKeepAlives /\ pc[c] = "peek" /\ c \notin rwcClosed =>
      \E x \in Setters :
        \/ sd[x] = "poll"
        \/ sd[x] = "sweep" /\ c \in todo \cup {victim}

LifecycleInv ==
  /\ TypeOK
  /\ LoopInv
  /\ StateInv
  /\ TrackInv
  /\ SweepInv
  /\ ShutdownInv
  /\ SetterInv

=============================================================================
