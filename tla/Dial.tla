-------------------------------- MODULE Dial --------------------------------
(***************************************************************************)
(* One call of Dialer.DialContext (dial.go) down to the socket             *)
(* (tcpsock_posix.go, sock_posix.go, fd_unix.go).  internetAddrList yields  *)
(* one address, so dialParallel has no fallbacks and is dialSerial over    *)
(* that address; partialDeadline then gives it the whole time left.        *)
(*                                                                         *)
(* Beside the caller run the goroutine that watches Dialer.Cancel and the  *)
(* interrupter of netFD.connect, which wakes a pending connect by moving   *)
(* the write deadline of the socket to the past.  The k-th socket that     *)
(* doDialTCPProto opens is called k.                                       *)
(***************************************************************************)
EXTENDS Naturals, FiniteSets

VARIABLES
  hasDeadline,  \* Timeout, Deadline or the deadline of the context is set
  hasCancel,    \* Dialer.Cancel # nil
  userCtx,      \* the caller's context can be canceled
  anyPort,      \* the local port is left to the kernel
  overdue,      \* the deadline is in the past
  cancelClosed, \* Dialer.Cancel is closed
  ctx,          \* "live", "expired" or "canceled": the context dialSerial gets
  watcher,      \* goroutine of Dialer.Cancel: "off", "on", "ended"
  pc,           \* the caller
  try,          \* sockets opened by doDialTCPProto
  ret,          \* result of internetSocket: "ok" or an error
  open,         \* open sockets
  wdl,          \* write deadline of each socket: "none", "set", "past"
  intr,         \* interrupter: "off", "watch", "sending", "ended"
  conn          \* the socket returned, 0 for none

vars == <<hasDeadline, hasCancel, userCtx, anyPort, overdue, cancelClosed, ctx,
          watcher, pc, try, ret, open, wdl, intr, conn>>
config == <<hasDeadline, hasCancel, userCtx, anyPort>>
world == <<overdue, cancelClosed>>

MaxTries == 3
Sockets == 1..MaxTries
Errors == {"ctx", "timeout", "refused", "notavail"}

\* ctx.Done() # nil
cancelable == userCtx \/ hasDeadline \/ hasCancel
done == ctx # "live"

Init ==
  /\ hasDeadline \in BOOLEAN /\ hasCancel \in BOOLEAN
  /\ userCtx \in BOOLEAN /\ anyPort \in BOOLEAN
  /\ overdue = FALSE /\ cancelClosed = FALSE /\ ctx = "live"
  /\ watcher = IF hasCancel THEN "on" ELSE "off"
  /\ pc = "start" /\ try = 0 /\ ret = "ok"
  /\ open = {} /\ wdl = [s \in Sockets |-> "none"]
  /\ intr = "off" /\ conn = 0

-----------------------------------------------------------------------------
(* The caller's context, the clock and the channel Dialer.Cancel *)

DeadlinePasses ==
  /\ hasDeadline /\ ~overdue /\ overdue' = TRUE
  /\ UNCHANGED <<config, cancelClosed, ctx, watcher, pc, try, ret, open, wdl, intr, conn>>

\* the timer of the context
CtxExpires ==
  /\ overdue /\ ctx = "live" /\ ctx' = "expired"
  /\ UNCHANGED <<config, world, watcher, pc, try, ret, open, wdl, intr, conn>>

UserCancels ==
  /\ userCtx /\ ctx = "live" /\ ctx' = "canceled"
  /\ UNCHANGED <<config, world, watcher, pc, try, ret, open, wdl, intr, conn>>

CancelCloses ==
  /\ hasCancel /\ ~cancelClosed /\ cancelClosed' = TRUE
  /\ UNCHANGED <<config, overdue, ctx, watcher, pc, try, ret, open, wdl, intr, conn>>

Watcher ==
  /\ watcher = "on"
  /\ \/ cancelClosed /\ ctx' = IF done THEN ctx ELSE "canceled"
     \/ done /\ UNCHANGED ctx
  /\ watcher' = "ended"
  /\ UNCHANGED <<config, world, pc, try, ret, open, wdl, intr, conn>>

-----------------------------------------------------------------------------
(* The caller *)

\* DialContext returns the socket s or, for 0, the error ret; its deferred
\* cancels end the contexts it made
Return(s, err) ==
  /\ conn' = s /\ ret' = err /\ pc' = "returned"
  /\ ctx' = IF (hasDeadline \/ hasCancel) /\ ~done THEN "canceled" ELSE ctx

\* dialSerial, for the one address there is: the context is done ...
DialSerialDone ==
  /\ pc = "start" /\ done /\ Return(0, "ctx")
  /\ UNCHANGED <<config, world, watcher, try, open, wdl, intr>>

\* ... partialDeadline finds no time left, which the context does not know yet
OutOfTime ==
  /\ pc = "start" /\ ~done /\ overdue /\ Return(0, "timeout")
  /\ UNCHANGED <<config, world, watcher, try, open, wdl, intr>>

\* ... or all of it is this address's
DialSingle ==
  /\ pc = "start" /\ ~done /\ ~overdue
  /\ pc' = "socket" /\ try' = 1
  /\ UNCHANGED <<config, world, ctx, watcher, ret, conn, open, wdl, intr>>

\* socket and netFD.dial up to the first connect call: no socket, an
\* immediate answer, or a connect under way with its interrupter
SocketFails ==
  /\ pc = "socket" /\ pc' = "made" /\ ret' = "refused"
  /\ UNCHANGED <<config, world, ctx, watcher, try, open, wdl, intr, conn>>

ConnectFails ==
  /\ pc = "socket" /\ pc' = "made" /\ ret' \in {"refused", "notavail"}
  /\ UNCHANGED <<config, world, ctx, watcher, try, open, wdl, intr, conn>>

ConnectAtOnce ==
  /\ pc = "socket" /\ pc' = "made"
  /\ IF done THEN ret' = "ctx" /\ UNCHANGED open
     ELSE ret' = "ok" /\ open' = open \cup {try}
  /\ UNCHANGED <<config, world, ctx, watcher, try, wdl, intr, conn>>

ConnectPending ==
  /\ pc = "socket" /\ pc' = "wait"
  /\ open' = open \cup {try}
  /\ wdl' = IF hasDeadline THEN [wdl EXCEPT ![try] = "set"] ELSE wdl
  /\ intr' = IF cancelable THEN "watch" ELSE "off"
  /\ UNCHANGED <<config, world, ctx, watcher, try, ret, conn>>

\* WaitWrite returns: the peer answered, or the write deadline passed
Answered ==
  /\ pc = "wait" /\ pc' = "settle" /\ ret' \in {"ok", "refused", "notavail"}
  /\ UNCHANGED <<config, world, ctx, watcher, try, open, wdl, intr, conn>>

late(s) == wdl[s] = "past" \/ (wdl[s] = "set" /\ overdue)

WaitTimesOut ==
  /\ pc = "wait" /\ late(try)
  /\ pc' = "settle" /\ ret' = IF done THEN "ctx" ELSE "timeout"
  /\ UNCHANGED <<config, world, ctx, watcher, try, open, wdl, intr, conn>>

\* Mutant: the wake-up, the result of the interrupter, goes unheard.
InterruptUnheard ==
  /\ intr = "watch" /\ done /\ intr' = "sending"
  /\ UNCHANGED <<config, world, ctx, watcher, pc, try, ret, open, wdl, conn>>

\* the interrupter: "sending" it waits for connect to take its result
InterruptDial ==
  /\ intr = "watch" /\ done
  /\ wdl' = [wdl EXCEPT ![try] = "past"] /\ intr' = "sending"
  /\ UNCHANGED <<config, world, ctx, watcher, pc, try, ret, open, conn>>

\* the deferred end of connect: done is closed, the result of the
\* interrupter received, the write deadline removed; socket closes the
\* descriptor of a failed dial
finish(result) ==
  /\ ret' = result /\ pc' = "made"
  /\ open' = IF result = "ok" THEN open ELSE open \ {try}
  /\ wdl' = IF hasDeadline THEN [wdl EXCEPT ![try] = "none"] ELSE wdl

ConnectReturns ==
  /\ pc = "settle"
  /\ \/ intr = "off" /\ finish(ret) /\ UNCHANGED intr
     \/ intr = "watch" /\ finish(ret) /\ intr' = "ended"
     \/ intr = "sending" /\ finish(IF ret = "ok" THEN "ctx" ELSE ret) /\ intr' = "ended"
  /\ UNCHANGED <<config, world, ctx, watcher, try, conn>>

\* Mutant: a socket given up but left open.
RetriedUnclosed ==
  /\ pc = "made" /\ anyPort /\ try < MaxTries /\ ret \in {"ok", "notavail"}
  /\ try' = try + 1 /\ pc' = "socket"
  /\ UNCHANGED <<config, world, ctx, watcher, ret, open, wdl, intr, conn>>

\* doDialTCPProto: a connection to itself and EADDRNOTAVAIL are tried again,
\* twice at most
Retried ==
  /\ pc = "made" /\ anyPort /\ try < MaxTries /\ ret \in {"ok", "notavail"}
  /\ open' = IF ret = "ok" THEN open \ {try} ELSE open
  /\ try' = try + 1 /\ pc' = "socket"
  /\ UNCHANGED <<config, world, ctx, watcher, ret, wdl, intr, conn>>

Done ==
  /\ pc = "made"
  /\ ret = "notavail" => ~anyPort \/ try = MaxTries
  /\ Return(IF ret = "ok" THEN try ELSE 0, ret)
  /\ UNCHANGED <<config, world, watcher, try, open, wdl, intr>>

-----------------------------------------------------------------------------

Ended == pc = "returned" /\ intr \in {"off", "ended"} /\ watcher \in {"off", "ended"}

\* the caller uses the connection, or has no use of the error, for ever
Finished == Ended /\ UNCHANGED vars

Caller ==
  \/ DialSerialDone \/ OutOfTime \/ DialSingle
  \/ SocketFails \/ ConnectFails \/ ConnectAtOnce \/ ConnectPending
  \/ WaitTimesOut \/ ConnectReturns \/ Retried \/ Done

Next ==
  \/ DeadlinePasses \/ CtxExpires \/ UserCancels \/ CancelCloses
  \/ Watcher \/ Caller \/ Answered \/ InterruptDial \/ Finished

Spec == Init /\ [][Next]_vars

\* goroutines that can run do; the timer of the context fires.  The peer
\* need not answer and nobody need cancel
FairSpec ==
  Spec /\ WF_vars(Caller) /\ WF_vars(InterruptDial) /\ WF_vars(Watcher)
       /\ WF_vars(CtxExpires) /\ WF_vars(DeadlinePasses)

-----------------------------------------------------------------------------

(* Every variable has its type. *)
TypeOK ==
  /\ <<hasDeadline, hasCancel, userCtx, anyPort, overdue, cancelClosed>> \in
       BOOLEAN \X BOOLEAN \X BOOLEAN \X BOOLEAN \X BOOLEAN \X BOOLEAN
  /\ ctx \in {"live", "expired", "canceled"} /\ watcher \in {"off", "on", "ended"}
  /\ pc \in {"start", "socket", "wait", "settle", "made", "returned"}
  /\ try \in 0..MaxTries /\ ret \in {"ok"} \cup Errors
  /\ open \subseteq Sockets /\ wdl \in [Sockets -> {"none", "set", "past"}]
  /\ intr \in {"off", "watch", "sending", "ended"} /\ conn \in 0..MaxTries

(* When DialContext has returned, no socket it opened is open but the one  *)
(* it returned: not the one of a connect that was interrupted, timed out   *)
(* or raced its cancelation, nor one given up for a self-connection.  And  *)
(* "once successfully connected, any expiration of the context will not    *)
(* affect the connection" (dial.go, DialContext): it carries no write      *)
(* deadline and no interrupter is left that could set one.                 *)
OneCleanSocket ==
  /\ TypeOK
  /\ pc = "returned" =>
       /\ open = IF conn = 0 THEN {} ELSE {conn}
       /\ conn # 0 => wdl[conn] = "none"
       /\ intr \in {"off", "ended"}

(* Once the deadline is over, the context done or Dialer.Cancel closed,    *)
(* DialContext returns although the peer never answers, and the watcher    *)
(* and the interrupter end with it.                                        *)
DialEnds == (overdue \/ done \/ (cancelClosed /\ hasCancel)) ~> Ended
=============================================================================
