----------------------------- MODULE ConnReader -----------------------------
(***************************************************************************)
(* The reading side of a server connection (server.go: connReader, the     *)
(* parts of conn.serve, response and body that drive it): bufr reads from  *)
(* a connReader, which while a handler runs keeps one read of one byte     *)
(* blocked in a goroutine of its own, to notice a client that goes away;   *)
(* abortPendingRead ends that read with a deadline in the past.            *)
(*                                                                         *)
(* The client's bytes are numbered.  Request k is one byte of head and     *)
(* Bodies[k] bytes of body; clients may send several requests ahead.       *)
(* connReader.mu is held for each step here but for the reads of the       *)
(* socket, which are steps of their own.                                   *)
(***************************************************************************)
EXTENDS Naturals, Sequences, FiniteSets, SequencesExt

CONSTANTS Bodies,        \* body length of each request of the client
          BufCap         \* size of bufr

ASSUME ConnReaderAssumption ==
  /\ Bodies \in Seq(Nat) /\ BufCap \in Nat \ {0}

VARIABLES
  arrived,   \* bytes of the client that reached the socket
  gone,      \* the client closed its side
  read,      \* bytes read from the socket
  bufr,      \* the buffered bytes
  cr,        \* connReader: hasByte, byte, inRead, aborted
  deadline,  \* "none" or "past": the read deadline of rwc
  bg,        \* backgroundRead: "none", "read" in rwc.Read, "byte", "timeout", "error"
  pc,        \* the goroutine of conn.serve
  req,       \* requests begun
  left,      \* bytes of body not read yet
  duplex,    \* the handlers of this connection enable full duplex
  taken,     \* ghost: bytes given to the parser, the handlers and the hijacker, in order
  notified   \* didCloseNotify, and the context of the request cancelled

vars == <<arrived, gone, read, bufr, cr, deadline, bg, pc, req, left, duplex,
          taken, notified>>

Total == FoldLeft(LAMBDA sum, n : sum + n + 1, 0, Bodies)

Init ==
  /\ arrived = 0 /\ gone = FALSE /\ read = 0 /\ bufr = <<>>
  /\ cr = [hasByte |-> FALSE, byte |-> 0, inRead |-> FALSE, aborted |-> FALSE]
  /\ deadline = "none" /\ bg = "none"
  /\ pc = "next" /\ req = 0 /\ left = 0 /\ duplex \in BOOLEAN
  /\ taken = <<>> /\ notified = FALSE

-----------------------------------------------------------------------------
(* The client *)

Arrive ==
  /\ ~gone /\ arrived < Total
  /\ arrived' = arrived + 1
  /\ UNCHANGED <<gone, read, bufr, cr, deadline, bg, pc, req, left, duplex, taken, notified>>

ClientCloses ==
  /\ ~gone /\ gone' = TRUE
  /\ UNCHANGED <<arrived, read, bufr, cr, deadline, bg, pc, req, left, duplex, taken, notified>>

(* What rwc.Read may return: a deadline in the past wins over a byte that  *)
(* arrives only now, not over one that ended the wait first.               *)
Readable == read < arrived
AtEOF    == gone /\ ~Readable

-----------------------------------------------------------------------------
(* connReader *)

(* startBackgroundRead; the caller goes on at `next', or panics: "invalid  *)
(* concurrent Body.Read call".                                             *)
StartBackgroundRead(next) ==
  /\ pc' = IF cr.inRead THEN "panic" ELSE next
  /\ IF cr.inRead \/ cr.hasByte
     THEN UNCHANGED <<cr, deadline, bg>>
     ELSE /\ cr' = [cr EXCEPT !.inRead = TRUE]
          /\ deadline' = "none" /\ bg' = "read"

(* backgroundRead: the read of the socket ...                              *)
BackgroundByte ==
  /\ bg = "read" /\ Readable
  /\ bg' = "byte" /\ read' = read + 1
  /\ UNCHANGED <<arrived, gone, bufr, cr, deadline, pc, req, left, duplex, taken, notified>>

BackgroundFails ==
  /\ bg = "read"
  /\ \/ deadline = "past" /\ bg' = "timeout"
     \/ AtEOF /\ bg' = "error"
  /\ UNCHANGED <<arrived, gone, read, bufr, cr, deadline, pc, req, left, duplex, taken, notified>>

(* ... and what it makes of it under cr.mu.                                *)
BackgroundDone ==
  /\ bg \in {"byte", "timeout", "error"}
  /\ cr' = [hasByte |-> cr.hasByte \/ bg = "byte",
            byte |-> IF bg = "byte" THEN read ELSE cr.byte,
            inRead |-> FALSE, aborted |-> FALSE]
  /\ notified' = (notified \/ (bg = "error" \/ (bg = "timeout" /\ ~cr.aborted)))
  /\ bg' = "none"
  /\ UNCHANGED <<arrived, gone, read, bufr, deadline, pc, req, left, duplex, taken>>

Room == IF arrived - read < BufCap THEN arrived - read ELSE BufCap

(* connReader.Read, called to fill bufr: the byte of the background read,  *)
(* or a read of the socket ...                                             *)
Fill ==
  /\ pc \in {"next", "body", "drain", "closing"} /\ bufr = <<>>
  /\ pc' = IF cr.inRead THEN "panic" ELSE pc
  /\ CASE cr.inRead -> UNCHANGED <<read, bufr, cr>>
       [] ~cr.inRead /\ cr.hasByte -> /\ bufr' = <<cr.byte>>
                                      /\ cr' = [cr EXCEPT !.hasByte = FALSE]
                                      /\ UNCHANGED read
       [] OTHER -> /\ Readable
                   /\ \E n \in 1..Room :
                        /\ bufr' = [i \in 1..n |-> read + i]
                        /\ read' = read + n
                   /\ UNCHANGED cr
  /\ UNCHANGED <<arrived, gone, deadline, bg, req, left, duplex, taken, notified>>

(* ... that fails: the client is gone.  A handler gets the error from its  *)
(* read of the body and goes on; otherwise conn.serve ends the connection. *)
FillFails ==
  /\ pc \in {"next", "body", "drain", "closing"} /\ bufr = <<>>
  /\ ~cr.inRead /\ ~cr.hasByte /\ AtEOF
  /\ pc' = (IF pc = "body" THEN "handler" ELSE "end") /\ notified' = TRUE
  /\ UNCHANGED <<arrived, gone, read, bufr, cr, deadline, bg, req, left, duplex, taken>>

-----------------------------------------------------------------------------
(* conn.serve and the handler *)

(* readRequest; then a request without body starts the background read at  *)
(* once, one with a body when it has seen its EOF.                         *)
ReadRequest ==
  /\ pc = "next" /\ bufr # <<>> /\ req < Len(Bodies)
  /\ req' = req + 1 /\ left' = Bodies[req + 1]
  /\ taken' = Append(taken, bufr[1]) /\ bufr' = Tail(bufr)
  /\ notified' = FALSE
  /\ IF left' = 0 THEN StartBackgroundRead("handler")
     ELSE pc' = "handler" /\ UNCHANGED <<cr, deadline, bg>>
  /\ UNCHANGED <<arrived, gone, read, duplex>>

(* body.Read gives one byte; the last one is the body's EOF, onHitEOF.     *)
TakeBody(next) ==
  /\ bufr # <<>> /\ left > 0
  /\ taken' = Append(taken, bufr[1]) /\ bufr' = Tail(bufr) /\ left' = left - 1
  /\ IF left = 1 THEN StartBackgroundRead(next)
     ELSE pc' = next /\ UNCHANGED <<cr, deadline, bg>>
  /\ UNCHANGED <<arrived, gone, read, req, duplex, notified>>

HandlerRead ==
  /\ pc = "handler" /\ left > 0
  /\ pc' = "body"
  /\ UNCHANGED <<arrived, gone, read, bufr, cr, deadline, bg, req, left, duplex, taken, notified>>
BodyByte == pc = "body" /\ TakeBody("handler")

(* The handler returns: writeHeader first discards the rest of the body,   *)
(* unless the handler asked for full duplex.  Where a write or Hijack has  *)
(* sent the header before, it is the handler that read the rest.           *)
HandlerReturns ==
  /\ pc = "handler"
  /\ pc' = IF left > 0 /\ ~duplex THEN "drain" ELSE "abort"
  /\ UNCHANGED <<arrived, gone, read, bufr, cr, deadline, bg, req, left, duplex, taken, notified>>
Drain == pc = "drain" /\ TakeBody(IF left = 1 THEN "abort" ELSE "drain")

\* Mutants: aborted is not set; the deadline is not set.
AbortUnmarked ==
  /\ pc \in {"abort", "hijack"}
  /\ IF cr.inRead
     THEN /\ deadline' = "past" /\ pc' = IF pc = "abort" THEN "wait" ELSE "hijackwait"
     ELSE /\ pc' = IF pc = "abort" THEN "closing" ELSE "hijacked"
          /\ UNCHANGED deadline
  /\ UNCHANGED <<arrived, gone, read, bufr, cr, bg, req, left, duplex, taken, notified>>

AbortNoDeadline ==
  /\ pc \in {"abort", "hijack"}
  /\ IF cr.inRead
     THEN /\ cr' = [cr EXCEPT !.aborted = TRUE]
          /\ pc' = IF pc = "abort" THEN "wait" ELSE "hijackwait"
     ELSE /\ pc' = IF pc = "abort" THEN "closing" ELSE "hijacked"
          /\ UNCHANGED cr
  /\ UNCHANGED <<arrived, gone, read, bufr, deadline, bg, req, left, duplex, taken, notified>>

(* abortPendingRead, for finishRequest ("abort") and Hijack ("hijack").    *)
Abort ==
  /\ pc \in {"abort", "hijack"}
  /\ IF cr.inRead
     THEN /\ cr' = [cr EXCEPT !.aborted = TRUE] /\ deadline' = "past"
          /\ pc' = IF pc = "abort" THEN "wait" ELSE "hijackwait"
     ELSE /\ pc' = IF pc = "abort" THEN "closing" ELSE "hijacked"
          /\ UNCHANGED <<cr, deadline>>
  /\ UNCHANGED <<arrived, gone, read, bufr, bg, req, left, duplex, taken, notified>>

\* Mutant: the deadline stays in the past.
AbortReturnsTimedOut ==
  /\ pc \in {"wait", "hijackwait"} /\ ~cr.inRead
  /\ pc' = IF pc = "wait" THEN "closing" ELSE "hijacked"
  /\ UNCHANGED <<arrived, gone, read, bufr, cr, deadline, bg, req, left, duplex, taken, notified>>

AbortReturns ==
  /\ pc \in {"wait", "hijackwait"} /\ ~cr.inRead
  /\ deadline' = "none"
  /\ pc' = IF pc = "wait" THEN "closing" ELSE "hijacked"
  /\ UNCHANGED <<arrived, gone, read, bufr, cr, bg, req, left, duplex, taken, notified>>

(* finishRequest closes the body, which reads what is left of it; then     *)
(* conn.serve waits for the next request.                                  *)
CloseBody == pc = "closing" /\ TakeBody("closing")
Finished ==
  /\ pc = "closing" /\ left = 0
  /\ pc' = "next"
  /\ UNCHANGED <<arrived, gone, read, bufr, cr, deadline, bg, req, left, duplex, taken, notified>>

(* With or without the body read to its end.                               *)
Hijack ==
  /\ pc = "handler"
  /\ pc' = "hijack"
  /\ UNCHANGED <<arrived, gone, read, bufr, cr, deadline, bg, req, left, duplex, taken, notified>>

\* Mutant: the byte of the background read is handed over first.
HijackDoneByteFirst ==
  /\ pc = "hijacked"
  /\ pc' = "owned"
  /\ taken' = taken \o (IF cr.hasByte THEN <<cr.byte>> ELSE <<>>) \o bufr
  /\ bufr' = <<>> /\ cr' = [cr EXCEPT !.hasByte = FALSE]
  /\ UNCHANGED <<arrived, gone, read, deadline, bg, req, left, duplex, notified>>

(* hijackLocked: Peek moves the byte of the background read behind what is *)
(* buffered, or fails when the buffer is full.  The hijacker then owns     *)
(* the buffer and the socket.                                              *)
HijackDone ==
  /\ pc = "hijacked"
  /\ IF cr.hasByte /\ Len(bufr) >= BufCap
     THEN pc' = "lost" /\ UNCHANGED <<bufr, cr, taken>>
     ELSE /\ pc' = "owned"
          /\ taken' = taken \o bufr \o IF cr.hasByte THEN <<cr.byte>> ELSE <<>>
          /\ bufr' = <<>> /\ cr' = [cr EXCEPT !.hasByte = FALSE]
  /\ UNCHANGED <<arrived, gone, read, deadline, bg, req, left, duplex, notified>>

Next ==
  \/ Arrive \/ ClientCloses \/ Fill \/ FillFails
  \/ ReadRequest \/ HandlerRead \/ BodyByte \/ HandlerReturns \/ Drain
  \/ Abort \/ AbortReturns \/ CloseBody \/ Finished \/ Hijack \/ HijackDone
  \/ BackgroundByte \/ BackgroundFails \/ BackgroundDone

Spec == Init /\ [][Next]_vars
(* The background goroutine and a woken abortPendingRead get their turn.   *)
FairSpec ==
  Spec /\ WF_vars(BackgroundByte \/ BackgroundFails) /\ WF_vars(BackgroundDone)
       /\ WF_vars(AbortReturns)

-----------------------------------------------------------------------------
(* Properties *)

TypeOK ==
  /\ arrived \in Nat /\ read \in 0..arrived /\ gone \in BOOLEAN /\ duplex \in BOOLEAN
  /\ bg \in {"none", "read", "byte", "timeout", "error"}
  /\ deadline \in {"none", "past"}
  /\ bufr \in Seq(Nat) /\ Len(bufr) <= BufCap /\ taken \in Seq(Nat)
  /\ cr \in [hasByte : BOOLEAN, byte : 0..read, inRead : BOOLEAN, aborted : BOOLEAN]
  /\ pc \in {"next", "handler", "body", "drain", "abort", "wait", "closing", "hijack",
             "hijackwait", "hijacked", "owned", "lost", "end", "panic"}
  /\ req \in 0..Len(Bodies) /\ left \in Nat /\ notified \in BOOLEAN

(* connReader.Read, backgroundRead and Hijack: what was taken, the buffer, *)
(* the byte held back and the one a background read just got are together  *)
(* the bytes read from the socket, once each and in their order.           *)
BytesInOrder ==
  taken \o bufr \o (IF cr.hasByte THEN <<cr.byte>> ELSE <<>>)
        \o (IF bg = "byte" THEN <<read>> ELSE <<>>) = [i \in 1..read |-> i]

(* A background read never runs while the buffer has been handed on, or    *)
(* while the parser of the next request reads.                             *)
QuietBetween == pc \in {"next", "owned"} /\ ~duplex => ~cr.inRead /\ bg = "none" /\ deadline = "none"

(* aborted and the timeout: aborting the read does not look like a client  *)
(* that went away; the handler's context and CloseNotify fire only for one *)
(* that did.                                                               *)
CancelMeansGone == notified => gone

(* startBackgroundRead and Read: the connection is never read by two at    *)
(* once, which both answer with a panic.                                   *)
NoConcurrentRead == pc # "panic"
(* The same for handlers that do not ask for full duplex: their bodies are *)
(* at EOF before abortPendingRead, so that closing them starts no read.    *)
HalfDuplexReads == pc = "panic" => duplex

(* The invariant of the reading side: each byte in one place, no reader    *)
(* left where none may be, and no two readers without full duplex.         *)
ReaderInv == TypeOK /\ BytesInOrder /\ QuietBetween /\ HalfDuplexReads

(* To the parser, the handlers and the hijacker the connection is a byte   *)
(* stream: each byte once, in order, none before it arrived.               *)
Stream == INSTANCE ByteStream WITH sent <- arrived, delivered <- taken
ImplementsStream == Stream!Spec

(* abortPendingRead comes back, however the read it aborts ends.           *)
AbortEnds == pc \in {"wait", "hijackwait"} ~> pc \in {"closing", "hijacked"}
=============================================================================
