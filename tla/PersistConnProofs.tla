-------------------------- MODULE PersistConnProofs --------------------------
(***************************************************************************)
(* Proofs about PersistConn, for any number of requests that use the       *)
(* connection one after another.                                           *)
(***************************************************************************)
EXTENDS PersistConn, TLAPS

\* The readLoop of a connection that was parked again still answers the
\* request before: its roundTrip, or its caller's Read at EOF.
trailing == cur.alive /\ (rl = "eofc" \/ (rl = "sendResp" /\ ~cur.hasBody))

\* The readLoop has not received the request of the holder yet ...
ahead == rl \in {"peek", "check", "reqch"} \/ trailing
\* ... has not read its response ...
serving == rl \in {"read", "sendErr"}
\* ... has ended with it, or has read the response.
ended == rl \in {"exit", "close", "remove", "done"}
past  == ~ahead /\ ~serving /\ ~ended

unsent == {"new", "got", "entered", "expects"}

\* Who can stand where, and what a request that is not the holder may still
\* have.
TripInv ==
  \A r \in Reqs :
    /\ rt[r] = "new" => r # holder
    /\ rt[r] \in unsent => r \notin sent /\ r \notin canceled
    /\ rt[r] \in {"got", "entered", "expects", "wrote", "map"} => r = holder
    /\ rt[r] = "select" => r = holder \/ (trailing /\ r = cur.req /\ rl = "sendResp")
    /\ rt[r] \in {"got", "entered"} => expected = 0
    /\ rt[r] = "got" => canceler[r] = "getConn"
    /\ rt[r] = "map" => canceler[r] = "none" \/ werr \/ ended
    /\ rt[r] = "failed" => closed
    /\ canceler[r] # "none" => r = holder /\ r \notin canceled

\* A cancellation that closed the connection was its holder's.
CancelInv ==
  canceledBy # NoOne => /\ canceledBy = holder /\ closed
                        /\ canceler[holder] = "none"

\* An idle connection is closed or its readLoop waits for the next response.
IdleInv ==
  /\ holder = Idle => closed \/ ahead
  /\ holder = Out => closed

\* Writing: writech, writeLoop and the two channels of its result.
WriteInv ==
  /\ writech = IF holder \in Reqs /\ rt[holder] \notin unsent /\ holder \notin sent
               THEN <<holder>> ELSE <<>>
  /\ wl \in {"writing", "report"} => wreq = holder /\ holder \in sent /\ writeErrCh = "none"
  /\ wl \in {"answer", "close"} => wreq \in Reqs
  /\ writeErrCh # "none" => /\ wreq = holder /\ holder \in sent
                            /\ wl \notin {"writing", "report"}
                            /\ writeErrCh = IF werr THEN "err" ELSE "ok"
  /\ werr => wl \in {"report", "answer", "close", "done"} /\ wreq = holder /\ holder \in sent
  /\ wl = "close" => werr
  /\ wl = "done" => closed
  /\ \A r \in Reqs : wrCh[r] = "err" => r = holder /\ werr

\* Before the response of the holder is read: what is due is exactly its own.
DueInv ==
  ahead \/ serving =>
    /\ unread = NoOne
    /\ wire = IF holder \in answered THEN <<holder>> ELSE <<>>
    /\ sent \subseteq answered \cup {holder}

AheadInv ==
  ahead =>
    /\ holder \in Reqs => rt[holder] # "answered"
    /\ expected = IF holder \in Reqs /\ rt[holder] \notin {"got", "entered"} THEN 1 ELSE 0
    /\ reqch = IF holder \in Reqs /\ rt[holder] \in {"select", "map", "failed"}
               THEN <<holder>> ELSE <<>>
    /\ trailing => cur.req \in Reqs /\ cur.req # holder /\ rt[cur.req] # "new"
    /\ trailing /\ rl = "sendResp" => rt[cur.req] \in {"select", "failed"} /\ cur.req \notin canceled

ServingInv ==
  serving => /\ cur.req \in Reqs /\ holder = cur.req
             /\ expected = 1 /\ reqch = <<>>
             /\ rt[cur.req] \in {"select", "map", "failed"}

\* After it: nothing is due, and each test that led on has its result.
PastInv ==
  past => /\ cur.req \in Reqs /\ holder = cur.req
          /\ wire = <<>> /\ sent \subseteq answered /\ holder \in answered
          /\ expected = 0 /\ reqch = <<>>
          /\ rt[cur.req] \in IF rl # "sendResp" /\ cur.hasBody
                             THEN {"answered"} ELSE {"select", "map", "failed"}
          /\ ~cur.hasBody \/ (cur.bodyEOF /\ rl \notin {"body", "sendResp"}) => unread = NoOne
          /\ rl \in {"body", "eofc"} => cur.hasBody
          /\ rl \in {"wroteRequest", "put", "park"} =>
               /\ cur.hasBody => cur.bodyEOF
               /\ cur.replaced => /\ canceledBy = NoOne /\ cur.req \notin canceled
                                  /\ rt[cur.req] = "map" => werr
               /\ canceler[cur.req] = "none"
          /\ rl \in {"put", "park"} => /\ cur.alive /\ cur.replaced
                                       /\ writeErrCh = "none" /\ ~werr
                                       /\ wl \in {"answer", "select", "done"}

\* The reader of the body and the channel to the readLoop.
BodyInv ==
  /\ \A r \in Reqs :
       /\ ub[r] \in {"open", "broken"} =>
            r = cur.req /\ (rl = "body" \/ (rl = "replace" /\ cur.hasBody /\ ~cur.bodyEOF) \/ ended)
       /\ ub[r] = "open" => bodyCh = <<>>
       /\ ub[r] = "broken" => /\ Len(bodyCh) <= 1
                              /\ rl = "body" => bodyCh # <<>>
  /\ rl = "body" /\ bodyCh # <<>> /\ bodyCh[1] =>
       unread = NoOne /\ ub[cur.req] \notin {"open", "broken"}

IInv ==
  /\ TypeOK /\ TripInv /\ CancelInv /\ IdleInv /\ WriteInv
  /\ DueInv /\ AheadInv /\ ServingInv /\ PastInv /\ BodyInv

-----------------------------------------------------------------------------
LEMMA EmptySeq == ASSUME NEW S PROVE <<>> \in Seq(S) /\ Len(<<>>) = 0
  OBVIOUS

\* What the caller of a body appends comes after what is in the channel.
LEMMA Appended ==
  ASSUME NEW s \in Seq(BOOLEAN), NEW b \in BOOLEAN
  PROVE  /\ Append(s, b) \in Seq(BOOLEAN) /\ Len(Append(s, b)) = Len(s) + 1
         /\ s = <<>> => Append(s, b)[1] = b
         /\ s # <<>> => Append(s, b)[1] = s[1]
<1>1. Len(s) \in Nat /\ (s # <<>> => Len(s) > 0) /\ (s = <<>> => Len(s) = 0)
  OBVIOUS
<1>2. Append(s, b)[Len(s) + 1] = b /\ \A i \in 1..Len(s) : Append(s, b)[i] = s[i]
  OBVIOUS
<1> QED
  BY <1>1, <1>2

-----------------------------------------------------------------------------
\* The idle connection goes to a request that has not been sent.
LEMMA GetConnKeeps == ASSUME IInv, NEW r \in Reqs, GetConn(r) PROVE IInv'
<1> USE PersistConnAssumption DEF IInv, GetConn, chanVars, wlVars, rlVars,
     bodyVars, srvVars
<1>1. TypeOK'
  BY DEF TypeOK, closed, moveTrip, setCanceler, deliver, Locals, Trips,
       Writers, Readers, Bodies, Closers, Results, Loops
<1>2. TripInv'
  BY DEF TypeOK, TripInv, IdleInv, AheadInv, closed, moveTrip, setCanceler,
       deliver, trailing, ahead, ended, unsent
<1>3. CancelInv'
  BY DEF TypeOK, CancelInv, closed, moveTrip, setCanceler, deliver
<1>4. IdleInv'
  BY DEF TypeOK, IdleInv, closed, moveTrip, setCanceler, deliver, trailing,
       ahead
<1>5. WriteInv'
  BY DEF TypeOK, WriteInv, closed, moveTrip, setCanceler, deliver, unsent
<1>6. DueInv'
  BY DEF TypeOK, TripInv, DueInv, closed, moveTrip, setCanceler, deliver,
       trailing, ahead, serving, ended, unsent
<1>7. AheadInv'
  BY DEF TypeOK, AheadInv, closed, moveTrip, setCanceler, deliver, trailing,
       ahead
<1>8. ServingInv'
  BY DEF TypeOK, ServingInv, closed, moveTrip, setCanceler, deliver, serving
<1>9. PastInv'
  BY DEF TypeOK, PastInv, closed, moveTrip, setCanceler, deliver, trailing,
       ahead, serving, ended, past
<1>10. BodyInv'
  BY DEF TypeOK, BodyInv, closed, moveTrip, setCanceler, deliver, ended
<1> QED
  BY <1>1, <1>2, <1>3, <1>4, <1>5, <1>6, <1>7, <1>8, <1>9, <1>10

\* The pool closes a connection that is idle.
LEMMA PoolCloseKeeps == ASSUME IInv, PoolClose PROVE IInv'
<1> USE PersistConnAssumption DEF IInv, PoolClose, chanVars, rtVars, wlVars,
     rlVars, bodyVars, srvVars
<1>1. TypeOK'
  BY DEF TypeOK, closed, closeBy, Locals, Trips, Writers, Readers, Bodies,
       Closers, Results, Loops
<1>2. TripInv'
  BY DEF TypeOK, TripInv, closed, closeBy, trailing, ended, unsent, Loops
<1>3. CancelInv'
  BY DEF TypeOK, CancelInv, closed, closeBy, Loops
<1>4. IdleInv'
  BY DEF TypeOK, IdleInv, closed, closeBy, trailing, ahead, Loops
<1>5. WriteInv'
  BY DEF TypeOK, WriteInv, closed, closeBy, unsent, Loops
<1>6. DueInv'
  BY DEF TypeOK, DueInv, closed, closeBy, trailing, ahead, serving, Loops
<1>7. AheadInv'
  BY DEF TypeOK, AheadInv, closed, closeBy, trailing, ahead, Loops
<1>8. ServingInv'
  BY DEF TypeOK, ServingInv, closed, closeBy, serving, Loops
<1>9. PastInv'
  BY DEF TypeOK, PastInv, closed, closeBy, trailing, ahead, serving, ended,
       past, Loops
<1>10. BodyInv'
  BY DEF TypeOK, BodyInv, closed, closeBy, ended, Loops
<1> QED
  BY <1>1, <1>2, <1>3, <1>4, <1>5, <1>6, <1>7, <1>8, <1>9, <1>10

\* roundTrip registers its own canceler.
LEMMA RTEnterKeeps == ASSUME IInv, NEW r \in Reqs, RTEnter(r) PROVE IInv'
<1> USE PersistConnAssumption DEF IInv, RTEnter, connVars, chanVars, wlVars,
     rlVars, bodyVars, srvVars
<1>1. IdleInv' /\ DueInv' /\ BodyInv'
  BY DEF IdleInv, DueInv, BodyInv, closed, trailing, ahead, serving, ended
<1>2. TypeOK'
  BY DEF TypeOK, moveTrip, setCanceler, Locals, Trips, Writers, Readers,
       Bodies, Closers, Results, Loops
<1>3. TripInv'
  BY DEF TypeOK, TripInv, closed, moveTrip, setCanceler, trailing, ended,
       unsent
<1>4. CancelInv'
  BY DEF TypeOK, TripInv, CancelInv, closed, moveTrip, setCanceler, trailing,
       ended, unsent
<1>5. WriteInv'
  BY DEF TypeOK, WriteInv, closed, moveTrip, setCanceler, unsent
<1>6. AheadInv'
  BY DEF TypeOK, AheadInv, moveTrip, setCanceler, trailing, ahead
<1>7. ServingInv'
  BY DEF TypeOK, ServingInv, moveTrip, setCanceler, serving
<1>8. PastInv'
  BY DEF TypeOK, PastInv, moveTrip, setCanceler, trailing, ahead, serving,
       ended, past
<1> QED
  BY <1>1, <1>2, <1>3, <1>4, <1>5, <1>6, <1>7, <1>8

\* One response is expected: none was.
LEMMA RTExpectKeeps == ASSUME IInv, NEW r \in Reqs, RTExpect(r) PROVE IInv'
<1> USE PersistConnAssumption DEF IInv, RTExpect, chanVars, wlVars, rlVars,
     bodyVars, srvVars
<1>1. CancelInv' /\ IdleInv' /\ DueInv' /\ BodyInv'
  BY DEF CancelInv, IdleInv, DueInv, BodyInv, closed, trailing, ahead, serving,
       ended
<1>2. TypeOK'
  BY DEF TypeOK, TripInv, closed, moveTrip, trailing, ended, unsent, Locals,
       Trips, Writers, Readers, Bodies, Closers, Results, Loops
<1>3. TripInv'
  BY DEF TypeOK, TripInv, closed, moveTrip, trailing, ended, unsent
<1>4. WriteInv'
  BY DEF TypeOK, WriteInv, closed, moveTrip, unsent
<1>5. AheadInv'
  BY DEF TypeOK, TripInv, AheadInv, closed, moveTrip, trailing, ahead, ended,
       unsent
<1>6. ServingInv'
  BY DEF TypeOK, TripInv, ServingInv, closed, moveTrip, trailing, serving,
       ended, unsent
<1>7. PastInv'
  BY DEF TypeOK, TripInv, PastInv, closed, moveTrip, trailing, ahead, serving,
       ended, past, unsent
<1> QED
  BY <1>1, <1>2, <1>3, <1>4, <1>5, <1>6, <1>7

\* writech was empty.
LEMMA RTSendWriteKeeps == ASSUME IInv, NEW r \in Reqs, RTSendWrite(r) PROVE IInv'
<1> USE PersistConnAssumption DEF IInv, RTSendWrite, connVars, wlVars, rlVars,
     bodyVars, srvVars
<1>1. CancelInv' /\ IdleInv' /\ DueInv' /\ BodyInv'
  BY DEF CancelInv, IdleInv, DueInv, BodyInv, closed, trailing, ahead, serving,
       ended
<1>2. TypeOK'
  BY DEF TypeOK, moveTrip, Locals, Trips, Writers, Readers, Bodies, Closers,
       Results, Loops
<1>3. TripInv'
  BY DEF TypeOK, TripInv, closed, moveTrip, trailing, ended, unsent
<1>4. WriteInv'
  BY DEF TypeOK, TripInv, WriteInv, closed, moveTrip, trailing, ended, unsent
<1>5. AheadInv'
  BY DEF TypeOK, AheadInv, moveTrip, trailing, ahead
<1>6. ServingInv'
  BY DEF TypeOK, ServingInv, moveTrip, serving
<1>7. PastInv'
  BY DEF TypeOK, PastInv, moveTrip, trailing, ahead, serving, ended, past
<1> QED
  BY <1>1, <1>2, <1>3, <1>4, <1>5, <1>6, <1>7

\* reqch was empty.
LEMMA RTSendReqKeeps == ASSUME IInv, NEW r \in Reqs, RTSendReq(r) PROVE IInv'
<1> USE PersistConnAssumption DEF IInv, RTSendReq, connVars, wlVars, rlVars,
     bodyVars, srvVars
<1>1. CancelInv' /\ IdleInv' /\ DueInv' /\ BodyInv'
  BY DEF CancelInv, IdleInv, DueInv, BodyInv, closed, trailing, ahead, serving,
       ended
<1>2. TypeOK'
  BY DEF TypeOK, moveTrip, Locals, Trips, Writers, Readers, Bodies, Closers,
       Results, Loops
<1>3. TripInv'
  BY DEF TypeOK, TripInv, closed, moveTrip, trailing, ended, unsent
<1>4. WriteInv'
  BY DEF TypeOK, WriteInv, closed, moveTrip, unsent
<1>5. AheadInv'
  BY DEF TypeOK, TripInv, AheadInv, closed, moveTrip, trailing, ahead, ended,
       unsent
<1>6. ServingInv'
  BY DEF TypeOK, TripInv, ServingInv, closed, moveTrip, trailing, serving,
       ended, unsent
<1>7. PastInv'
  BY DEF TypeOK, TripInv, PastInv, closed, moveTrip, trailing, ahead, serving,
       ended, past, unsent
<1> QED
  BY <1>1, <1>2, <1>3, <1>4, <1>5, <1>6, <1>7

\* Only the holder receives the result of a write, and its error.
LEMMA RTWrittenKeeps == ASSUME IInv, NEW r \in Reqs, RTWritten(r) PROVE IInv'
<1> USE PersistConnAssumption DEF IInv, RTWritten, chanVars, wlVars, rlVars,
     bodyVars, srvVars
<1>1. /\ timer' \subseteq Reqs /\ closedBy' \in Closers \cup {NoOne}
      /\ rt' \in [Reqs -> Trips] /\ wrCh' \in [Reqs -> Results]
  BY DEF TypeOK, closed, closeBy, Closers, moveTrip, Trips, Results
<1>2. DueInv' /\ BodyInv'
  BY DEF DueInv, BodyInv, trailing, ahead, serving, ended
<1>3. TypeOK'
  BY <1>1 DEF TypeOK, closed, closeBy, moveTrip, Locals, Trips, Writers,
       Readers, Bodies, Closers, Results, Loops
<1>4. TripInv'
  BY <1>1 DEF TypeOK, TripInv, WriteInv, closed, closeBy, moveTrip, trailing,
       ended, unsent, Loops
<1>5. CancelInv'
  BY <1>1 DEF TypeOK, CancelInv, closed, closeBy, moveTrip, Loops
<1>6. IdleInv'
  BY <1>1 DEF TypeOK, IdleInv, closed, closeBy, moveTrip, trailing, ahead,
       Loops
<1>7. WriteInv'
  BY <1>1 DEF TypeOK, WriteInv, closed, closeBy, moveTrip, unsent, Loops
<1>8. AheadInv'
  BY <1>1 DEF TypeOK, WriteInv, AheadInv, closed, closeBy, moveTrip, trailing,
       ahead, unsent, Loops
<1>9. ServingInv'
  BY <1>1 DEF TypeOK, ServingInv, closed, closeBy, moveTrip, serving, Loops
<1>10. PastInv'
  BY <1>1 DEF TypeOK, WriteInv, PastInv, closed, closeBy, moveTrip, trailing,
       ahead, serving, ended, past, unsent, Loops
<1> QED
  BY <1>2, <1>3, <1>4, <1>5, <1>6, <1>7, <1>8, <1>9, <1>10

\* The cases of pcClosed that end the wait.
LEMMA RTClosedKeeps == ASSUME IInv, NEW r \in Reqs, RTClosed(r) PROVE IInv'
<1>0. /\ rt' \in [Reqs -> Trips]
      /\ canceler' \in [Reqs -> {"none", "getConn", "pc"}]
      /\ closeSeen' \subseteq Reqs
  <2>1. /\ rt \in [Reqs -> Trips]
        /\ canceler \in [Reqs -> {"none", "getConn", "pc"}]
        /\ closeSeen \subseteq Reqs
    BY DEF IInv, TypeOK
  <2> QED
    BY <2>1 DEF RTClosed, moveTrip, setCanceler, Trips
<1> USE PersistConnAssumption DEF IInv, RTClosed, connVars, chanVars, wlVars,
     rlVars, bodyVars, srvVars
<1>1. IdleInv' /\ DueInv' /\ BodyInv'
  BY DEF IdleInv, DueInv, BodyInv, closed, trailing, ahead, serving, ended
<1>2. TypeOK'
  BY <1>0 DEF TypeOK
<1>3. TripInv'
  BY DEF TypeOK, TripInv, AheadInv, closed, moveTrip, setCanceler, trailing,
       ahead, ended, unsent
<1>4. CancelInv'
  BY DEF TypeOK, CancelInv, closed, moveTrip, setCanceler
<1>5. WriteInv'
  BY DEF TypeOK, WriteInv, closed, moveTrip, setCanceler, unsent
<1>6. AheadInv'
  BY DEF TypeOK, TripInv, AheadInv, closed, moveTrip, setCanceler, trailing,
       ahead, ended, unsent
<1>7. ServingInv'
  BY DEF TypeOK, ServingInv, closed, moveTrip, setCanceler, serving
<1>8. PastInv'
  BY DEF TypeOK, PastInv, closed, moveTrip, setCanceler, trailing, ahead,
       serving, ended, past
<1> QED
  BY <1>1, <1>2, <1>3, <1>4, <1>5, <1>6, <1>7, <1>8

\* The timer ends the wait and closes.
LEMMA RTTimeoutKeeps == ASSUME IInv, NEW r \in Reqs, RTTimeout(r) PROVE IInv'
<1> USE PersistConnAssumption DEF IInv, RTTimeout, chanVars, wlVars, rlVars,
     bodyVars, srvVars
<1>1. DueInv' /\ BodyInv'
  BY DEF DueInv, BodyInv, trailing, ahead, serving, ended
<1>2. TypeOK'
  BY DEF TypeOK, closed, closeBy, moveTrip, setCanceler, Locals, Trips,
       Writers, Readers, Bodies, Closers, Results, Loops
<1>3. TripInv'
  BY DEF TypeOK, TripInv, closed, closeBy, moveTrip, setCanceler, trailing,
       ended, unsent, Loops
<1>4. CancelInv'
  BY DEF TypeOK, CancelInv, closed, closeBy, moveTrip, setCanceler, Loops
<1>5. IdleInv'
  BY DEF TypeOK, IdleInv, closed, closeBy, moveTrip, setCanceler, trailing,
       ahead, Loops
<1>6. WriteInv'
  BY DEF TypeOK, WriteInv, closed, closeBy, moveTrip, setCanceler, unsent,
       Loops
<1>7. AheadInv'
  BY DEF TypeOK, AheadInv, closed, closeBy, moveTrip, setCanceler, trailing,
       ahead, Loops
<1>8. ServingInv'
  BY DEF TypeOK, ServingInv, closed, closeBy, moveTrip, setCanceler, serving,
       Loops
<1>9. PastInv'
  BY DEF TypeOK, PastInv, closed, closeBy, moveTrip, setCanceler, trailing,
       ahead, serving, ended, past, Loops
<1> QED
  BY <1>1, <1>2, <1>3, <1>4, <1>5, <1>6, <1>7, <1>8, <1>9

\* The canceler is still there only for the holder.
LEMMA RTCancelKeeps == ASSUME IInv, NEW r \in Reqs, RTCancel(r) PROVE IInv'
<1> USE PersistConnAssumption DEF IInv, RTCancel, chanVars, wlVars, rlVars,
     bodyVars, srvVars
<1>1. DueInv' /\ ServingInv' /\ BodyInv'
  BY DEF DueInv, ServingInv, BodyInv, trailing, ahead, serving, ended
<1>2. TypeOK'
  BY DEF TypeOK, closed, closeBy, setCanceler, cancelRequest, Locals, Trips,
       Writers, Readers, Bodies, Closers, Results, Loops
<1>3. TripInv'
  BY DEF TypeOK, TripInv, closed, closeBy, setCanceler, cancelRequest,
       trailing, ended, unsent, Loops
<1>4. CancelInv'
  BY DEF TypeOK, TripInv, CancelInv, closed, closeBy, setCanceler,
       cancelRequest, trailing, ended, unsent, Loops
<1>5. IdleInv'
  BY DEF TypeOK, IdleInv, closed, closeBy, setCanceler, cancelRequest,
       trailing, ahead, Loops
<1>6. WriteInv'
  BY DEF TypeOK, WriteInv, closed, closeBy, setCanceler, cancelRequest, unsent,
       Loops
<1>7. AheadInv'
  BY DEF TypeOK, TripInv, AheadInv, closed, closeBy, setCanceler,
       cancelRequest, trailing, ahead, ended, unsent, Loops
<1>8. PastInv'
  BY DEF TypeOK, TripInv, PastInv, closed, closeBy, setCanceler, cancelRequest,
       trailing, ahead, serving, ended, past, unsent, Loops
<1> QED
  BY <1>1, <1>2, <1>3, <1>4, <1>5, <1>6, <1>7, <1>8

\* The connection is closed when the writeLoop has ended.
LEMMA RTMapErrorKeeps == ASSUME IInv, NEW r \in Reqs, RTMapError(r) PROVE IInv'
<1> USE PersistConnAssumption DEF IInv, RTMapError, connVars, chanVars, wlVars,
     rlVars, bodyVars, srvVars
<1>1. IdleInv' /\ DueInv' /\ BodyInv'
  BY DEF IdleInv, DueInv, BodyInv, closed, trailing, ahead, serving, ended
<1>2. TypeOK'
  BY DEF TypeOK, moveTrip, setCanceler, Locals, Trips, Writers, Readers,
       Bodies, Closers, Results, Loops
<1>3. TripInv'
  BY DEF TypeOK, TripInv, WriteInv, closed, moveTrip, setCanceler, trailing,
       ended, unsent
<1>4. CancelInv'
  BY DEF TypeOK, CancelInv, closed, moveTrip, setCanceler
<1>5. WriteInv'
  BY DEF TypeOK, WriteInv, closed, moveTrip, setCanceler, unsent
<1>6. AheadInv'
  BY DEF TypeOK, AheadInv, moveTrip, setCanceler, trailing, ahead
<1>7. ServingInv'
  BY DEF TypeOK, ServingInv, moveTrip, setCanceler, serving
<1>8. PastInv'
  BY DEF TypeOK, PastInv, moveTrip, setCanceler, trailing, ahead, serving,
       ended, past
<1> QED
  BY <1>1, <1>2, <1>3, <1>4, <1>5, <1>6, <1>7, <1>8

\* The caller's cancellation is only a request.
LEMMA UserCancelKeeps == ASSUME IInv, NEW r \in Reqs, UserCancel(r) PROVE IInv'
<1> USE PersistConnAssumption DEF IInv, UserCancel, connVars, chanVars, wlVars,
     rlVars, bodyVars, srvVars
<1>1. TripInv' /\ CancelInv' /\ IdleInv' /\ WriteInv' /\ DueInv' /\ AheadInv' /\ ServingInv' /\ PastInv' /\ BodyInv'
  BY DEF TripInv, CancelInv, IdleInv, WriteInv, DueInv, AheadInv, ServingInv,
       PastInv, BodyInv, closed, trailing, ahead, serving, ended, past, unsent
<1>2. ctxDone' \in [Reqs -> SUBSET Channels]
  <2> HIDE DEF IInv
  <2>1. ctxDone \in [Reqs -> SUBSET Channels]
    BY DEF IInv, TypeOK
  <2>2. PICK c \in CancelChans[r] : ctxDone' = [ctxDone EXCEPT ![r] = @ \cup {c}]
    OBVIOUS
  <2>3. CancelChans[r] \subseteq Channels
    BY PersistConnAssumption
  <2> QED
    BY <2>1, <2>2, <2>3
<1>3. TypeOK'
  BY <1>2 DEF TypeOK
<1> QED
  BY <1>1, <1>3

\* The writeLoop takes the request of the holder: writeErrCh is empty.
LEMMA WLTakeKeeps == ASSUME IInv, WLTake PROVE IInv'
<1> USE PersistConnAssumption DEF IInv, WLTake, connVars, rtVars, rlVars,
     bodyVars
<1>1. CancelInv' /\ IdleInv' /\ AheadInv' /\ ServingInv' /\ BodyInv'
  BY DEF CancelInv, IdleInv, AheadInv, ServingInv, BodyInv, closed, trailing,
       ahead, serving, ended
<1>2. TypeOK'
  BY DEF TypeOK, Locals, Trips, Writers, Readers, Bodies, Closers, Results,
       Loops
<1>3. TripInv'
  BY DEF TypeOK, TripInv, WriteInv, closed, trailing, ended, unsent
<1>4. WriteInv'
  BY DEF TypeOK, WriteInv, closed, unsent
<1>5. DueInv'
  BY DEF TypeOK, WriteInv, DueInv, closed, trailing, ahead, serving, unsent
<1>6. PastInv'
  BY DEF TypeOK, WriteInv, PastInv, closed, trailing, ahead, serving, ended,
       past, unsent
<1> QED
  BY <1>1, <1>2, <1>3, <1>4, <1>5, <1>6

\* The writeLoop ends with the connection.
LEMMA WLClosedKeeps == ASSUME IInv, WLClosed PROVE IInv'
<1> USE PersistConnAssumption DEF IInv, WLClosed, connVars, chanVars, rtVars,
     rlVars, bodyVars, srvVars
<1>1. TripInv' /\ CancelInv' /\ IdleInv' /\ DueInv' /\ AheadInv' /\ ServingInv' /\ BodyInv'
  BY DEF TripInv, CancelInv, IdleInv, DueInv, AheadInv, ServingInv, BodyInv,
       closed, trailing, ahead, serving, ended, unsent
<1>2. TypeOK'
  BY DEF TypeOK, closed, Locals, Trips, Writers, Readers, Bodies, Closers,
       Results, Loops
<1>3. WriteInv'
  BY DEF TypeOK, WriteInv, closed, unsent
<1>4. PastInv'
  BY DEF TypeOK, PastInv, closed, trailing, ahead, serving, ended, past
<1> QED
  BY <1>1, <1>2, <1>3, <1>4

\* The write ends.
LEMMA WLWriteKeeps == ASSUME IInv, WLWrite PROVE IInv'
<1> USE PersistConnAssumption DEF IInv, WLWrite, connVars, chanVars, rtVars,
     rlVars, bodyVars, srvVars
<1>1. CancelInv' /\ IdleInv' /\ DueInv' /\ AheadInv' /\ ServingInv' /\ BodyInv'
  BY DEF CancelInv, IdleInv, DueInv, AheadInv, ServingInv, BodyInv, closed,
       trailing, ahead, serving, ended
<1>2. TypeOK'
  BY DEF TypeOK, closed, Locals, Trips, Writers, Readers, Bodies, Closers,
       Results, Loops
<1>3. TripInv'
  BY DEF TypeOK, TripInv, WriteInv, closed, trailing, ended, unsent
<1>4. WriteInv'
  BY DEF TypeOK, WriteInv, closed, unsent
<1>5. PastInv'
  BY DEF TypeOK, WriteInv, PastInv, closed, trailing, ahead, serving, ended,
       past, unsent
<1> QED
  BY <1>1, <1>2, <1>3, <1>4, <1>5

\* Its result goes to the readLoop.
LEMMA WLReportKeeps == ASSUME IInv, WLReport PROVE IInv'
<1> USE PersistConnAssumption DEF IInv, WLReport, connVars, rtVars, rlVars,
     bodyVars, srvVars
<1>1. TripInv' /\ CancelInv' /\ IdleInv' /\ DueInv' /\ AheadInv' /\ ServingInv' /\ BodyInv'
  BY DEF TripInv, CancelInv, IdleInv, DueInv, AheadInv, ServingInv, BodyInv,
       closed, trailing, ahead, serving, ended, unsent
<1>2. TypeOK'
  BY DEF TypeOK, Locals, Trips, Writers, Readers, Bodies, Closers, Results,
       Loops
<1>3. WriteInv'
  BY DEF TypeOK, WriteInv, closed, unsent
<1>4. PastInv'
  BY DEF TypeOK, PastInv, trailing, ahead, serving, ended, past
<1> QED
  BY <1>1, <1>2, <1>3, <1>4

\* ... and to roundTrip.
LEMMA WLAnswerKeeps == ASSUME IInv, WLAnswer PROVE IInv'
<1> USE PersistConnAssumption DEF IInv, WLAnswer, connVars, chanVars, rlVars,
     bodyVars, srvVars
<1>1. TripInv' /\ CancelInv' /\ IdleInv' /\ DueInv' /\ AheadInv' /\ ServingInv' /\ BodyInv'
  BY DEF TripInv, CancelInv, IdleInv, DueInv, AheadInv, ServingInv, BodyInv,
       closed, trailing, ahead, serving, ended, unsent
<1>2. TypeOK'
  BY DEF TypeOK, WriteInv, closed, unsent, Locals, Trips, Writers, Readers,
       Bodies, Closers, Results, Loops
<1>3. WriteInv'
  BY DEF TypeOK, WriteInv, closed, unsent
<1>4. PastInv'
  BY DEF TypeOK, PastInv, trailing, ahead, serving, ended, past
<1> QED
  BY <1>1, <1>2, <1>3, <1>4

\* After an error the connection is closed.
LEMMA WLCloseKeeps == ASSUME IInv, WLClose PROVE IInv'
<1> USE PersistConnAssumption DEF IInv, WLClose, chanVars, rtVars, rlVars,
     bodyVars, srvVars
<1>1. DueInv' /\ AheadInv' /\ ServingInv' /\ BodyInv'
  BY DEF DueInv, AheadInv, ServingInv, BodyInv, trailing, ahead, serving, ended
<1>2. TypeOK'
  BY DEF TypeOK, closed, closeBy, Locals, Trips, Writers, Readers, Bodies,
       Closers, Results, Loops
<1>3. TripInv'
  BY DEF TypeOK, TripInv, closed, closeBy, trailing, ended, unsent, Loops
<1>4. CancelInv'
  BY DEF TypeOK, CancelInv, closed, closeBy, Loops
<1>5. IdleInv'
  BY DEF TypeOK, IdleInv, closed, closeBy, trailing, ahead, Loops
<1>6. WriteInv'
  BY DEF TypeOK, WriteInv, closed, closeBy, unsent, Loops
<1>7. PastInv'
  BY DEF TypeOK, PastInv, closed, closeBy, trailing, ahead, serving, ended,
       past, Loops
<1> QED
  BY <1>1, <1>2, <1>3, <1>4, <1>5, <1>6, <1>7

\* A byte, or the end: the locals of an iteration are new.
LEMMA RLPeekKeeps == ASSUME IInv, RLPeek PROVE IInv'
<1> USE PersistConnAssumption DEF IInv, RLPeek, connVars, chanVars, rtVars,
     wlVars, bodyVars, srvVars
<1>1. cur' \in Locals
  BY ZenonT(60) DEF TypeOK, Locals, newIteration
<1>2. CancelInv' /\ WriteInv'
  BY DEF CancelInv, WriteInv, closed, unsent
<1>3. TypeOK'
  BY <1>1 DEF TypeOK, closed, newIteration, Trips, Writers, Readers, Bodies,
       Closers, Results, Loops
<1>4. TripInv'
  BY <1>1 DEF TypeOK, TripInv, closed, newIteration, trailing, ended, unsent,
       Locals
<1>5. IdleInv'
  BY <1>1 DEF TypeOK, IdleInv, closed, newIteration, trailing, ahead, Locals
<1>6. DueInv'
  BY <1>1 DEF TypeOK, DueInv, closed, newIteration, trailing, ahead, serving,
       Locals
<1>7. AheadInv'
  BY <1>1 DEF TypeOK, AheadInv, closed, newIteration, trailing, ahead, Locals
<1>8. ServingInv'
  BY <1>1 DEF TypeOK, ServingInv, closed, newIteration, serving, Locals
<1>9. PastInv'
  BY <1>1 DEF TypeOK, PastInv, closed, newIteration, trailing, ahead, serving,
       ended, past, Locals
<1>10. BodyInv'
  BY <1>1 DEF TypeOK, BodyInv, closed, newIteration, ended, Locals
<1> QED
  BY <1>2, <1>3, <1>4, <1>5, <1>6, <1>7, <1>8, <1>9, <1>10

\* The connection is closed if no response is expected.
LEMMA RLCheckKeeps == ASSUME IInv, RLCheck PROVE IInv'
<1> USE PersistConnAssumption DEF IInv, RLCheck, chanVars, rtVars, wlVars,
     bodyVars, srvVars
<1>1. TypeOK'
  BY DEF TypeOK, closed, closeBy, Locals, Trips, Writers, Readers, Bodies,
       Closers, Results, Loops
<1>2. TripInv'
  BY DEF TypeOK, TripInv, closed, closeBy, trailing, ended, unsent, Loops
<1>3. CancelInv'
  BY DEF TypeOK, CancelInv, closed, closeBy, Loops
<1>4. IdleInv'
  BY DEF TypeOK, IdleInv, closed, closeBy, trailing, ahead, Loops
<1>5. WriteInv'
  BY DEF TypeOK, WriteInv, closed, closeBy, unsent, Loops
<1>6. DueInv'
  BY DEF TypeOK, DueInv, closed, closeBy, trailing, ahead, serving, Loops
<1>7. AheadInv'
  BY DEF TypeOK, AheadInv, closed, closeBy, trailing, ahead, Loops
<1>8. ServingInv'
  BY DEF TypeOK, ServingInv, closed, closeBy, serving, Loops
<1>9. PastInv'
  BY DEF TypeOK, PastInv, closed, closeBy, trailing, ahead, serving, ended,
       past, Loops
<1>10. BodyInv'
  BY DEF TypeOK, BodyInv, closed, closeBy, ended, Loops
<1> QED
  BY <1>1, <1>2, <1>3, <1>4, <1>5, <1>6, <1>7, <1>8, <1>9, <1>10

\* The request that the readLoop takes is the holder's.
LEMMA RLReceiveKeeps == ASSUME IInv, RLReceive PROVE IInv'
<1> USE PersistConnAssumption DEF IInv, RLReceive, connVars, rtVars, wlVars,
     bodyVars, srvVars
<1>1. cur' \in Locals
  BY SMTT(60) DEF TypeOK, Locals
<1>2. CancelInv' /\ WriteInv'
  BY DEF CancelInv, WriteInv, closed, unsent
<1>3. TypeOK'
  BY <1>1 DEF TypeOK, Trips, Writers, Readers, Bodies, Closers, Results, Loops
<1>4. TripInv'
  BY <1>1 DEF TypeOK, TripInv, closed, trailing, ended, unsent, Locals
<1>5. IdleInv'
  BY <1>1 DEF TypeOK, IdleInv, AheadInv, closed, trailing, ahead, Locals
<1>6. DueInv'
  BY <1>1 DEF TypeOK, DueInv, trailing, ahead, serving, Locals
<1>7. AheadInv'
  BY <1>1 DEF TypeOK, AheadInv, trailing, ahead, Locals
<1>8. ServingInv'
  BY <1>1 DEF TypeOK, AheadInv, ServingInv, trailing, ahead, serving, Locals
<1>9. PastInv'
  BY <1>1 DEF TypeOK, PastInv, trailing, ahead, serving, ended, past, Locals
<1>10. BodyInv'
  BY <1>1 DEF TypeOK, BodyInv, ended, Locals
<1> QED
  BY <1>2, <1>3, <1>4, <1>5, <1>6, <1>7, <1>8, <1>9, <1>10

\* The response that was due is read, and nothing else was due.
LEMMA RLReadKeeps == ASSUME IInv, RLRead PROVE IInv'
<1> USE PersistConnAssumption DEF IInv, RLRead, chanVars, rtVars, wlVars,
     bodyVars
<1>1. cur' \in Locals
  BY ZenonT(60) DEF TypeOK, Locals, ServingInv, serving
<1>2. CancelInv' /\ WriteInv'
  BY DEF CancelInv, WriteInv, closed, unsent
<1>3. TypeOK'
  BY <1>1 DEF TypeOK, ServingInv, serving, Trips, Writers, Readers, Bodies,
       Closers, Results, Loops
<1>4. TripInv'
  BY <1>1 DEF TypeOK, TripInv, DueInv, closed, trailing, ahead, serving, ended,
       unsent, Locals
<1>5. IdleInv'
  BY <1>1 DEF TypeOK, IdleInv, closed, trailing, ahead, Locals
<1>6. DueInv'
  BY <1>1 DEF TypeOK, DueInv, trailing, ahead, serving, Locals
<1>7. AheadInv'
  BY <1>1 DEF TypeOK, AheadInv, trailing, ahead, Locals
<1>8. ServingInv'
  BY <1>1 DEF TypeOK, ServingInv, serving, Locals
<1>9. PastInv'
  BY <1>1, SMTT(60) DEF TypeOK, DueInv, ServingInv, PastInv, trailing, ahead, serving,
       ended, past, Locals
<1>10. BodyInv'
  BY <1>1 DEF TypeOK, BodyInv, ended, Locals
<1> QED
  BY <1>2, <1>3, <1>4, <1>5, <1>6, <1>7, <1>8, <1>9, <1>10

\* It is not read.
LEMMA RLReadErrorKeeps == ASSUME IInv, RLReadError PROVE IInv'
<1> USE PersistConnAssumption DEF IInv, RLReadError, connVars, chanVars,
     rtVars, wlVars, bodyVars, srvVars
<1>1. CancelInv' /\ WriteInv'
  BY DEF CancelInv, WriteInv, closed, unsent
<1>2. TypeOK'
  BY DEF TypeOK, Locals, Trips, Writers, Readers, Bodies, Closers, Results,
       Loops
<1>3. TripInv'
  BY DEF TypeOK, TripInv, closed, trailing, ended, unsent
<1>4. IdleInv'
  BY DEF TypeOK, IdleInv, closed, trailing, ahead
<1>5. DueInv'
  BY DEF TypeOK, DueInv, trailing, ahead, serving
<1>6. AheadInv'
  BY DEF TypeOK, AheadInv, trailing, ahead
<1>7. ServingInv'
  BY DEF TypeOK, ServingInv, serving
<1>8. PastInv'
  BY DEF TypeOK, PastInv, trailing, ahead, serving, ended, past
<1>9. BodyInv'
  BY DEF TypeOK, BodyInv, ended
<1> QED
  BY <1>1, <1>2, <1>3, <1>4, <1>5, <1>6, <1>7, <1>8, <1>9

\* roundTrip gets the error, or has returned.
LEMMA RLSendErrKeeps == ASSUME IInv, RLSendErr PROVE IInv'
<1> USE PersistConnAssumption DEF IInv, RLSendErr, connVars, chanVars, wlVars,
     bodyVars, srvVars
<1>1. TypeOK'
  BY SMTT(60) DEF TypeOK, gone, moveTrip, Locals, Trips, Writers, Readers, Bodies,
       Closers, Results, Loops
<1>2. TripInv'
  BY DEF TypeOK, TripInv, closed, gone, moveTrip, trailing, ended, unsent
<1>3. CancelInv'
  BY DEF TypeOK, CancelInv, closed, gone, moveTrip
<1>4. IdleInv'
  BY DEF TypeOK, IdleInv, closed, gone, moveTrip, trailing, ahead
<1>5. WriteInv'
  BY DEF TypeOK, WriteInv, closed, gone, moveTrip, unsent
<1>6. DueInv'
  BY DEF TypeOK, DueInv, gone, moveTrip, trailing, ahead, serving
<1>7. AheadInv'
  BY DEF TypeOK, AheadInv, gone, moveTrip, trailing, ahead
<1>8. ServingInv'
  BY DEF TypeOK, ServingInv, gone, moveTrip, serving
<1>9. PastInv'
  BY DEF TypeOK, PastInv, gone, moveTrip, trailing, ahead, serving, ended, past
<1>10. BodyInv'
  BY DEF TypeOK, BodyInv, gone, moveTrip, ended
<1> QED
  BY <1>1, <1>2, <1>3, <1>4, <1>5, <1>6, <1>7, <1>8, <1>9, <1>10

\* The connection is used again only at the end of the body and if the
\* request had not been canceled.
LEMMA RLReplaceKeeps == ASSUME IInv, RLReplace PROVE IInv'
<1> USE PersistConnAssumption DEF IInv
<1>1. /\ rl = "replace"
      /\ canceler' = [canceler EXCEPT ![cur.req] = "none"]
      /\ UNCHANGED <<holder, closedBy, canceledBy, expected, writech, reqch, writeErrCh, rt,
                     ctxDone, listen, canceled, closeSeen, wrCh, timer, wl, wreq, werr,
                     ub, bodyCh, sent, wire, unread, answered, srvEOF>>
  BY DEF RLReplace, setCanceler, connVars, chanVars, wlVars, bodyVars, srvVars
<1>2. PICK again, first \in BOOLEAN :
         /\ again => cur.alive /\ (cur.hasBody => cur.bodyEOF)
         /\ first <=> canceler[cur.req] # "none"
         /\ cur' = [cur EXCEPT !.replaced = first, !.alive = again]
         /\ rl' = IF again THEN "wroteRequest" ELSE afterRecycle(FALSE)
  <2>1. PICK sawEOF \in {FALSE, srvEOF} :
         LET a == cur.alive /\ (cur.hasBody => cur.bodyEOF) /\ ~sawEOF
         IN  /\ cur' = [cur EXCEPT !.replaced = canceler[cur.req] # "none", !.alive = a]
             /\ rl' = IF a THEN "wroteRequest" ELSE afterRecycle(FALSE)
    BY DEF RLReplace
  <2> DEFINE a == cur.alive /\ (cur.hasBody => cur.bodyEOF) /\ ~sawEOF
             p == canceler[cur.req] # "none"
  <2>2. a \in BOOLEAN /\ p \in BOOLEAN
    OBVIOUS
  <2> QED
    BY <2>1, <2>2, Zenon
<1>3. /\ cur' \in Locals /\ cur'.req = cur.req /\ cur'.hasBody = cur.hasBody
      /\ cur'.bodyEOF = cur.bodyEOF /\ cur'.alive = again /\ cur'.replaced = first
  BY <1>2, ZenonT(60) DEF TypeOK, Locals
<1>4. rl' = IF again THEN "wroteRequest" ELSE IF ~cur.hasBody THEN "sendResp"
            ELSE IF cur.bodyEOF THEN "eofc" ELSE "exit"
  BY <1>2 DEF afterRecycle, nextIteration
<1>5. rl' \in Readers /\ ~trailing /\ ~trailing'
  BY <1>1, <1>2, <1>3, <1>4 DEF Readers, trailing
<1>6. /\ cur.req \in Reqs /\ canceler'[cur.req] = "none" /\ holder = cur.req
      /\ rt[cur.req] \in {"answered", "select", "map", "failed"}
  BY <1>1 DEF TypeOK, PastInv, past, ahead, trailing, serving, ended
<1>7. canceler' \in [Reqs -> {"none", "getConn", "pc"}]
  BY <1>1 DEF TypeOK
<1>8. first => /\ canceledBy = NoOne /\ cur.req \notin canceled
               /\ rt[cur.req] = "map" => werr
  BY <1>1, <1>2, <1>6 DEF CancelInv, TripInv, ended
<1>9. TypeOK'
  BY <1>1, <1>3, <1>5, <1>7 DEF TypeOK
<1>10. TripInv'
  BY <1>1, <1>5, <1>6 DEF TypeOK, TripInv, closed, ended
<1>11. CancelInv'
  BY <1>1, <1>2, <1>3, <1>4, <1>5, <1>6, <1>7, <1>8 DEF TypeOK, CancelInv,
       closed
<1>12. IdleInv'
  BY <1>1, <1>2, <1>3, <1>4, <1>5, <1>6, <1>7, <1>8 DEF TypeOK, IdleInv,
       closed, trailing, ahead
<1>13. WriteInv'
  BY <1>1, <1>2, <1>3, <1>4, <1>5, <1>6, <1>7, <1>8 DEF TypeOK, WriteInv,
       closed, unsent
<1>14. DueInv'
  BY <1>1, <1>2, <1>3, <1>4, <1>5, <1>6, <1>7, <1>8, ZenonT(60) DEF TypeOK, DueInv,
       trailing, ahead, serving
<1>15. AheadInv'
  BY <1>1, <1>2, <1>3, <1>4, <1>5, <1>6, <1>7, <1>8, ZenonT(60) DEF TypeOK, AheadInv,
       trailing, ahead
<1>16. ServingInv'
  BY <1>1, <1>2, <1>3, <1>4, <1>5, <1>6, <1>7, <1>8 DEF TypeOK, ServingInv,
       serving
<1>17. PastInv'
  <2>1. /\ wire = <<>> /\ sent \subseteq answered /\ holder \in answered
        /\ expected = 0 /\ reqch = <<>>
        /\ ~cur.hasBody \/ cur.bodyEOF => unread = NoOne
        /\ rt[cur.req] \in IF cur.hasBody THEN {"answered"} ELSE {"select", "map", "failed"}
    BY <1>1 DEF PastInv, past, ahead, trailing, serving, ended
  <2>2. past' => \/ again /\ rl' = "wroteRequest"
                 \/ ~again /\ ~cur.hasBody /\ rl' = "sendResp"
                 \/ ~again /\ cur.hasBody /\ cur.bodyEOF /\ rl' = "eofc"
    BY <1>4 DEF past, ended
  <2>3. again => (cur.hasBody => cur.bodyEOF)
    BY <1>2
  <2>4. ASSUME past' PROVE PastInv'
    <3>1. CASE again
      BY <1>1, <1>3, <1>6, <1>8, <2>1, <2>2, <2>3, <2>4, <3>1 DEF PastInv
    <3>2. CASE ~again
      BY <1>1, <1>3, <1>6, <2>1, <2>2, <2>4, <3>2 DEF PastInv
    <3> QED
      BY <3>1, <3>2
  <2> QED
    BY <2>4 DEF PastInv
<1>18. BodyInv'
  BY <1>1, <1>2, <1>3, <1>4, <1>5, <1>6, <1>7, <1>8, ZenonT(60) DEF TypeOK, BodyInv, ended
<1> QED
  BY <1>9, <1>10, <1>11, <1>12, <1>13, <1>14, <1>15, <1>16, <1>17, <1>18

\* ... and only if the request has been written.
LEMMA RLWroteRequestKeeps == ASSUME IInv, RLWroteRequest PROVE IInv'
<1> USE PersistConnAssumption DEF IInv
<1>1. /\ rl = "wroteRequest" /\ writeErrCh' = "none"
      /\ UNCHANGED <<holder, closedBy, canceledBy, expected, writech, reqch, rt, canceler,
                     ctxDone, listen, canceled, closeSeen, wrCh, timer, wl, wreq, werr,
                     ub, bodyCh, sent, wire, unread, answered, srvEOF>>
  BY DEF RLWroteRequest, connVars, rtVars, wlVars, bodyVars, srvVars
<1>2. PICK again \in BOOLEAN :
         /\ again => writeErrCh = "ok" /\ cur.replaced
         /\ cur' = [cur EXCEPT !.alive = again]
         /\ rl' = IF again THEN "put" ELSE afterRecycle(FALSE)
  <2> DEFINE a == writeErrCh = "ok" /\ cur.replaced
  <2>1. a \in BOOLEAN /\ cur' = [cur EXCEPT !.alive = a]
        /\ rl' = IF a THEN "put" ELSE afterRecycle(FALSE)
    BY DEF RLWroteRequest
  <2> QED
    BY <2>1, Zenon
<1>3. /\ cur' \in Locals /\ cur'.req = cur.req /\ cur'.hasBody = cur.hasBody
      /\ cur'.bodyEOF = cur.bodyEOF /\ cur'.replaced = cur.replaced
      /\ cur'.alive = again
  BY <1>2 DEF TypeOK, Locals
<1>4. rl' = IF again THEN "put" ELSE IF ~cur.hasBody THEN "sendResp"
            ELSE IF cur.bodyEOF THEN "eofc" ELSE "exit"
  BY <1>2 DEF afterRecycle, nextIteration
<1>5. /\ cur.req \in Reqs /\ holder = cur.req /\ wire = <<>> /\ sent \subseteq answered
      /\ holder \in answered /\ expected = 0 /\ reqch = <<>> /\ unread = NoOne
      /\ rt[cur.req] \in {"answered", "select", "map", "failed"}
      /\ cur.hasBody => cur.bodyEOF /\ rt[cur.req] = "answered"
      /\ ~cur.hasBody => rt[cur.req] # "answered"
      /\ cur.replaced => /\ canceledBy = NoOne /\ cur.req \notin canceled
                         /\ rt[cur.req] = "map" => werr
      /\ canceler[cur.req] = "none"
  BY <1>1 DEF PastInv, past, ahead, trailing, serving, ended
<1>6. again => cur.replaced /\ ~werr /\ wl \in {"answer", "select", "done"}
  BY <1>1, <1>2 DEF TypeOK, Writers, WriteInv
<1>7. rl' \in Readers
  BY <1>4 DEF Readers
<1>8. TypeOK'
  BY <1>1, <1>3, <1>7 DEF TypeOK, Results
<1>9. TripInv'
  BY <1>1, <1>2, <1>3, <1>4, <1>5, <1>6, <1>7, ZenonT(60) DEF TypeOK, TripInv, closed,
       trailing, ended, unsent
<1>10. CancelInv'
  BY <1>1, <1>2, <1>3, <1>4, <1>5, <1>6, <1>7 DEF TypeOK, CancelInv, closed
<1>11. IdleInv'
  BY <1>1, <1>2, <1>3, <1>4, <1>5, <1>6, <1>7 DEF TypeOK, IdleInv, closed,
       trailing, ahead
<1>12. WriteInv'
  BY <1>1, <1>2, <1>3, <1>4, <1>5, <1>6, <1>7 DEF TypeOK, WriteInv, closed,
       unsent
<1>13. DueInv'
  BY <1>1, <1>2, <1>3, <1>4, <1>5, <1>6, <1>7 DEF TypeOK, DueInv, trailing,
       ahead, serving
<1>14. AheadInv'
  BY <1>1, <1>2, <1>3, <1>4, <1>5, <1>6, <1>7 DEF TypeOK, AheadInv, trailing,
       ahead
<1>15. ServingInv'
  BY <1>1, <1>2, <1>3, <1>4, <1>5, <1>6, <1>7 DEF TypeOK, ServingInv, serving
<1>16. PastInv'
  BY <1>1, <1>3, <1>4, <1>5, <1>6 DEF PastInv, past, ahead, trailing, serving,
       ended
<1>17. BodyInv'
  BY <1>1, <1>2, <1>3, <1>4, <1>5, <1>6, <1>7, ZenonT(60) DEF TypeOK, BodyInv, ended
<1> QED
  BY <1>8, <1>9, <1>10, <1>11, <1>12, <1>13, <1>14, <1>15, <1>16, <1>17

\* tryPutIdleConn may refuse it.
LEMMA RLPutKeeps == ASSUME IInv, RLPut PROVE IInv'
<1> USE PersistConnAssumption DEF IInv, RLPut, connVars, chanVars, rtVars,
     wlVars, bodyVars, srvVars
<1>1. cur' \in Locals
  BY ZenonT(60) DEF TypeOK, Locals
<1>2. CancelInv' /\ WriteInv'
  BY DEF CancelInv, WriteInv, closed, unsent
<1>3. TypeOK'
  BY <1>1 DEF TypeOK, closed, nextIteration, afterRecycle, Trips, Writers,
       Readers, Bodies, Closers, Results, Loops
<1>4. TripInv'
  BY <1>1 DEF TypeOK, TripInv, closed, nextIteration, afterRecycle, trailing,
       ended, unsent, Locals
<1>5. IdleInv'
  BY <1>1 DEF TypeOK, IdleInv, closed, nextIteration, afterRecycle, trailing,
       ahead, Locals
<1>6. DueInv'
  BY <1>1 DEF TypeOK, DueInv, closed, nextIteration, afterRecycle, trailing,
       ahead, serving, Locals
<1>7. AheadInv'
  BY <1>1 DEF TypeOK, AheadInv, closed, nextIteration, afterRecycle, trailing,
       ahead, Locals
<1>8. ServingInv'
  BY <1>1 DEF TypeOK, ServingInv, closed, nextIteration, afterRecycle, serving,
       Locals
<1>9. PastInv'
  BY <1>1 DEF TypeOK, PastInv, closed, nextIteration, afterRecycle, trailing,
       ahead, serving, ended, past, Locals
<1>10. BodyInv'
  BY <1>1 DEF TypeOK, BodyInv, closed, nextIteration, afterRecycle, ended,
       Locals
<1> QED
  BY <1>2, <1>3, <1>4, <1>5, <1>6, <1>7, <1>8, <1>9, <1>10

\* An idle connection, or the next request's: nothing is due on it.
LEMMA RLParkKeeps == ASSUME IInv, RLPark PROVE IInv'
<1> USE PersistConnAssumption DEF IInv, RLPark, chanVars, wlVars, bodyVars,
     srvVars
<1>1. /\ rl' \in Readers /\ rt' \in [Reqs -> Trips] /\ holder' \in Reqs \cup {Idle}
      /\ canceler' \in [Reqs -> {"none", "getConn", "pc"}]
  BY SMTT(60) DEF TypeOK, Readers, Trips, afterRecycle, nextIteration, deliver,
       moveTrip, setCanceler
<1>2. TypeOK'
  BY <1>1 DEF TypeOK, moveTrip, setCanceler, deliver, nextIteration,
       afterRecycle, Locals, Trips, Writers, Readers, Bodies, Closers, Results,
       Loops
<1>3. TripInv'
  BY <1>1, SMTT(60) DEF TypeOK, TripInv, PastInv, closed, moveTrip, setCanceler, deliver,
       nextIteration, afterRecycle, trailing, ahead, serving, ended, past,
       unsent
<1>4. CancelInv'
  BY <1>1 DEF TypeOK, CancelInv, PastInv, closed, moveTrip, setCanceler,
       deliver, nextIteration, afterRecycle, trailing, ahead, serving, ended,
       past
<1>5. IdleInv'
  BY <1>1 DEF TypeOK, IdleInv, PastInv, closed, moveTrip, setCanceler, deliver,
       nextIteration, afterRecycle, trailing, ahead, serving, ended, past
<1>6. WriteInv'
  BY <1>1 DEF TypeOK, WriteInv, PastInv, closed, moveTrip, setCanceler,
       deliver, nextIteration, afterRecycle, trailing, ahead, serving, ended,
       past, unsent
<1>7. DueInv'
  BY <1>1 DEF TypeOK, TripInv, DueInv, PastInv, closed, moveTrip, setCanceler,
       deliver, nextIteration, afterRecycle, trailing, ahead, serving, ended,
       past, unsent
<1>8. AheadInv'
  BY <1>1 DEF TypeOK, AheadInv, PastInv, moveTrip, setCanceler, deliver,
       nextIteration, afterRecycle, trailing, ahead, serving, ended, past
<1>9. ServingInv'
  BY <1>1 DEF TypeOK, ServingInv, moveTrip, setCanceler, deliver,
       nextIteration, afterRecycle, serving
<1>10. PastInv'
  BY <1>1 DEF TypeOK, PastInv, moveTrip, setCanceler, deliver, nextIteration,
       afterRecycle, trailing, ahead, serving, ended, past
<1>11. BodyInv'
  BY <1>1 DEF TypeOK, BodyInv, moveTrip, setCanceler, deliver, nextIteration,
       afterRecycle, ended
<1> QED
  BY <1>2, <1>3, <1>4, <1>5, <1>6, <1>7, <1>8, <1>9, <1>10, <1>11

\* roundTrip gets the response, or has returned.
LEMMA RLSendRespKeeps == ASSUME IInv, RLSendResp PROVE IInv'
<1> USE PersistConnAssumption DEF IInv, RLSendResp, connVars, chanVars, wlVars,
     bodyVars, srvVars
<1>1. cur.req \in Reqs /\ cur \in Locals
  BY DEF TypeOK, AheadInv, PastInv, ahead, trailing, past, serving, ended, gone
<1>2. rl' \in Readers /\ rt' \in [Reqs -> Trips]
  BY <1>1 DEF TypeOK, Readers, Trips, nextIteration, moveTrip
<1>3. ub' \in [Reqs -> Bodies]
  BY <1>1, SMTT(60) DEF TypeOK, Bodies
<1>4. bodyCh' \in Seq(BOOLEAN) /\ Len(bodyCh') <= 2
  <2>1. bodyCh' = bodyCh \/ bodyCh' = <<>>
    BY DEF RLSendResp, bodyVars
  <2>2. <<>> \in Seq(BOOLEAN) /\ Len(<<>>) <= 2
    BY EmptySeq
  <2>3. bodyCh \in Seq(BOOLEAN) /\ Len(bodyCh) <= 2
    BY DEF TypeOK
  <2> HIDE DEF RLSendResp
  <2> QED
    BY <2>1, <2>2, <2>3
<1>5. TypeOK'
  BY <1>1, <1>2, <1>3, <1>4 DEF TypeOK, gone, moveTrip, nextIteration, Locals,
       Trips, Writers, Readers, Bodies, Closers, Results, Loops
<1>6. TripInv'
  BY <1>1, <1>2, <1>3, <1>4 DEF TypeOK, TripInv, closed, gone, moveTrip,
       nextIteration, trailing, ended, unsent
<1>7. CancelInv'
  BY <1>1, <1>2, <1>3, <1>4 DEF TypeOK, CancelInv, closed, gone, moveTrip,
       nextIteration
<1>8. IdleInv'
  BY <1>1, <1>2, <1>3, <1>4 DEF TypeOK, TripInv, IdleInv, AheadInv, PastInv,
       closed, gone, moveTrip, nextIteration, trailing, ahead, serving, ended,
       past, unsent
<1>9. WriteInv'
  BY <1>1, <1>2, <1>3, <1>4 DEF TypeOK, WriteInv, closed, gone, moveTrip,
       nextIteration, unsent
<1>10. DueInv'
  BY <1>1, <1>2, <1>3, <1>4 DEF TypeOK, DueInv, gone, moveTrip, nextIteration,
       trailing, ahead, serving
<1>11. AheadInv'
  BY <1>1, <1>2, <1>3, <1>4 DEF TypeOK, AheadInv, gone, moveTrip,
       nextIteration, trailing, ahead
<1>12. ServingInv'
  BY <1>1, <1>2, <1>3, <1>4 DEF TypeOK, ServingInv, gone, moveTrip,
       nextIteration, serving
<1>13. PastInv'
  BY <1>1, <1>2, <1>3, <1>4 DEF TypeOK, PastInv, gone, moveTrip, nextIteration,
       trailing, ahead, serving, ended, past
<1>14. BodyInv'
  BY <1>1, <1>2, <1>3, <1>4 DEF TypeOK, BodyInv, gone, moveTrip, nextIteration,
       ended
<1> QED
  BY <1>5, <1>6, <1>7, <1>8, <1>9, <1>10, <1>11, <1>12, <1>13, <1>14

\* The caller has met the end of the body, or has closed it.
LEMMA RLBodyReadKeeps == ASSUME IInv, RLBodyRead PROVE IInv'
<1>1. cur' \in Locals
  <2>1. cur \in Locals /\ bodyCh \in Seq(BOOLEAN)
    BY DEF IInv, TypeOK
  <2>2. bodyCh # <<>> /\ cur' = [cur EXCEPT !.bodyEOF = Head(bodyCh)]
    BY DEF RLBodyRead
  <2>3. Head(bodyCh) \in BOOLEAN
    BY <2>1, <2>2
  <2> QED
    BY <2>1, <2>2, <2>3 DEF Locals
<1> USE PersistConnAssumption DEF IInv, RLBodyRead, connVars, chanVars, rtVars,
     wlVars, srvVars
<1>2. bodyCh' \in Seq(BOOLEAN) /\ Len(bodyCh') <= 2
  BY DEF TypeOK
<1>3. CancelInv' /\ WriteInv'
  BY DEF CancelInv, WriteInv, closed, unsent
<1>4. TypeOK'
  BY <1>1, <1>2, SMTT(60) DEF TypeOK, Trips, Writers, Readers, Bodies, Closers, Results,
       Loops
<1>5. TripInv'
  BY <1>1, <1>2 DEF TypeOK, TripInv, closed, trailing, ended, unsent, Locals
<1>6. IdleInv'
  BY <1>1, <1>2 DEF TypeOK, IdleInv, closed, trailing, ahead, Locals
<1>7. DueInv'
  BY <1>1, <1>2 DEF TypeOK, DueInv, trailing, ahead, serving, Locals
<1>8. AheadInv'
  BY <1>1, <1>2 DEF TypeOK, AheadInv, trailing, ahead, Locals
<1>9. ServingInv'
  BY <1>1, <1>2 DEF TypeOK, ServingInv, serving, Locals
<1>10. PastInv'
  BY <1>1, <1>2 DEF TypeOK, PastInv, BodyInv, trailing, ahead, serving, ended,
       past, Locals
<1>11. BodyInv'
  BY <1>1, <1>2 DEF TypeOK, PastInv, BodyInv, trailing, ahead, serving, ended,
       past, Locals
<1> QED
  BY <1>3, <1>4, <1>5, <1>6, <1>7, <1>8, <1>9, <1>10, <1>11

\* The request is canceled while its body is read: it is the holder's.
LEMMA RLBodyCanceledKeeps == ASSUME IInv, RLBodyCanceled PROVE IInv'
<1> USE PersistConnAssumption DEF IInv, RLBodyCanceled, chanVars, wlVars,
     bodyVars, srvVars
<1>1. TypeOK'
  BY DEF TypeOK, PastInv, closed, closeBy, setCanceler, cancelRequest,
       trailing, ahead, serving, ended, past, Locals, Trips, Writers, Readers,
       Bodies, Closers, Results, Loops
<1>2. TripInv'
  BY DEF TypeOK, TripInv, PastInv, closed, closeBy, setCanceler, cancelRequest,
       trailing, ahead, serving, ended, past, unsent, Loops
<1>3. CancelInv'
  BY DEF TypeOK, CancelInv, PastInv, closed, closeBy, setCanceler,
       cancelRequest, trailing, ahead, serving, ended, past, Loops
<1>4. IdleInv'
  BY DEF TypeOK, IdleInv, closed, closeBy, setCanceler, cancelRequest,
       trailing, ahead, Loops
<1>5. WriteInv'
  BY DEF TypeOK, WriteInv, closed, closeBy, setCanceler, cancelRequest, unsent,
       Loops
<1>6. DueInv'
  BY DEF TypeOK, DueInv, closed, closeBy, setCanceler, cancelRequest, trailing,
       ahead, serving, Loops
<1>7. AheadInv'
  BY DEF TypeOK, AheadInv, closed, closeBy, setCanceler, cancelRequest,
       trailing, ahead, Loops
<1>8. ServingInv'
  BY DEF TypeOK, ServingInv, closed, closeBy, setCanceler, cancelRequest,
       serving, Loops
<1>9. PastInv'
  BY DEF TypeOK, PastInv, closed, closeBy, setCanceler, cancelRequest,
       trailing, ahead, serving, ended, past, Loops
<1>10. BodyInv'
  BY DEF TypeOK, BodyInv, closed, closeBy, setCanceler, cancelRequest, ended,
       Loops
<1> QED
  BY <1>1, <1>2, <1>3, <1>4, <1>5, <1>6, <1>7, <1>8, <1>9, <1>10

\* The connection is closed while the body is read.
LEMMA RLBodyClosedKeeps == ASSUME IInv, RLBodyClosed PROVE IInv'
<1> USE PersistConnAssumption DEF IInv, RLBodyClosed, connVars, chanVars,
     rtVars, wlVars, bodyVars, srvVars
<1>1. CancelInv' /\ WriteInv'
  BY DEF CancelInv, WriteInv, closed, unsent
<1>2. TypeOK'
  BY DEF TypeOK, closed, Locals, Trips, Writers, Readers, Bodies, Closers,
       Results, Loops
<1>3. TripInv'
  BY DEF TypeOK, TripInv, closed, trailing, ended, unsent
<1>4. IdleInv'
  BY DEF TypeOK, IdleInv, closed, trailing, ahead
<1>5. DueInv'
  BY DEF TypeOK, DueInv, closed, trailing, ahead, serving
<1>6. AheadInv'
  BY DEF TypeOK, AheadInv, closed, trailing, ahead
<1>7. ServingInv'
  BY DEF TypeOK, ServingInv, closed, serving
<1>8. PastInv'
  BY DEF TypeOK, PastInv, closed, trailing, ahead, serving, ended, past
<1>9. BodyInv'
  BY DEF TypeOK, BodyInv, closed, ended
<1> QED
  BY <1>1, <1>2, <1>3, <1>4, <1>5, <1>6, <1>7, <1>8, <1>9

\* The caller's Read returns.
LEMMA RLEofcKeeps == ASSUME IInv, RLEofc PROVE IInv'
<1> USE PersistConnAssumption DEF IInv, RLEofc, connVars, chanVars, rtVars,
     wlVars, srvVars
<1>1. CancelInv' /\ WriteInv'
  BY DEF CancelInv, WriteInv, closed, unsent
<1>2. TypeOK'
  BY DEF TypeOK, AheadInv, PastInv, nextIteration, trailing, ahead, serving,
       ended, past, Locals, Trips, Writers, Readers, Bodies, Closers, Results,
       Loops
<1>3. TripInv'
  BY DEF TypeOK, TripInv, closed, nextIteration, trailing, ended, unsent
<1>4. IdleInv'
  BY DEF TypeOK, IdleInv, closed, nextIteration, trailing, ahead
<1>5. DueInv'
  BY DEF TypeOK, DueInv, nextIteration, trailing, ahead, serving
<1>6. AheadInv'
  BY DEF TypeOK, AheadInv, nextIteration, trailing, ahead
<1>7. ServingInv'
  BY DEF TypeOK, ServingInv, nextIteration, serving
<1>8. PastInv'
  BY DEF TypeOK, PastInv, nextIteration, trailing, ahead, serving, ended, past
<1>9. BodyInv'
  BY DEF TypeOK, BodyInv, nextIteration, ended
<1> QED
  BY <1>1, <1>2, <1>3, <1>4, <1>5, <1>6, <1>7, <1>8, <1>9

\* The loop is left.
LEMMA RLExitKeeps == ASSUME IInv, RLExit PROVE IInv'
<1> USE PersistConnAssumption DEF IInv, RLExit, connVars, chanVars, rtVars,
     wlVars, bodyVars, srvVars
<1>1. CancelInv' /\ WriteInv'
  BY DEF CancelInv, WriteInv, closed, unsent
<1>2. TypeOK'
  BY DEF TypeOK, Locals, Trips, Writers, Readers, Bodies, Closers, Results,
       Loops
<1>3. TripInv'
  BY DEF TypeOK, TripInv, closed, trailing, ended, unsent
<1>4. IdleInv'
  BY DEF TypeOK, IdleInv, closed, trailing, ahead
<1>5. DueInv'
  BY DEF TypeOK, DueInv, trailing, ahead, serving
<1>6. AheadInv'
  BY DEF TypeOK, AheadInv, trailing, ahead
<1>7. ServingInv'
  BY DEF TypeOK, ServingInv, serving
<1>8. PastInv'
  BY DEF TypeOK, PastInv, trailing, ahead, serving, ended, past
<1>9. BodyInv'
  BY DEF TypeOK, BodyInv, ended
<1> QED
  BY <1>1, <1>2, <1>3, <1>4, <1>5, <1>6, <1>7, <1>8, <1>9

\* It closes the connection.
LEMMA RLCloseKeeps == ASSUME IInv, RLClose PROVE IInv'
<1> USE PersistConnAssumption DEF IInv, RLClose, chanVars, rtVars, wlVars,
     bodyVars, srvVars
<1>1. TypeOK'
  BY DEF TypeOK, closed, closeBy, Locals, Trips, Writers, Readers, Bodies,
       Closers, Results, Loops
<1>2. TripInv'
  BY DEF TypeOK, TripInv, closed, closeBy, trailing, ended, unsent, Loops
<1>3. CancelInv'
  BY DEF TypeOK, CancelInv, closed, closeBy, Loops
<1>4. IdleInv'
  BY DEF TypeOK, IdleInv, closed, closeBy, trailing, ahead, Loops
<1>5. WriteInv'
  BY DEF TypeOK, WriteInv, closed, closeBy, unsent, Loops
<1>6. DueInv'
  BY DEF TypeOK, DueInv, closed, closeBy, trailing, ahead, serving, Loops
<1>7. AheadInv'
  BY DEF TypeOK, AheadInv, closed, closeBy, trailing, ahead, Loops
<1>8. ServingInv'
  BY DEF TypeOK, ServingInv, closed, closeBy, serving, Loops
<1>9. PastInv'
  BY DEF TypeOK, PastInv, closed, closeBy, trailing, ahead, serving, ended,
       past, Loops
<1>10. BodyInv'
  BY DEF TypeOK, BodyInv, closed, closeBy, ended, Loops
<1> QED
  BY <1>1, <1>2, <1>3, <1>4, <1>5, <1>6, <1>7, <1>8, <1>9, <1>10

\* ... and takes it out of the pool.
LEMMA RLRemoveKeeps == ASSUME IInv, RLRemove PROVE IInv'
<1> USE PersistConnAssumption DEF IInv, RLRemove, chanVars, rtVars, wlVars,
     bodyVars, srvVars
<1>1. TypeOK'
  BY DEF TypeOK, Locals, Trips, Writers, Readers, Bodies, Closers, Results,
       Loops
<1>2. TripInv'
  BY DEF TypeOK, TripInv, closed, trailing, ended, unsent
<1>3. CancelInv'
  BY DEF TypeOK, CancelInv, closed
<1>4. IdleInv'
  BY DEF TypeOK, IdleInv, closed, trailing, ahead
<1>5. WriteInv'
  BY DEF TypeOK, WriteInv, closed, unsent
<1>6. DueInv'
  BY DEF TypeOK, DueInv, trailing, ahead, serving
<1>7. AheadInv'
  BY DEF TypeOK, AheadInv, trailing, ahead
<1>8. ServingInv'
  BY DEF TypeOK, ServingInv, serving
<1>9. PastInv'
  BY DEF TypeOK, PastInv, trailing, ahead, serving, ended, past
<1>10. BodyInv'
  BY DEF TypeOK, BodyInv, ended
<1> QED
  BY <1>1, <1>2, <1>3, <1>4, <1>5, <1>6, <1>7, <1>8, <1>9, <1>10

\* The caller reads the body to its end.
LEMMA BodyReadEOFKeeps == ASSUME IInv, NEW r \in Reqs, BodyReadEOF(r) PROVE IInv'
<1> USE PersistConnAssumption DEF IInv, BodyReadEOF, connVars, chanVars,
     rtVars, wlVars, rlVars
<1>1. bodyCh' \in Seq(BOOLEAN) /\ Len(bodyCh') <= 2
  BY DEF BodyEnd, TypeOK, BodyInv
<1>2. TripInv' /\ CancelInv' /\ IdleInv' /\ WriteInv' /\ AheadInv' /\ ServingInv'
  BY DEF TripInv, CancelInv, IdleInv, WriteInv, AheadInv, ServingInv, closed,
       trailing, ahead, serving, ended, unsent, BodyEnd
<1>3. TypeOK'
  BY <1>1 DEF TypeOK, BodyEnd, Locals, Trips, Writers, Readers, Bodies,
       Closers, Results, Loops
<1>4. DueInv'
  BY <1>1 DEF TypeOK, DueInv, BodyEnd, trailing, ahead, serving
<1>5. PastInv'
  BY <1>1 DEF TypeOK, PastInv, BodyEnd, trailing, ahead, serving, ended, past
<1>6. BodyInv'
  BY <1>1, ZenonT(60) DEF TypeOK, BodyInv, BodyEnd, ended
<1> QED
  BY <1>2, <1>3, <1>4, <1>5, <1>6

\* The caller's Read fails.
LEMMA BodyReadErrorKeeps == ASSUME IInv, NEW r \in Reqs, BodyReadError(r) PROVE IInv'
<1> USE PersistConnAssumption DEF IInv, BodyReadError, connVars, chanVars,
     rtVars, wlVars, rlVars
<1>1. bodyCh' = Append(bodyCh, FALSE) /\ bodyCh \in Seq(BOOLEAN) /\ Len(bodyCh) \in Nat
  BY DEF TypeOK, BodyEnd
<1>2. /\ bodyCh' \in Seq(BOOLEAN) /\ Len(bodyCh') = Len(bodyCh) + 1
      /\ bodyCh = <<>> => ~bodyCh'[1]
      /\ bodyCh # <<>> => bodyCh'[1] = bodyCh[1]
  <2>1. FALSE \in BOOLEAN
    OBVIOUS
  <2> HIDE DEF BodyReadError
  <2> QED
    BY <2>1, <1>1, Appended, Zenon
<1>3. Len(bodyCh) <= 1
  BY DEF TypeOK, BodyInv
<1>4. Len(bodyCh') <= 2 /\ Len(bodyCh') # 0 /\ bodyCh' # <<>>
  <2> HIDE DEF BodyReadError
  <2>1. Len(bodyCh') <= 2 /\ Len(bodyCh') # 0
    BY <1>1, <1>2, <1>3, SMT
  <2> QED
    BY <2>1, EmptySeq
<1>5. TripInv' /\ CancelInv' /\ IdleInv' /\ WriteInv' /\ AheadInv' /\ ServingInv'
  BY DEF TripInv, CancelInv, IdleInv, WriteInv, AheadInv, ServingInv, closed,
       trailing, ahead, serving, ended, unsent, BodyEnd
<1>6. TypeOK'
  BY <1>1, <1>2, <1>3, <1>4 DEF TypeOK, closed, BodyEnd, Locals, Trips,
       Writers, Readers, Bodies, Closers, Results, Loops
<1>7. DueInv'
  BY <1>1, <1>2, <1>3, <1>4 DEF TypeOK, DueInv, closed, BodyEnd, trailing,
       ahead, serving
<1>8. PastInv'
  BY <1>1, <1>2, <1>3, <1>4 DEF TypeOK, PastInv, closed, BodyEnd, trailing,
       ahead, serving, ended, past
<1>9. BodyInv'
  <2>1. ub[r] = "open" /\ ub' = [ub EXCEPT ![r] = "broken"] /\ UNCHANGED <<rl, cur>>
    BY DEF BodyEnd
  <2>2. bodyCh = <<>> /\ r = cur.req /\ Len(bodyCh') = 1 /\ ~bodyCh'[1]
    BY <1>1, <1>2, <2>1 DEF BodyInv
  <2> HIDE DEF BodyReadError
  <2> QED
    BY <1>4, <2>1, <2>2 DEF TypeOK, BodyInv, ended
<1> QED
  BY <1>5, <1>6, <1>7, <1>8, <1>9

\* The caller closes the body early.
LEMMA BodyCloseKeeps == ASSUME IInv, NEW r \in Reqs, BodyClose(r) PROVE IInv'
<1> USE PersistConnAssumption DEF IInv, BodyClose, connVars, chanVars, rtVars,
     wlVars, rlVars
<1>1. bodyCh' = Append(bodyCh, FALSE) /\ bodyCh \in Seq(BOOLEAN) /\ Len(bodyCh) \in Nat
  BY DEF TypeOK, BodyEnd
<1>2. /\ bodyCh' \in Seq(BOOLEAN) /\ Len(bodyCh') = Len(bodyCh) + 1
      /\ bodyCh = <<>> => ~bodyCh'[1]
      /\ bodyCh # <<>> => bodyCh'[1] = bodyCh[1]
  <2>1. FALSE \in BOOLEAN
    OBVIOUS
  <2> HIDE DEF BodyClose
  <2> QED
    BY <2>1, <1>1, Appended, Zenon
<1>3. Len(bodyCh) <= 1
  BY DEF TypeOK, BodyInv
<1>4. Len(bodyCh') <= 2 /\ Len(bodyCh') # 0 /\ bodyCh' # <<>>
  <2> HIDE DEF BodyClose
  <2>1. Len(bodyCh') <= 2 /\ Len(bodyCh') # 0
    BY <1>1, <1>2, <1>3, SMT
  <2> QED
    BY <2>1, EmptySeq
<1>5. TripInv' /\ CancelInv' /\ IdleInv' /\ WriteInv' /\ AheadInv' /\ ServingInv'
  BY DEF TripInv, CancelInv, IdleInv, WriteInv, AheadInv, ServingInv, closed,
       trailing, ahead, serving, ended, unsent, BodyEnd
<1>6. TypeOK'
  BY <1>1, <1>2, <1>3, <1>4 DEF TypeOK, BodyEnd, Locals, Trips, Writers,
       Readers, Bodies, Closers, Results, Loops
<1>7. DueInv'
  BY <1>1, <1>2, <1>3, <1>4 DEF TypeOK, DueInv, BodyEnd, trailing, ahead,
       serving
<1>8. PastInv'
  BY <1>1, <1>2, <1>3, <1>4 DEF TypeOK, PastInv, BodyEnd, trailing, ahead,
       serving, ended, past
<1>9. BodyInv'
  BY <1>1, <1>2, <1>3, <1>4, ZenonT(60) DEF TypeOK, BodyInv, BodyEnd, ended
<1> QED
  BY <1>5, <1>6, <1>7, <1>8, <1>9

\* The caller is released.
LEMMA BodyReturnsKeeps == ASSUME IInv, NEW r \in Reqs, BodyReturns(r) PROVE IInv'
<1> USE PersistConnAssumption DEF IInv, BodyReturns, connVars, chanVars,
     rtVars, wlVars, rlVars, srvVars
<1>1. TripInv' /\ CancelInv' /\ IdleInv' /\ WriteInv' /\ DueInv' /\ AheadInv' /\ ServingInv' /\ PastInv'
  BY DEF TripInv, CancelInv, IdleInv, WriteInv, DueInv, AheadInv, ServingInv,
       PastInv, closed, trailing, ahead, serving, ended, past, unsent
<1>2. TypeOK'
  BY DEF TypeOK, eofcClosed, Locals, Trips, Writers, Readers, Bodies, Closers,
       Results, Loops
<1>3. BodyInv'
  BY DEF TypeOK, BodyInv, eofcClosed, ended
<1> QED
  BY <1>1, <1>2, <1>3

\* The server answers a request it has seen: the holder's, while a response
\* is awaited.
LEMMA ServerRespondKeeps == ASSUME IInv, NEW r \in Reqs, ServerRespond(r) PROVE IInv'
<1> USE PersistConnAssumption DEF IInv, ServerRespond, connVars, chanVars,
     rtVars, wlVars, rlVars, bodyVars
<1>1. wire = <<>> => wire' = <<r>>
  BY DEF TypeOK
<1>2. ahead \/ serving => r = holder /\ wire = <<>>
  BY DEF TypeOK, DueInv
<1>3. TripInv' /\ CancelInv' /\ IdleInv' /\ WriteInv' /\ AheadInv' /\ ServingInv' /\ BodyInv'
  BY DEF TripInv, CancelInv, IdleInv, WriteInv, AheadInv, ServingInv, BodyInv,
       closed, trailing, ahead, serving, ended, unsent
<1>4. TypeOK'
  BY <1>1, <1>2 DEF TypeOK, Locals, Trips, Writers, Readers, Bodies, Closers,
       Results, Loops
<1>5. DueInv'
  BY <1>1, <1>2 DEF TypeOK, DueInv, trailing, ahead, serving
<1>6. PastInv'
  BY <1>1, <1>2 DEF TypeOK, PastInv, trailing, ahead, serving, ended, past
<1> QED
  BY <1>3, <1>4, <1>5, <1>6

\* The server closes its side.
LEMMA ServerCloseKeeps == ASSUME IInv, ServerClose PROVE IInv'
<1> USE PersistConnAssumption DEF IInv, ServerClose, connVars, chanVars,
     rtVars, wlVars, rlVars, bodyVars
<1>1. TripInv' /\ CancelInv' /\ IdleInv' /\ WriteInv' /\ DueInv' /\ AheadInv' /\ ServingInv' /\ PastInv' /\ BodyInv'
  BY DEF TripInv, CancelInv, IdleInv, WriteInv, DueInv, AheadInv, ServingInv,
       PastInv, BodyInv, closed, trailing, ahead, serving, ended, past, unsent
<1>2. TypeOK'
  BY DEF TypeOK, Locals, Trips, Writers, Readers, Bodies, Closers, Results,
       Loops
<1> QED
  BY <1>1, <1>2

-----------------------------------------------------------------------------
\* The first request finds an idle connection on which nothing has happened.
LEMMA InitInv == Init => IInv
<1> SUFFICES ASSUME Init PROVE IInv
  OBVIOUS
<1> USE PersistConnAssumption DEF Init, newIteration
<1>1. TypeOK
  <2>1. cur \in Locals
    BY DEF Locals
  <2>2. /\ writech \in Seq(Reqs) /\ Len(writech) <= 1 /\ reqch \in Seq(Reqs) /\ Len(reqch) <= 1
        /\ bodyCh \in Seq(BOOLEAN) /\ Len(bodyCh) <= 2 /\ wire \in Seq(Reqs)
    BY EmptySeq
  <2>3. /\ rt \in [Reqs -> Trips] /\ wrCh \in [Reqs -> Results] /\ ub \in [Reqs -> Bodies]
        /\ canceler \in [Reqs -> {"none", "getConn", "pc"}]
        /\ ctxDone \in [Reqs -> SUBSET Channels] /\ listen \in [Reqs -> SUBSET Channels]
    BY DEF Trips, Results, Bodies
  <2>4. /\ holder \in Reqs \cup {Idle, Out} /\ closedBy \in Closers \cup {NoOne}
        /\ canceledBy \in Reqs \cup {NoOne} /\ expected \in 0..1 /\ writeErrCh \in Results
        /\ wl \in Writers /\ wreq \in Reqs \cup {NoOne} /\ rl \in Readers
    BY DEF Writers, Readers, Results
  <2>5. /\ canceled \subseteq Reqs /\ closeSeen \subseteq Reqs /\ timer \subseteq Reqs
        /\ sent \subseteq Reqs /\ answered \subseteq sent
        /\ unread \in Reqs \cup {NoOne} /\ srvEOF \in BOOLEAN /\ werr \in BOOLEAN
    OBVIOUS
  <2> HIDE DEF Init
  <2> QED
    BY <2>1, <2>2, <2>3, <2>4, <2>5 DEF TypeOK
<1>2. TripInv /\ CancelInv /\ IdleInv /\ WriteInv
  BY DEF TripInv, CancelInv, IdleInv, WriteInv, closed, ahead, trailing, ended,
       unsent
<1>3. DueInv /\ AheadInv /\ ServingInv /\ PastInv /\ BodyInv
  BY DEF DueInv, AheadInv, ServingInv, PastInv, BodyInv, ahead, trailing,
       serving, past, ended
<1> QED
  BY <1>1, <1>2, <1>3 DEF IInv

\* A step that changes nothing.
LEMMA StutterKeeps == IInv /\ UNCHANGED vars => IInv'
<1> SUFFICES ASSUME IInv, UNCHANGED vars PROVE IInv'
  OBVIOUS
<1> USE DEF IInv, vars, connVars, chanVars, rtVars, wlVars, rlVars, bodyVars,
     srvVars
<1>1. TypeOK' /\ TripInv' /\ CancelInv' /\ IdleInv' /\ WriteInv'
  BY DEF TypeOK, TripInv, CancelInv, IdleInv, WriteInv, closed, ahead,
       trailing, ended, unsent
<1>2. DueInv' /\ AheadInv' /\ ServingInv' /\ PastInv' /\ BodyInv'
  BY DEF DueInv, AheadInv, ServingInv, PastInv, BodyInv, ahead, trailing,
       serving, past, ended
<1> QED
  BY <1>1, <1>2

\* Every step of every goroutine, of the pool and of the server keeps it.
LEMMA NextInv == IInv /\ [Next]_vars => IInv'
<1> SUFFICES ASSUME IInv, [Next]_vars PROVE IInv'
  OBVIOUS
<1>1. ASSUME NEW r \in Reqs,
             \/ GetConn(r) \/ RoundTrip(r) \/ RTTimeout(r) \/ UserCancel(r)
             \/ BodyReadEOF(r) \/ BodyReadError(r) \/ BodyClose(r) \/ BodyReturns(r)
             \/ ServerRespond(r)
      PROVE  IInv'
  <2>1. CASE RoundTrip(r)
    BY <2>1, RTEnterKeeps, RTExpectKeeps, RTSendWriteKeeps, RTSendReqKeeps,
         RTWrittenKeeps,
       RTClosedKeeps, RTCancelKeeps, RTMapErrorKeeps DEF RoundTrip
  <2> QED
    BY <1>1, <2>1, GetConnKeeps, RTTimeoutKeeps, UserCancelKeeps,
         BodyReadEOFKeeps,
       BodyReadErrorKeeps, BodyCloseKeeps, BodyReturnsKeeps, ServerRespondKeeps
<1>2. CASE WriteLoop \/ WLWrite
  BY <1>2, WLTakeKeeps, WLClosedKeeps, WLReportKeeps, WLAnswerKeeps,
       WLCloseKeeps,
     WLWriteKeeps DEF WriteLoop
<1>3. CASE ReadLoop
  <2>1. CASE RLPeek \/ RLCheck \/ RLReceive \/ RLRead \/ RLReadError \/ RLSendErr
    BY <2>1, RLPeekKeeps, RLCheckKeeps, RLReceiveKeeps, RLReadKeeps,
         RLReadErrorKeeps,
       RLSendErrKeeps
  <2>2. CASE RLReplace \/ RLWroteRequest \/ RLPut \/ RLPark \/ RLSendResp \/ RLBodyRead
    BY <2>2, RLReplaceKeeps, RLWroteRequestKeeps, RLPutKeeps, RLParkKeeps,
         RLSendRespKeeps,
       RLBodyReadKeeps
  <2>3. CASE RLBodyCanceled \/ RLBodyClosed \/ RLEofc \/ RLExit \/ RLClose \/ RLRemove
    BY <2>3, RLBodyCanceledKeeps, RLBodyClosedKeeps, RLEofcKeeps, RLExitKeeps,
         RLCloseKeeps,
       RLRemoveKeeps
  <2> QED
    BY <1>3, <2>1, <2>2, <2>3 DEF ReadLoop
<1>4. CASE PoolClose \/ ServerClose
  BY <1>4, PoolCloseKeeps, ServerCloseKeeps
<1> QED
  BY <1>1, <1>2, <1>3, <1>4, StutterKeeps DEF Next

\* The strengthening that the theorems follow from.
THEOREM Invariance == Spec => []IInv
<1> QED
  BY InitInv, NextInv, PTL DEF Spec

-----------------------------------------------------------------------------
\* For any number of requests: the response that readLoop parses is that of
\* the request it took from reqch, and never the rest of an earlier body
\* (readLoop's checks before it reuses the connection).
THEOREM ResponsesMatch == Spec => []ResponseMatches
<1>1. IInv => ResponseMatches
  <2> SUFFICES ASSUME IInv, rl = "read"
               PROVE  unread = NoOne /\ (wire # <<>> => Head(wire) = cur.req)
    BY DEF ResponseMatches
  <2>1. serving
    BY DEF serving
  <2>2. unread = NoOne /\ wire = (IF holder \in answered THEN <<holder>> ELSE <<>>)
    BY <2>1 DEF IInv, DueInv
  <2>3. holder = cur.req
    BY <2>1 DEF IInv, ServingInv
  <2> QED
    BY <2>2, <2>3
<1> QED
  BY <1>1, Invariance, PTL

\* For any number of requests: an idle connection carries nothing over to the
\* next one, and the result of a write finds its channel's slot free.
THEOREM Quiet == Spec => []QuietWhenParked
<1>1. IInv => QuietWhenParked
  <2> SUFFICES ASSUME IInv PROVE QuietWhenParked
    OBVIOUS
  <2> USE PersistConnAssumption DEF IInv
  <2>1. ASSUME holder = Idle, ~closed
        PROVE  /\ expected = 0
               /\ writech = <<>> /\ reqch = <<>> /\ writeErrCh = "none"
               /\ wl = "select" \/ (wl = "answer" /\ ~werr)
               /\ sent = answered /\ wire = <<>> /\ unread = NoOne
    <3>1. ahead /\ holder \notin Reqs
      BY <2>1 DEF IdleInv
    <3>2. holder \notin answered /\ holder \notin sent
      BY <3>1 DEF TypeOK
    <3>3. expected = 0 /\ reqch = <<>>
      BY <3>1 DEF AheadInv
    <3>4. wire = <<>> /\ unread = NoOne
      BY <3>1, <3>2 DEF DueInv
    <3>5. sent \subseteq answered /\ answered \subseteq sent
      BY <3>1, <3>2 DEF DueInv, TypeOK
    <3>6. sent = answered
      BY <3>5
    <3>7. writech = <<>> /\ writeErrCh = "none" /\ wl \notin {"writing", "report"} /\ ~werr
      BY <3>1, <3>2 DEF WriteInv, TypeOK
    <3> QED
      BY <2>1, <3>3, <3>4, <3>6, <3>7 DEF WriteInv, TypeOK, Writers
  <2>2. wl = "report" => writeErrCh = "none"
    BY DEF WriteInv
  <2> QED
    BY <2>1, <2>2 DEF QuietWhenParked
<1> QED
  BY <1>1, Invariance, PTL

\* A request that closes the connection has been given it.
LEMMA OwnClosing ==
  ASSUME IInv, [Next]_vars, NEW r \in Reqs, closedBy # r, closedBy' = r
  PROVE  holder = r \/ RTTimeout(r)
<1> USE PersistConnAssumption DEF IInv
<1>1. \/ \E q \in Reqs : RTWritten(q) \/ RTTimeout(q) \/ RTCancel(q)
      \/ RLBodyCanceled
  BY ZenonT(60) DEF Next, RoundTrip, WriteLoop, ReadLoop, vars, connVars, Loops, closeBy,
       BodyEnd,
         GetConn, PoolClose, RTEnter, RTExpect, RTSendWrite, RTSendReq, RTClosed, RTMapError,
         UserCancel, WLTake, WLClosed, WLWrite, WLReport, WLAnswer, WLClose, RLPeek, RLCheck,
         RLReceive, RLRead, RLReadError, RLSendErr, RLReplace, RLWroteRequest, RLPut, RLPark,
         RLSendResp, RLBodyRead, RLBodyClosed, RLEofc, RLExit, RLClose, RLRemove,
         BodyReadEOF, BodyReadError, BodyClose, BodyReturns, ServerRespond, ServerClose
<1>2. ASSUME NEW q \in Reqs, RTWritten(q) PROVE holder = r
  BY <1>2 DEF RTWritten, closeBy, WriteInv
<1>3. ASSUME NEW q \in Reqs, RTTimeout(q) PROVE q = r
  BY <1>3 DEF RTTimeout, closeBy
<1>4. ASSUME NEW q \in Reqs, RTCancel(q) PROVE holder = r
  BY <1>4 DEF RTCancel, cancelRequest, closeBy, TripInv
<1>5. CASE RLBodyCanceled
  <2>1. past
    BY <1>5 DEF RLBodyCanceled, past, ahead, trailing, serving, ended
  <2> QED
    BY <1>5, <2>1 DEF RLBodyCanceled, cancelRequest, closeBy, PastInv
<1> QED
  BY <1>1, <1>2, <1>3, <1>4, <1>5

\* For any number of requests: the cancellation that mapRoundTripError reports
\* is that of the failing request, and a request never closes a connection
\* that the pool has not given to it, but for its response-header timer.
THEOREM CancelIsOwn == Spec => CancelErrorIsOwn
<1>1. IInv => \A r \in Reqs : rt[r] = "map" /\ canceledBy # NoOne => canceledBy = r
  BY DEF IInv, CancelInv, TripInv
<1>2. IInv /\ [Next]_vars =>
        [\A r \in Reqs : closedBy # r /\ closedBy' = r => holder = r \/ RTTimeout(r)]_vars
  BY OwnClosing
<1> QED
  BY <1>1, <1>2, Invariance, PTL DEF Spec, CancelErrorIsOwn

=============================================================================
