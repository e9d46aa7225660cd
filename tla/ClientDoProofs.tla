--------------------------- MODULE ClientDoProofs ---------------------------
(***************************************************************************)
(* Proofs about ClientDo, for any hosts, cookies, limits and requests.     *)
(* One invariant says who has to close each body and which attempts are    *)
(* over before the next one starts.  The steps of the writeLoops are one   *)
(* lemma (Moves); each other action keeps the six parts of the invariant.  *)
(***************************************************************************)
EXTENDS ClientDo, SequenceTheorems, TLAPS

Attempting == {"roundTrip", "exchange", "failed"}
Answered   == {"response", "redirect", "check", "slurp"}
Composed   == {"check", "slurp", "send"}

WriterRec == [hop : Nat, method : {"GET", "POST"}, body : Nat,
              st : {"queued", "writing", "done"}, read : BOOLEAN, wrote : BOOLEAN,
              bodyError : BOOLEAN]

TypeInv == TypeOK /\ writers \in Seq(WriterRec)

(* Only the last response can be open, and only until its body was         *)
(* slurped, closed with an error or left to the caller; the timer that     *)
(* runs is the one of this hop.                                            *)
RespInv ==
  /\ pc \in Attempting => hops = Len(resps) + 1
  /\ pc \in Answered \cup {"send"} => hops = Len(resps)
  /\ pc = "returned" => hops \in {Len(resps), Len(resps) + 1}
  /\ pc = "returned" /\ result = "response" => hops = Len(resps) /\ hops > 0
  /\ pc \in Answered => hops > 0
  /\ \A h \in DOMAIN resps :
       resps[h] => h = hops /\ (pc \in Answered \/ (pc = "returned" /\ result = "response"))
  /\ \A h \in timers : h = hops /\ (pc \in Attempting \/ (h \in DOMAIN resps /\ resps[h]))

(* The Host header and the cookies of the caller.                          *)
HeaderInv ==
  /\ HostHeaderStays
  /\ call.jar => icookies \cap set = {} /\ req.cookies \cap set = {}

(* The attempt under way is the last writer, and a request nobody took     *)
(* belongs to it.                                                          *)
CurrentInv ==
  /\ pc \in {"exchange", "failed"} =>
       /\ Writer > 0 /\ writers[Writer].hop = hops /\ writers[Writer].body = sending
       /\ writers[Writer].method = req.method
  /\ pc = "exchange" => conn.err \in {"none", "canceled", "closedIdle", "read", "other"}
  /\ pc = "failed" => writers[Writer].st = "done"
  /\ pc = "failed" /\ conn.err \in {"nothing", "read", "closedIdle"} => ~writers[Writer].bodyError
  /\ pc = "failed" /\ conn.err = "nothing" => ~writers[Writer].wrote
  /\ \A i \in DOMAIN writers : writers[i].st = "queued" =>
       /\ i = Writer /\ pc = "exchange" /\ ~writers[i].read /\ ~writers[i].wrote
       /\ writers[i].body # 0 => ~bodies[writers[i].body]

repeatable(i) ==
  /\ writers[i].st = "done" /\ ~writers[i].bodyError
  /\ writers[i].wrote => writers[i].method = "GET" \/ call.key
unread(i) == writers[i].st = "done" /\ ~writers[i].read
Fresh(b) ==
  /\ ~bodies[b]
  /\ \A i \in DOMAIN writers : writers[i].body = b => unread(i)

(* The attempts that are over when a new one starts.                       *)
AttemptInv ==
  /\ \A i, j \in DOMAIN writers : i < j =>
       /\ writers[i].hop = writers[j].hop => repeatable(i) /\ writers[i].method = writers[j].method
       /\ writers[i].body = writers[j].body /\ writers[j].body # 0 => unread(i)
  /\ pc = "roundTrip" =>
       /\ \A i \in DOMAIN writers :
            writers[i].hop = hops => repeatable(i) /\ writers[i].method = req.method
       /\ sending # 0 => Fresh(sending)
  /\ pc \in Composed /\ req.body # 0 => Fresh(req.body)
  /\ pc \in {"check", "slurp"} /\ req.body # 0 => req.body > sending

(* Who still has to close a body: a writeLoop, roundTrip, do.              *)
owned(b) ==
  \/ \E i \in DOMAIN writers : writers[i].body = b /\ writers[i].st # "done"
  \/ pc \in Attempting /\ b = sending
  \/ pc \in Composed /\ b = req.body
  \/ lastResponseUsed /\ b = req.body

OwnerInv ==
  /\ \A b \in DOMAIN bodies : bodies[b] \/ owned(b)
  /\ pc = "exchange" /\ conn.err = "none" /\ sending # 0 /\ writers[Writer].st = "done"
       => bodies[sending]

ClientInv == TypeInv /\ RespInv /\ HeaderInv /\ CurrentInv /\ AttemptInv /\ OwnerInv

-----------------------------------------------------------------------------
\* Request.closeBody closes that body and leaves the others.
LEMMA CloseBodyFacts ==
  ASSUME NEW bs \in Seq(BOOLEAN), NEW b \in 0..Len(bs)
  PROVE  /\ closeBody(bs, b) \in Seq(BOOLEAN) /\ Len(closeBody(bs, b)) = Len(bs)
         /\ b # 0 => closeBody(bs, b)[b]
         /\ \A k \in DOMAIN bs : closeBody(bs, b)[k] = (bs[k] \/ k = b)
<1>1. CASE b = 0
  BY <1>1 DEF closeBody
<1>2. CASE b # 0
  <2>1. b \in 1..Len(bs) /\ TRUE \in BOOLEAN /\ DOMAIN bs = 1..Len(bs)
    BY <1>2
  <2>2. /\ [bs EXCEPT ![b] = TRUE] \in Seq(BOOLEAN)
        /\ Len([bs EXCEPT ![b] = TRUE]) = Len(bs)
        /\ \A k \in 1..Len(bs) : [bs EXCEPT ![b] = TRUE][k] = IF k = b THEN TRUE ELSE bs[k]
    BY <2>1, ExceptSeq
  <2>3. closeBody(bs, b) = [bs EXCEPT ![b] = TRUE]
    BY <1>2 DEF closeBody
  <2>4. \A k \in 1..Len(bs) : bs[k] \in BOOLEAN
    BY ElementOfSeq
  <2> QED
    BY <2>1, <2>2, <2>3, <2>4, Zenon
<1> QED
  BY <1>1, <1>2

\* A response is closed, the others stay.
LEMMA CloseResponseFacts ==
  ASSUME NEW rs \in Seq(BOOLEAN), NEW h
  PROVE  /\ [rs EXCEPT ![h] = FALSE] \in Seq(BOOLEAN)
         /\ Len([rs EXCEPT ![h] = FALSE]) = Len(rs)
         /\ \A k \in DOMAIN rs : [rs EXCEPT ![h] = FALSE][k] = (rs[k] /\ k # h)
<1>0. DOMAIN rs = 1..Len(rs) /\ FALSE \in BOOLEAN /\ \A k \in 1..Len(rs) : rs[k] \in BOOLEAN
  BY ElementOfSeq
<1>1. CASE h \in 1..Len(rs)
  <2>1. /\ [rs EXCEPT ![h] = FALSE] \in Seq(BOOLEAN)
        /\ Len([rs EXCEPT ![h] = FALSE]) = Len(rs)
        /\ \A k \in 1..Len(rs) : [rs EXCEPT ![h] = FALSE][k] = IF k = h THEN FALSE ELSE rs[k]
    BY <1>0, <1>1, ExceptSeq
  <2> QED
    BY <1>0, <2>1, Zenon
<1>2. CASE h \notin 1..Len(rs)
  <2>1. [rs EXCEPT ![h] = FALSE] = rs
    BY <1>0, <1>2
  <2> QED
    BY <1>0, <1>2, <2>1, Zenon
<1> QED
  BY <1>1, <1>2

\* What one step of a writeLoop does.
Moves(i) ==
  /\ i \in DOMAIN writers /\ writers[i].st # "done"
  /\ writers' \in Seq(WriterRec) /\ Len(writers') = Len(writers)
  /\ \A k \in DOMAIN writers : k # i => writers'[k] = writers[k]
  /\ writers'[i].hop = writers[i].hop /\ writers'[i].method = writers[i].method
  /\ writers'[i].body = writers[i].body /\ writers'[i].st \in {"writing", "done"}
  /\ bodies' \in Seq(BOOLEAN) /\ Len(bodies') = Len(bodies)
  /\ \A b \in DOMAIN bodies : bodies[b] => bodies'[b]
  /\ \A b \in DOMAIN bodies : bodies'[b] => bodies[b] \/ b = writers[i].body
  /\ writers'[i].st = "done" /\ writers[i].body # 0
       => bodies'[writers[i].body] \/ (i = Writer /\ broken)
  /\ conn' = conn \/ (healthy /\ i = Writer /\ conn' = [conn EXCEPT !.err = "other"])
  /\ UNCHANGED WriteLoopLeaves

\* One writer gets another record.
LEMMA WriterChanges ==
  ASSUME TypeInv, NEW i \in DOMAIN writers, NEW r \in WriterRec,
         writers' = [writers EXCEPT ![i] = r]
  PROVE  /\ writers' \in Seq(WriterRec) /\ Len(writers') = Len(writers)
         /\ writers'[i] = r
         /\ \A k \in DOMAIN writers : k # i => writers'[k] = writers[k]
<1>1. writers \in Seq(WriterRec) /\ DOMAIN writers = 1..Len(writers)
  BY DEF TypeInv
<1> QED
  BY <1>1, ExceptSeq

\* The bodies after a step that leaves them or closes the writer's.
LEMMA WriterBodies ==
  ASSUME TypeInv, NEW i \in DOMAIN writers,
         bodies' \in {bodies, closeBody(bodies, writers[i].body)}
  PROVE  /\ bodies' \in Seq(BOOLEAN) /\ Len(bodies') = Len(bodies)
         /\ \A b \in DOMAIN bodies : bodies[b] => bodies'[b]
         /\ \A b \in DOMAIN bodies : bodies'[b] => bodies[b] \/ b = writers[i].body
         /\ writers[i].body # 0 /\ bodies' = closeBody(bodies, writers[i].body)
              => bodies'[writers[i].body]
<1>1. bodies \in Seq(BOOLEAN) /\ writers[i].body \in 0..Len(bodies)
  BY DEF TypeInv, TypeOK
<1> QED
  BY <1>1, CloseBodyFacts

\* A writeLoop that goes on, or is through with its body closed or with a
\* connection that is broken, Moves.
LEMMA WriterMoves ==
  ASSUME TypeInv, NEW i \in DOMAIN writers, NEW r \in WriterRec,
         writers' = [writers EXCEPT ![i] = r], writers[i].st # "done",
         r.hop = writers[i].hop, r.method = writers[i].method, r.body = writers[i].body,
         r.st \in {"writing", "done"},
         bodies' \in {bodies, closeBody(bodies, writers[i].body)},
         r.st = "done" /\ bodies' # closeBody(bodies, writers[i].body) => i = Writer /\ broken,
         conn' = conn \/ (healthy /\ i = Writer /\ conn' = [conn EXCEPT !.err = "other"]),
         UNCHANGED WriteLoopLeaves
  PROVE  Moves(i)
<1>1. /\ writers' \in Seq(WriterRec) /\ Len(writers') = Len(writers) /\ writers'[i] = r
      /\ \A k \in DOMAIN writers : k # i => writers'[k] = writers[k]
  BY WriterChanges
<1>2. /\ bodies' \in Seq(BOOLEAN) /\ Len(bodies') = Len(bodies)
      /\ \A b \in DOMAIN bodies : bodies[b] => bodies'[b]
      /\ \A b \in DOMAIN bodies : bodies'[b] => bodies[b] \/ b = writers[i].body
      /\ writers[i].body # 0 /\ bodies' = closeBody(bodies, writers[i].body)
           => bodies'[writers[i].body]
  BY WriterBodies
<1>3. writers'[i].st = "done" /\ writers[i].body # 0
        => bodies'[writers[i].body] \/ (i = Writer /\ broken)
  BY <1>1, <1>2
<1> QED
  BY <1>1, <1>2, <1>3, Zenon DEF Moves

\* A writeLoop takes its request, reads, writes or ends in one of its ways.
LEMMA WriteLoopMoves ==
  ASSUME TypeInv, CurrentInv,
         \/ WriteLoopTakes \/ WriteLoopReads \/ WriteLoopFlushes \/ WriteLoopEnds
         \/ WriteLoopFails \/ WriteLoopRefuses \/ WriteLoopBodyFails \/ WriteLoopQuits
  PROVE  \E i \in DOMAIN writers : Moves(i)
<1>w. writers \in Seq(WriterRec) /\ DOMAIN writers = 1..Len(writers)
  BY DEF TypeInv
<1>r. \A i \in DOMAIN writers : writers[i] \in WriterRec
  BY <1>w
<1>1. CASE WriteLoopTakes
  <2>1. PICK i \in DOMAIN writers :
          /\ writers[i].st = "queued" /\ writers' = [writers EXCEPT ![i].st = "writing"]
          /\ WriteLoopStep(i) /\ UNCHANGED bodies
    BY <1>1 DEF WriteLoopTakes
  <2> DEFINE r == [writers[i] EXCEPT !.st = "writing"]
  <2>2. /\ r \in WriterRec /\ r.st = "writing" /\ r.hop = writers[i].hop
        /\ r.method = writers[i].method /\ r.body = writers[i].body
    BY <1>r, <2>1 DEF WriterRec
  <2>3. writers' = [writers EXCEPT ![i] = r]
    BY <2>1
  <2>4. UNCHANGED WriteLoopLeaves /\ UNCHANGED conn
    BY <2>1 DEF WriteLoopStep
  <2>5. Moves(i)
    BY <2>1, <2>2, <2>3, <2>4, WriterMoves
  <2> QED
    BY <2>5
<1>2. CASE WriteLoopReads
  <2>1. PICK i \in DOMAIN writers :
          /\ writers[i].st = "writing" /\ writers' = [writers EXCEPT ![i].read = TRUE]
          /\ WriteLoopStep(i) /\ UNCHANGED bodies
    BY <1>2 DEF WriteLoopReads
  <2> DEFINE r == [writers[i] EXCEPT !.read = TRUE]
  <2>2. /\ r \in WriterRec /\ r.st = "writing" /\ r.hop = writers[i].hop
        /\ r.method = writers[i].method /\ r.body = writers[i].body
    BY <1>r, <2>1 DEF WriterRec
  <2>3. writers' = [writers EXCEPT ![i] = r]
    BY <2>1
  <2>4. UNCHANGED WriteLoopLeaves /\ UNCHANGED conn
    BY <2>1 DEF WriteLoopStep
  <2>5. Moves(i)
    BY <2>1, <2>2, <2>3, <2>4, WriterMoves
  <2> QED
    BY <2>5
<1>3. CASE WriteLoopFlushes
  <2>1. PICK i \in DOMAIN writers :
          /\ writers[i].st = "writing" /\ writers' = [writers EXCEPT ![i].wrote = TRUE]
          /\ WriteLoopStep(i) /\ UNCHANGED bodies
    BY <1>3 DEF WriteLoopFlushes
  <2> DEFINE r == [writers[i] EXCEPT !.wrote = TRUE]
  <2>2. /\ r \in WriterRec /\ r.st = "writing" /\ r.hop = writers[i].hop
        /\ r.method = writers[i].method /\ r.body = writers[i].body
    BY <1>r, <2>1 DEF WriterRec
  <2>3. writers' = [writers EXCEPT ![i] = r]
    BY <2>1
  <2>4. UNCHANGED WriteLoopLeaves /\ UNCHANGED conn
    BY <2>1 DEF WriteLoopStep
  <2>5. Moves(i)
    BY <2>1, <2>2, <2>3, <2>4, WriterMoves
  <2> QED
    BY <2>5
<1>4. CASE WriteLoopEnds
  <2>1. PICK i \in DOMAIN writers :
          /\ writers[i].st = "writing" /\ writers' = [writers EXCEPT ![i].st = "done"]
          /\ bodies' = closeBody(bodies, writers[i].body) /\ WriteLoopStep(i)
    BY <1>4 DEF WriteLoopEnds
  <2> DEFINE r == [writers[i] EXCEPT !.st = "done"]
  <2>2. /\ r \in WriterRec /\ r.st = "done" /\ r.hop = writers[i].hop
        /\ r.method = writers[i].method /\ r.body = writers[i].body
    BY <1>r, <2>1 DEF WriterRec
  <2>3. writers' = [writers EXCEPT ![i] = r]
    BY <2>1
  <2>4. UNCHANGED WriteLoopLeaves /\ UNCHANGED conn
    BY <2>1 DEF WriteLoopStep
  <2>5. Moves(i)
    BY <2>1, <2>2, <2>3, <2>4, WriterMoves
  <2> QED
    BY <2>5
<1>5. CASE WriteLoopFails
  <2>1. PICK i \in DOMAIN writers, copying \in BOOLEAN :
          /\ writers[i].st = "writing" /\ writers' = [writers EXCEPT ![i].st = "done", ![i].bodyError = copying]
          /\ bodies' = closeBody(bodies, writers[i].body) /\ WriteLoopStep(i)
    BY <1>5 DEF WriteLoopFails
  <2> DEFINE r == [writers[i] EXCEPT !.st = "done", !.bodyError = copying]
  <2>2. /\ r \in WriterRec /\ r.st = "done" /\ r.hop = writers[i].hop
        /\ r.method = writers[i].method /\ r.body = writers[i].body
    BY <1>r, <2>1 DEF WriterRec
  <2>3. writers' = [writers EXCEPT ![i] = r]
    BY <2>1
  <2>4. UNCHANGED WriteLoopLeaves /\ UNCHANGED conn
    BY <2>1 DEF WriteLoopStep
  <2>5. Moves(i)
    BY <2>1, <2>2, <2>3, <2>4, WriterMoves
  <2> QED
    BY <2>5
<1>6. CASE WriteLoopRefuses
  <2>1. PICK i \in DOMAIN writers :
          /\ writers[i].st = "writing" /\ writers' = [writers EXCEPT ![i].st = "done"]
          /\ WriteLoopCloses(i)
    BY <1>6 DEF WriteLoopRefuses
  <2> DEFINE r == [writers[i] EXCEPT !.st = "done"]
  <2>2. /\ r \in WriterRec /\ r.st = "done" /\ r.hop = writers[i].hop
        /\ r.method = writers[i].method /\ r.body = writers[i].body
    BY <1>r, <2>1 DEF WriterRec
  <2>3. writers' = [writers EXCEPT ![i] = r]
    BY <2>1
  <2>4. /\ UNCHANGED WriteLoopLeaves /\ bodies' = closeBody(bodies, writers[i].body)
        /\ conn' = conn \/ (healthy /\ i = Writer /\ conn' = [conn EXCEPT !.err = "other"])
    BY <2>1 DEF WriteLoopCloses
  <2>5. Moves(i)
    BY <2>1, <2>2, <2>3, <2>4, WriterMoves
  <2> QED
    BY <2>5
<1>7. CASE WriteLoopBodyFails
  <2>1. PICK i \in DOMAIN writers, reading \in BOOLEAN :
          /\ writers[i].st = "writing" /\ writers' = [writers EXCEPT ![i].st = "done", ![i].read = TRUE, ![i].bodyError = reading]
          /\ WriteLoopCloses(i)
    BY <1>7 DEF WriteLoopBodyFails
  <2> DEFINE r == [writers[i] EXCEPT !.st = "done", !.read = TRUE, !.bodyError = reading]
  <2>2. /\ r \in WriterRec /\ r.st = "done" /\ r.hop = writers[i].hop
        /\ r.method = writers[i].method /\ r.body = writers[i].body
    BY <1>r, <2>1 DEF WriterRec
  <2>3. writers' = [writers EXCEPT ![i] = r]
    BY <2>1
  <2>4. /\ UNCHANGED WriteLoopLeaves /\ bodies' = closeBody(bodies, writers[i].body)
        /\ conn' = conn \/ (healthy /\ i = Writer /\ conn' = [conn EXCEPT !.err = "other"])
    BY <2>1 DEF WriteLoopCloses
  <2>5. Moves(i)
    BY <2>1, <2>2, <2>3, <2>4, WriterMoves
  <2> QED
    BY <2>5
<1>8. CASE WriteLoopQuits
  <2>1. /\ broken /\ Writer \in DOMAIN writers /\ writers[Writer].st = "queued"
        /\ writers' = [writers EXCEPT ![Writer].st = "done"]
        /\ WriteLoopStep(Writer) /\ UNCHANGED bodies
    BY <1>8, <1>w DEF WriteLoopQuits, CurrentInv, broken, Writer
  <2> DEFINE r == [writers[Writer] EXCEPT !.st = "done"]
  <2>2. /\ r \in WriterRec /\ r.st = "done" /\ r.hop = writers[Writer].hop
        /\ r.method = writers[Writer].method /\ r.body = writers[Writer].body
    BY <1>r, <2>1 DEF WriterRec
  <2>3. writers' = [writers EXCEPT ![Writer] = r]
    BY <2>1
  <2>4. UNCHANGED WriteLoopLeaves /\ UNCHANGED conn
    BY <2>1 DEF WriteLoopStep
  <2> QED
    BY <2>1, <2>2, <2>3, <2>4, WriterMoves
<1> QED
  BY <1>1, <1>2, <1>3, <1>4, <1>5, <1>6, <1>7, <1>8

-----------------------------------------------------------------------------
\* Nothing happens.
LEMMA Stuttering == ClientInv /\ UNCHANGED vars => ClientInv'
BY DEF ClientInv, TypeInv, TypeOK, RespInv, HeaderInv, HostHeaderStays, CurrentInv, AttemptInv,
       OwnerInv, owned, lastResponseUsed, repeatable, unread, Fresh, Writer, vars

\* Do starts with the caller's body and no writeLoop.
LEMMA InitKeeps == Init => ClientInv
<1> SUFFICES ASSUME Init PROVE ClientInv
  OBVIOUS
<1> USE DEF Init
<1>1. /\ bodies \in Seq(BOOLEAN) /\ Len(bodies) = IF call.body THEN 1 ELSE 0
      /\ DOMAIN bodies = 1..Len(bodies) /\ \A b \in DOMAIN bodies : ~bodies[b]
  <2>1. CASE call.body
    <3>1. /\ <<FALSE>> \in Seq(BOOLEAN) /\ Len(<<FALSE>>) = 1 /\ ~<<FALSE>>[1]
          /\ DOMAIN <<FALSE>> = 1..1
      OBVIOUS
    <3>2. bodies = <<FALSE>>
      BY <2>1
    <3>3. bodies \in Seq(BOOLEAN) /\ Len(bodies) = 1 /\ ~bodies[1] /\ DOMAIN bodies = 1..1
      BY <3>1, <3>2, Zenon
    <3>4. \A b \in 1..1 : b = 1
      OBVIOUS
    <3> QED
      BY <2>1, <3>3, <3>4
  <2>2. CASE ~call.body
    <3>1. bodies = <<>>
      BY <2>2
    <3> QED
      BY <2>2, <3>1
  <2> QED
    BY <2>1, <2>2
<1>2. /\ writers \in Seq(WriterRec) /\ Len(writers) = 0 /\ DOMAIN writers = {}
      /\ resps \in Seq(BOOLEAN) /\ Len(resps) = 0 /\ DOMAIN resps = {}
  OBVIOUS
<1>3. call \in Requests /\ call \in Calls /\ Home \in Hosts /\ Pooled \in Nat
  BY ClientDoAssumption
<1>4. TypeInv
  <2>1. req \in [method : {"GET", "POST"}, body : 0..Len(bodies), host : Hosts,
                custom : BOOLEAN, cookies : SUBSET Cookies]
    BY <1>1, <1>3 DEF Calls
  <2>2. conn \in [reused : BOOLEAN, err : Kinds \union {"none"}] /\ idle \in 0..Pooled
    BY <1>3 DEF NoConn
  <2>3. last \in [code : Codes, cookies : SUBSET Cookies, arrives : BOOLEAN]
    BY DEF Codes
  <2>4. sending \in 0..Len(bodies) /\ hops \in Nat /\ timers \subseteq 1..hops
    BY <1>1
  <2>5. TypeOK
    BY <1>1, <1>2, <1>3, <2>1, <2>2, <2>3, <2>4 DEF TypeOK
  <2> QED
    BY <1>2, <2>5 DEF TypeInv
<1>5. RespInv /\ HeaderInv /\ CurrentInv
  BY <1>2 DEF RespInv, HeaderInv, HostHeaderStays, CurrentInv, Attempting, Answered
<1>6. AttemptInv /\ OwnerInv
  BY <1>1, <1>2 DEF AttemptInv, OwnerInv, owned, Fresh, Composed
<1> QED
  BY <1>4, <1>5, <1>6 DEF ClientInv

\* A step of a writeLoop.
LEMMA MovesKeeps ==
  ASSUME ClientInv, NEW i \in DOMAIN writers, Moves(i)
  PROVE  ClientInv'
<1> USE DEF ClientInv
<1>0. /\ writers \in Seq(WriterRec) /\ DOMAIN writers = 1..Len(writers)
      /\ DOMAIN writers' = DOMAIN writers /\ Writer' = Writer /\ Len(writers') = Len(writers)
      /\ Writer = Len(writers) /\ Len(writers) \in Nat
      /\ DOMAIN bodies = 1..Len(bodies) /\ DOMAIN bodies' = DOMAIN bodies
      /\ \A k \in DOMAIN writers :
           /\ writers[k] \in WriterRec /\ writers'[k] \in WriterRec
           /\ writers[k].body \in 0..Len(bodies) /\ writers[k].hop \in 1..hops
  BY SMTT(60) DEF Moves, TypeInv, TypeOK, Writer
<1>1. UNCHANGED <<call, pc, req, hops, redirect, check, icookies, sending, idle, resps,
                  last, timers, done, result, rewritten, set, via>>
  BY DEF Moves, WriteLoopLeaves
<1>2. \A k \in DOMAIN writers :
        /\ writers'[k].hop = writers[k].hop /\ writers'[k].method = writers[k].method
        /\ writers'[k].body = writers[k].body
        /\ writers[k].st = "done" => writers'[k] = writers[k]
        /\ writers'[k].st = "queued" => writers'[k] = writers[k]
  BY <1>0 DEF Moves
<1>3. /\ bodies' \in Seq(BOOLEAN) /\ Len(bodies') = Len(bodies)
      /\ \A b \in DOMAIN bodies : bodies[b] => bodies'[b]
      /\ \A b \in DOMAIN bodies : bodies'[b] => bodies[b] \/ b = writers[i].body
  BY DEF Moves
<1>4. TypeInv'
  <2>1. \A k \in DOMAIN writers :
          writers'[k] \in [hop : 1..hops, method : {"GET", "POST"}, body : 0..Len(bodies),
                           st : {"queued", "writing", "done"}, read : BOOLEAN,
                           wrote : BOOLEAN, bodyError : BOOLEAN]
    BY <1>0, <1>2 DEF WriterRec
  <2>2. conn' \in [reused : BOOLEAN, err : Kinds \union {"none"}]
    BY ZenonT(60) DEF Moves, TypeInv, TypeOK, Kinds
  <2>3. TypeOK'
    BY <1>0, <1>1, <1>3, <2>1, <2>2, SMTT(60) DEF TypeInv, TypeOK
  <2> QED
    BY <2>3 DEF TypeInv, Moves
<1>5. RespInv' /\ HeaderInv'
  BY <1>1 DEF RespInv, HeaderInv, HostHeaderStays
<1>6. CurrentInv'
  <2>1. ASSUME NEW k \in DOMAIN writers, writers'[k].st = "queued"
        PROVE  /\ k = Writer /\ pc = "exchange" /\ ~writers'[k].read /\ ~writers'[k].wrote
               /\ writers'[k].body # 0 => ~bodies'[writers'[k].body]
    <3>1. k # i /\ writers'[k] = writers[k] /\ writers[k].st = "queued"
      BY <1>2, <2>1 DEF Moves
    <3>2. k = Writer /\ i < k
      BY <1>0, <3>1 DEF CurrentInv
    <3>3. writers[k].body # 0 => writers[k].body # writers[i].body
      BY <1>0, <3>1, <3>2 DEF AttemptInv, unread, Moves
    <3> QED
      BY <1>0, <1>3, <3>1, <3>3 DEF CurrentInv
  <2>2. pc = "exchange" => conn'.err \in {"none", "canceled", "closedIdle", "read", "other"}
    BY SMTT(60) DEF CurrentInv, Moves, TypeInv, TypeOK
  <2>3. pc = "failed" => conn' = conn
    BY DEF Moves, healthy
  <2> QED
    BY <1>0, <1>1, <1>2, <2>1, <2>2, <2>3 DEF CurrentInv
<1>7. AttemptInv'
  <2>1. \A k \in DOMAIN writers :
          (repeatable(k) => repeatable(k)') /\ (unread(k) => unread(k)')
    BY <1>1, <1>2 DEF repeatable, unread
  <2>2. \A b \in DOMAIN bodies : Fresh(b) => Fresh(b)'
    <3> SUFFICES ASSUME NEW b \in DOMAIN bodies, Fresh(b) PROVE Fresh(b)'
      OBVIOUS
    <3>1. b # writers[i].body
      BY DEF Fresh, unread, Moves
    <3> QED
      BY <1>0, <1>2, <1>3, <2>1, <3>1 DEF Fresh
  <2>3. \A j, k \in DOMAIN writers' : j < k =>
          /\ writers'[j].hop = writers'[k].hop
               => repeatable(j)' /\ writers'[j].method = writers'[k].method
          /\ writers'[j].body = writers'[k].body /\ writers'[k].body # 0 => unread(j)'
    BY <1>0, <1>2, <2>1, SMTT(60) DEF AttemptInv
  <2>4. pc = "roundTrip" =>
          /\ \A k \in DOMAIN writers' :
               writers'[k].hop = hops => repeatable(k)' /\ writers'[k].method = req.method
          /\ sending # 0 => Fresh(sending)'
    BY <1>0, <1>1, <1>2, <2>1, <2>2, SMTT(60) DEF AttemptInv, TypeInv, TypeOK, Fresh
  <2>5. pc \in Composed /\ req.body # 0 => Fresh(req.body)'
    BY <1>0, <1>1, <2>2, SMTT(60) DEF AttemptInv, TypeInv, TypeOK, Fresh
  <2> QED
    BY <1>1, <2>3, <2>4, <2>5 DEF AttemptInv, Composed
<1>8. OwnerInv'
  <2>1. lastResponseUsed' = lastResponseUsed
    BY <1>1 DEF lastResponseUsed
  <2>2. ASSUME NEW b \in DOMAIN bodies PROVE bodies'[b] \/ owned(b)'
    <3>1. CASE bodies[b]
      BY <1>3, <3>1
    <3>2. CASE b = writers[i].body /\ writers'[i].st = "done"
      <4>1. bodies'[b] \/ (i = Writer /\ broken)
        BY <1>0, <3>2 DEF Moves
      <4>2. i = Writer /\ broken => pc \in Attempting /\ b = sending
        BY <3>2 DEF CurrentInv, broken, Attempting
      <4> QED
        BY <1>1, <4>1, <4>2 DEF owned
    <3>3. CASE ~bodies[b] /\ ~(b = writers[i].body /\ writers'[i].st = "done")
      <4>1. owned(b)
        BY <3>3 DEF OwnerInv
      <4>2. \A k \in DOMAIN writers :
              writers[k].body = b /\ writers[k].st # "done" => writers'[k].st # "done"
        BY <1>2, <3>3 DEF Moves
      <4> QED
        BY <1>0, <1>1, <1>2, <2>1, <4>1, <4>2 DEF owned, Attempting, Composed
    <3> QED
      BY <3>1, <3>2, <3>3
  <2>3. ASSUME pc = "exchange", conn'.err = "none", sending # 0, writers'[Writer].st = "done"
        PROVE  bodies'[sending]
    <3>1. conn' = conn /\ Writer \in DOMAIN writers /\ writers[Writer].body = sending
      BY <1>0, <2>3, SMTT(60) DEF Moves, CurrentInv, TypeInv, TypeOK
    <3>2. CASE Writer = i
      BY <1>0, <2>3, <3>1, <3>2 DEF Moves, broken
    <3>3. CASE Writer # i
      <4>1. bodies[sending]
        BY <1>0, <2>3, <3>1, <3>3 DEF OwnerInv, Moves
      <4> QED
        BY <1>0, <1>3, <2>3, <3>1, <4>1
    <3> QED
      BY <3>2, <3>3
  <2> QED
    BY <1>0, <1>1, <2>2, <2>3 DEF OwnerInv
<1> QED
  BY <1>4, <1>5, <1>6, <1>7, <1>8

-----------------------------------------------------------------------------
\* The types that the steps of Do use.
LEMMA ClientFacts ==
  ASSUME ClientInv
  PROVE  /\ Writer = Len(writers) /\ Len(writers) \in Nat /\ DOMAIN writers = 1..Len(writers)
         /\ bodies \in Seq(BOOLEAN) /\ Len(bodies) \in Nat /\ DOMAIN bodies = 1..Len(bodies)
         /\ resps \in Seq(BOOLEAN) /\ Len(resps) \in Nat /\ DOMAIN resps = 1..Len(resps)
         /\ \A b \in DOMAIN bodies : bodies[b] \in BOOLEAN
         /\ \A h \in DOMAIN resps : resps[h] \in BOOLEAN
         /\ \A k \in DOMAIN writers : /\ writers[k] \in WriterRec
                                      /\ writers[k].body \in 0..Len(bodies)
                                      /\ writers[k].hop \in 1..hops
         /\ sending \in 0..Len(bodies) /\ req.body \in 0..Len(bodies) /\ hops \in Nat
<1>1. /\ writers \in Seq(WriterRec) /\ bodies \in Seq(BOOLEAN) /\ resps \in Seq(BOOLEAN)
  BY DEF ClientInv, TypeInv, TypeOK
<1> QED
  BY <1>1, ElementOfSeq, SMTT(60) DEF ClientInv, TypeInv, TypeOK, Writer

\* A redirect without a Location is the answer.
LEMMA LocationMissingKeeps == ClientInv /\ LocationMissing => ClientInv'
<1> SUFFICES ASSUME ClientInv, LocationMissing PROVE ClientInv'
  OBVIOUS
<1> USE DEF ClientInv, LocationMissing, Return
<1>1. TypeInv'
  BY ClientFacts DEF TypeInv, TypeOK
<1>2. RespInv'
  BY ClientFacts DEF RespInv, Attempting, Answered
<1>3. HeaderInv'
  BY DEF HeaderInv, HostHeaderStays
<1>4. CurrentInv'
  BY ClientFacts DEF CurrentInv, Writer
<1>5. AttemptInv'
  BY ClientFacts DEF AttemptInv, CurrentInv, repeatable, unread, Fresh, Composed
<1>6. OwnerInv'
  BY ClientFacts DEF OwnerInv, owned, lastResponseUsed, Attempting, Composed
<1> QED
  BY <1>1, <1>2, <1>3, <1>4, <1>5, <1>6

\* A Location that is no URL: the response and the body are closed.
LEMMA LocationInvalidKeeps == ClientInv /\ LocationInvalid => ClientInv'
<1> SUFFICES ASSUME ClientInv, LocationInvalid PROVE ClientInv'
  OBVIOUS
<1> USE DEF ClientInv, LocationInvalid, Return, CloseResponse
<1>b. /\ bodies' = closeBody(bodies, req.body) /\ bodies' \in Seq(BOOLEAN)
      /\ Len(bodies') = Len(bodies) /\ DOMAIN bodies' = DOMAIN bodies
      /\ req.body # 0 => bodies'[req.body]
      /\ \A k \in DOMAIN bodies : bodies'[k] = (bodies[k] \/ k = req.body)
  BY ClientFacts, CloseBodyFacts, SMTT(60)
<1>r. /\ resps' \in Seq(BOOLEAN) /\ Len(resps') = Len(resps) /\ DOMAIN resps' = DOMAIN resps
      /\ \A k \in DOMAIN resps : resps'[k] = (resps[k] /\ k # hops)
  BY ClientFacts, CloseResponseFacts
<1>1. TypeInv'
  BY ClientFacts, <1>b, <1>r, SMTT(60) DEF TypeInv, TypeOK
<1>2. RespInv'
  BY ClientFacts, <1>b, <1>r DEF RespInv, Attempting, Answered
<1>3. HeaderInv'
  BY DEF HeaderInv, HostHeaderStays
<1>4. CurrentInv'
  BY ClientFacts, <1>b DEF CurrentInv, Writer
<1>5. AttemptInv'
  BY ClientFacts, <1>b DEF AttemptInv, CurrentInv, repeatable, unread, Fresh, Composed
<1>6. OwnerInv'
  BY ClientFacts, <1>b, <1>r DEF OwnerInv, owned, lastResponseUsed, Attempting, Composed
<1> QED
  BY <1>1, <1>2, <1>3, <1>4, <1>5, <1>6

\* GetBody fails: the response is closed, there is no body yet.
LEMMA GetBodyFailsKeeps == ClientInv /\ GetBodyFails => ClientInv'
<1> SUFFICES ASSUME ClientInv, GetBodyFails PROVE ClientInv'
  OBVIOUS
<1> USE DEF ClientInv, GetBodyFails, Return, CloseResponse, resends
<1>r. /\ resps' \in Seq(BOOLEAN) /\ Len(resps') = Len(resps) /\ DOMAIN resps' = DOMAIN resps
      /\ \A k \in DOMAIN resps : resps'[k] = (resps[k] /\ k # hops)
  BY ClientFacts, CloseResponseFacts
<1>1. TypeInv'
  <2>1. /\ redirect.method \in {"GET", "POST"} /\ timers' \subseteq 1..hops
    BY DEF TypeInv, TypeOK
  <2>2. req' \in [method : {"GET", "POST"}, body : 0..Len(bodies), host : Hosts,
                 custom : BOOLEAN, cookies : SUBSET Cookies]
    <3>1. /\ 0 \in 0..Len(bodies) /\ req.host \in Hosts /\ req.custom \in BOOLEAN
          /\ req.cookies \subseteq Cookies
      BY ClientFacts DEF TypeInv, TypeOK
    <3>2. req' = [method |-> redirect.method, body |-> 0, host |-> req.host,
                  custom |-> req.custom, cookies |-> req.cookies]
      BY DEF TypeInv, TypeOK
    <3> QED
      BY <2>1, <3>1, <3>2
  <2> QED
    BY <2>1, <2>2, ClientFacts, <1>r, SMTT(60) DEF TypeInv, TypeOK
<1>2. RespInv'
  BY ClientFacts, <1>r DEF RespInv, Attempting, Answered
<1>3. HeaderInv'
  BY DEF HeaderInv, HostHeaderStays
<1>4. CurrentInv'
  BY ClientFacts DEF CurrentInv, Writer
<1>5. AttemptInv'
  BY ClientFacts DEF AttemptInv, CurrentInv, repeatable, unread, Fresh, Composed
<1>6. OwnerInv'
  BY ClientFacts, <1>r DEF OwnerInv, owned, lastResponseUsed, Attempting, Composed
<1> QED
  BY <1>1, <1>2, <1>3, <1>4, <1>5, <1>6

\* CheckRedirect wants the last response.
LEMMA CheckRedirectLastKeeps == ClientInv /\ CheckRedirectLast => ClientInv'
<1> SUFFICES ASSUME ClientInv, CheckRedirectLast PROVE ClientInv'
  OBVIOUS
<1> USE DEF ClientInv, CheckRedirectLast, Return
<1>1. TypeInv'
  BY ClientFacts DEF TypeInv, TypeOK
<1>2. RespInv'
  BY ClientFacts DEF RespInv, Attempting, Answered
<1>3. HeaderInv'
  BY DEF HeaderInv, HostHeaderStays
<1>4. CurrentInv'
  BY ClientFacts DEF CurrentInv, Writer
<1>5. AttemptInv'
  BY ClientFacts DEF AttemptInv, CurrentInv, repeatable, unread, Fresh, Composed
<1>6. OwnerInv'
  <2>1. req.body # 0 => lastResponseUsed'
    BY ClientFacts DEF lastResponseUsed, AttemptInv, RespInv, Answered
  <2>2. ASSUME NEW b \in DOMAIN bodies, ~bodies[b] PROVE owned(b)'
    <3>1. owned(b) /\ b # 0
      BY <2>2, ClientFacts DEF OwnerInv
    <3> QED
      BY <2>1, <3>1 DEF owned, Attempting, Composed
  <2> QED
    BY <2>2 DEF OwnerInv
<1> QED
  BY <1>1, <1>2, <1>3, <1>4, <1>5, <1>6

\* CheckRedirect decides.
LEMMA CheckRedirectKeeps == ClientInv /\ CheckRedirect => ClientInv'
<1> SUFFICES ASSUME ClientInv, CheckRedirect PROVE ClientInv'
  OBVIOUS
<1> USE DEF ClientInv, CheckRedirect
<1>1. TypeInv'
  BY ClientFacts, SMTT(60) DEF TypeInv, TypeOK
<1>2. RespInv'
  BY ClientFacts DEF RespInv, Attempting, Answered
<1>3. HeaderInv'
  BY DEF HeaderInv, HostHeaderStays
<1>4. CurrentInv'
  BY ClientFacts DEF CurrentInv, Writer
<1>5. AttemptInv'
  BY ClientFacts DEF AttemptInv, CurrentInv, repeatable, unread, Fresh, Composed
<1>6. OwnerInv'
  BY ClientFacts DEF OwnerInv, owned, lastResponseUsed, Attempting, Composed
<1> QED
  BY <1>1, <1>2, <1>3, <1>4, <1>5, <1>6

\* roundTrip refuses the request and closes its body.
LEMMA RoundTripRefusesKeeps == ClientInv /\ RoundTripRefuses => ClientInv'
<1> SUFFICES ASSUME ClientInv, RoundTripRefuses PROVE ClientInv'
  OBVIOUS
<1> USE DEF ClientInv, RoundTripRefuses, Fails, Return
<1>b. /\ bodies' = closeBody(bodies, sending) /\ bodies' \in Seq(BOOLEAN)
      /\ Len(bodies') = Len(bodies) /\ DOMAIN bodies' = DOMAIN bodies
      /\ sending # 0 => bodies'[sending]
      /\ \A k \in DOMAIN bodies : bodies'[k] = (bodies[k] \/ k = sending)
  BY ClientFacts, CloseBodyFacts
<1>1. TypeInv'
  BY ClientFacts, <1>b, SMTT(60) DEF TypeInv, TypeOK
<1>2. RespInv'
  BY ClientFacts, <1>b DEF RespInv, Attempting, Answered
<1>3. HeaderInv'
  BY DEF HeaderInv, HostHeaderStays
<1>4. CurrentInv'
  BY ClientFacts, <1>b DEF CurrentInv, Writer
<1>5. AttemptInv'
  BY ClientFacts, <1>b DEF AttemptInv, CurrentInv, repeatable, unread, Fresh, Composed
<1>6. OwnerInv'
  BY ClientFacts, <1>b, SMTT(60) DEF OwnerInv, owned, lastResponseUsed, Attempting, Composed
<1> QED
  BY <1>1, <1>2, <1>3, <1>4, <1>5, <1>6

\* An attempt failed for good: roundTrip closes the body.
LEMMA GiveUpKeeps == ClientInv /\ GiveUp => ClientInv'
<1> SUFFICES ASSUME ClientInv, GiveUp PROVE ClientInv'
  OBVIOUS
<1> USE DEF ClientInv, GiveUp, Fails, Return
<1>b. /\ bodies' = closeBody(bodies, sending) /\ bodies' \in Seq(BOOLEAN)
      /\ Len(bodies') = Len(bodies) /\ DOMAIN bodies' = DOMAIN bodies
      /\ sending # 0 => bodies'[sending]
      /\ \A k \in DOMAIN bodies : bodies'[k] = (bodies[k] \/ k = sending)
  BY ClientFacts, CloseBodyFacts
<1>1. TypeInv'
  BY ClientFacts, <1>b DEF TypeInv, TypeOK, NoConn, Kinds
<1>2. RespInv'
  BY ClientFacts, <1>b DEF RespInv, Attempting, Answered
<1>3. HeaderInv'
  BY DEF HeaderInv, HostHeaderStays
<1>4. CurrentInv'
  BY ClientFacts, <1>b DEF CurrentInv, Writer
<1>5. AttemptInv'
  BY ClientFacts, <1>b DEF AttemptInv, CurrentInv, repeatable, unread, Fresh, Composed
<1>6. OwnerInv'
  BY ClientFacts, <1>b, SMTT(60) DEF OwnerInv, owned, lastResponseUsed, Attempting, Composed
<1> QED
  BY <1>1, <1>2, <1>3, <1>4, <1>5, <1>6

\* The request is sent again as it is.
LEMMA RetryKeeps == ClientInv /\ Retry => ClientInv'
<1> SUFFICES ASSUME ClientInv, Retry PROVE ClientInv'
  OBVIOUS
<1> USE DEF ClientInv, Retry
<1>1. TypeInv'
  BY ClientFacts DEF TypeInv, TypeOK, NoConn, Kinds
<1>2. RespInv'
  BY ClientFacts DEF RespInv, Attempting, Answered
<1>3. HeaderInv'
  BY DEF HeaderInv, HostHeaderStays
<1>4. CurrentInv'
  BY ClientFacts DEF CurrentInv, Writer
<1>5. AttemptInv'
  <2>1. /\ Writer \in DOMAIN writers /\ writers[Writer].hop = hops
        /\ writers[Writer].body = sending /\ writers[Writer].method = req.method
        /\ writers[Writer].st = "done" /\ ~writers[Writer].bodyError
        /\ writers[Writer].wrote => req.method = "GET" \/ call.key
    BY ClientFacts DEF CurrentInv, shouldRetryRequest, isReplayable
  <2>2. ASSUME NEW i \in DOMAIN writers, writers[i].hop = hops
        PROVE  repeatable(i) /\ writers[i].method = req.method
    <3>1. i = Writer \/ i < Writer
      BY ClientFacts
    <3> QED
      BY <2>1, <2>2, <3>1 DEF AttemptInv, repeatable
  <2>3. ASSUME sending # 0 PROVE Fresh(sending)
    <3>1. ~bodies[sending] /\ ~writers[Writer].read
      BY <2>1, <2>3 DEF needsRewind, didRead
    <3>2. \A i \in DOMAIN writers : writers[i].body = sending => i = Writer \/ i < Writer
      BY ClientFacts
    <3> QED
      BY <2>1, <2>3, <3>1, <3>2 DEF AttemptInv, Fresh, unread
  <2> QED
    BY <2>2, <2>3 DEF AttemptInv, repeatable, unread, Fresh, Composed
<1>6. OwnerInv'
  BY ClientFacts DEF OwnerInv, owned, lastResponseUsed, Attempting, Composed
<1> QED
  BY <1>1, <1>2, <1>3, <1>4, <1>5, <1>6

\* The body cannot be had again.
LEMMA RetryCannotRewindKeeps == ClientInv /\ RetryCannotRewind => ClientInv'
<1> SUFFICES ASSUME ClientInv, RetryCannotRewind PROVE ClientInv'
  OBVIOUS
<1> USE DEF ClientInv, RetryCannotRewind, Fails, Return
<1>b. /\ bodies' = closeBody(bodies, sending) /\ bodies' \in Seq(BOOLEAN)
      /\ Len(bodies') = Len(bodies) /\ DOMAIN bodies' = DOMAIN bodies
      /\ sending # 0 => bodies'[sending]
      /\ \A k \in DOMAIN bodies : bodies'[k] = (bodies[k] \/ k = sending)
  BY ClientFacts, CloseBodyFacts
<1>1. TypeInv'
  BY ClientFacts, <1>b DEF TypeInv, TypeOK, NoConn, Kinds
<1>2. RespInv'
  BY ClientFacts, <1>b DEF RespInv, Attempting, Answered
<1>3. HeaderInv'
  BY DEF HeaderInv, HostHeaderStays
<1>4. CurrentInv'
  BY ClientFacts, <1>b DEF CurrentInv, Writer
<1>5. AttemptInv'
  BY ClientFacts, <1>b DEF AttemptInv, CurrentInv, repeatable, unread, Fresh, Composed
<1>6. OwnerInv'
  BY ClientFacts, <1>b, ZenonT(60) DEF OwnerInv, owned, lastResponseUsed, Attempting, Composed
<1> QED
  BY <1>1, <1>2, <1>3, <1>4, <1>5, <1>6

\* A response that is no redirect is the answer.
LEMMA ResponseReturnedKeeps == ClientInv /\ ResponseReturned => ClientInv'
<1> SUFFICES ASSUME ClientInv, ResponseReturned PROVE ClientInv'
  OBVIOUS
<1> USE DEF ClientInv, ResponseReturned, Return
<1>1. TypeInv'
  BY ClientFacts DEF TypeInv, TypeOK
<1>2. RespInv'
  BY ClientFacts DEF RespInv, Attempting, Answered
<1>3. HeaderInv'
  BY DEF HeaderInv, HostHeaderStays
<1>4. CurrentInv'
  BY ClientFacts DEF CurrentInv, Writer
<1>5. AttemptInv'
  BY ClientFacts DEF AttemptInv, CurrentInv, repeatable, unread, Fresh, Composed
<1>6. OwnerInv'
  BY ClientFacts DEF OwnerInv, owned, lastResponseUsed, Attempting, Composed
<1> QED
  BY <1>1, <1>2, <1>3, <1>4, <1>5, <1>6

\* A redirect is followed: the body of this hop is closed.
LEMMA ResponseRedirectsKeeps == ClientInv /\ ResponseRedirects => ClientInv'
<1> SUFFICES ASSUME ClientInv, ResponseRedirects PROVE ClientInv'
  OBVIOUS
<1> USE DEF ClientInv, ResponseRedirects
<1>b. /\ bodies' = closeBody(bodies, req.body) /\ bodies' \in Seq(BOOLEAN)
      /\ Len(bodies') = Len(bodies) /\ DOMAIN bodies' = DOMAIN bodies
      /\ req.body # 0 => bodies'[req.body]
      /\ \A k \in DOMAIN bodies : bodies'[k] = (bodies[k] \/ k = req.body)
  BY ClientFacts, CloseBodyFacts, SMTT(60)
<1>1. TypeInv'
  BY ClientFacts, <1>b DEF TypeInv, TypeOK
<1>2. RespInv'
  BY ClientFacts, <1>b DEF RespInv, Attempting, Answered
<1>3. HeaderInv'
  BY DEF HeaderInv, HostHeaderStays
<1>4. CurrentInv'
  BY ClientFacts, <1>b DEF CurrentInv, Writer
<1>5. AttemptInv'
  BY ClientFacts, <1>b DEF AttemptInv, CurrentInv, repeatable, unread, Fresh, Composed
<1>6. OwnerInv'
  BY ClientFacts, <1>b DEF OwnerInv, owned, lastResponseUsed, Attempting, Composed
<1> QED
  BY <1>1, <1>2, <1>3, <1>4, <1>5, <1>6

\* The caller closes the response.
LEMMA CallerClosesKeeps == ClientInv /\ CallerCloses => ClientInv'
<1> SUFFICES ASSUME ClientInv, CallerCloses PROVE ClientInv'
  OBVIOUS
<1> USE DEF ClientInv, CallerCloses, CloseResponse
<1>r. /\ resps' \in Seq(BOOLEAN) /\ Len(resps') = Len(resps) /\ DOMAIN resps' = DOMAIN resps
      /\ \A k \in DOMAIN resps : resps'[k] = (resps[k] /\ k # hops)
  BY ClientFacts, CloseResponseFacts
<1>1. TypeInv'
  BY ClientFacts, <1>r DEF TypeInv, TypeOK
<1>2. RespInv'
  BY ClientFacts, <1>r DEF RespInv, Attempting, Answered
<1>3. HeaderInv'
  BY DEF HeaderInv, HostHeaderStays
<1>4. CurrentInv'
  BY ClientFacts DEF CurrentInv, Writer
<1>5. AttemptInv'
  BY ClientFacts DEF AttemptInv, CurrentInv, repeatable, unread, Fresh, Composed
<1>6. OwnerInv'
  BY ClientFacts, <1>r DEF OwnerInv, owned, lastResponseUsed, Attempting, Composed
<1> QED
  BY <1>1, <1>2, <1>3, <1>4, <1>5, <1>6

\* The connection breaks.
LEMMA ConnBreaksKeeps == ClientInv /\ ConnBreaks => ClientInv'
<1> SUFFICES ASSUME ClientInv, ConnBreaks PROVE ClientInv'
  OBVIOUS
<1> USE DEF ClientInv, ConnBreaks, healthy
<1>1. TypeInv'
  BY ClientFacts, SMTT(60) DEF TypeInv, TypeOK, Kinds
<1>2. RespInv'
  BY ClientFacts DEF RespInv, Attempting, Answered
<1>3. HeaderInv'
  BY DEF HeaderInv, HostHeaderStays
<1>4. CurrentInv'
  BY ClientFacts DEF CurrentInv, Writer
<1>5. AttemptInv'
  BY ClientFacts DEF AttemptInv, CurrentInv, repeatable, unread, Fresh, Composed
<1>6. OwnerInv'
  BY ClientFacts DEF OwnerInv, owned, lastResponseUsed, Attempting, Composed
<1> QED
  BY <1>1, <1>2, <1>3, <1>4, <1>5, <1>6

\* The request is canceled.
LEMMA ExchangeCanceledKeeps == ClientInv /\ ExchangeCanceled => ClientInv'
<1> SUFFICES ASSUME ClientInv, ExchangeCanceled PROVE ClientInv'
  OBVIOUS
<1>0. conn' \in [reused : BOOLEAN, err : Kinds \union {"none"}]
  <2>1. conn \in [reused : BOOLEAN, err : Kinds \union {"none"}]
    BY DEF ClientInv, TypeInv, TypeOK
  <2> QED
    BY <2>1 DEF ExchangeCanceled, Kinds
<1> USE DEF ClientInv, ExchangeCanceled, healthy
<1>1. TypeInv'
  BY <1>0 DEF TypeInv, TypeOK
<1>2. RespInv'
  BY ClientFacts DEF RespInv, Attempting, Answered
<1>3. HeaderInv'
  BY DEF HeaderInv, HostHeaderStays
<1>4. CurrentInv'
  BY ClientFacts DEF CurrentInv, Writer
<1>5. AttemptInv'
  BY ClientFacts DEF AttemptInv, CurrentInv, repeatable, unread, Fresh, Composed
<1>6. OwnerInv'
  BY ClientFacts DEF OwnerInv, owned, lastResponseUsed, Attempting, Composed
<1> QED
  BY <1>1, <1>2, <1>3, <1>4, <1>5, <1>6

\* The writeLoop has ended, roundTrip reports the error.
LEMMA ExchangeFailsKeeps == ClientInv /\ ExchangeFails => ClientInv'
<1> SUFFICES ASSUME ClientInv, ExchangeFails PROVE ClientInv'
  OBVIOUS
<1> USE DEF ClientInv, ExchangeFails, broken
<1>1. TypeInv'
  <2>1. mapRoundTripError(writers[Writer]) \in {"canceled", "body", "closedIdle", "nothing", conn.err}
    BY DEF mapRoundTripError
  <2>2. conn' \in [reused : BOOLEAN, err : Kinds \union {"none"}]
    BY <2>1 DEF TypeInv, TypeOK, Kinds
  <2> QED
    BY <2>2, ClientFacts, SMTT(60) DEF TypeInv, TypeOK
<1>2. RespInv'
  BY ClientFacts DEF RespInv, Attempting, Answered
<1>3. HeaderInv'
  BY DEF HeaderInv, HostHeaderStays
<1>4. CurrentInv'
  <2>1. /\ conn'.err \in {"nothing", "read", "closedIdle"} => ~writers[Writer].bodyError
        /\ conn'.err = "nothing" => ~writers[Writer].wrote
    <3>1. /\ conn.err \in {"canceled", "closedIdle", "read", "other"}
          /\ conn'.err = mapRoundTripError(writers[Writer])
      BY DEF CurrentInv, TypeInv, TypeOK
    <3> QED
      BY <3>1 DEF mapRoundTripError
  <2> QED
    BY <2>1, ClientFacts DEF CurrentInv, Writer
<1>5. AttemptInv'
  BY ClientFacts DEF AttemptInv, CurrentInv, repeatable, unread, Fresh, Composed
<1>6. OwnerInv'
  BY ClientFacts DEF OwnerInv, owned, lastResponseUsed, Attempting, Composed
<1> QED
  BY <1>1, <1>2, <1>3, <1>4, <1>5, <1>6

\* The deadline passes.
LEMMA DeadlinePassesKeeps == ClientInv /\ DeadlinePasses => ClientInv'
<1> SUFFICES ASSUME ClientInv, DeadlinePasses PROVE ClientInv'
  OBVIOUS
<1> USE DEF ClientInv, DeadlinePasses, Expires
<1>1. TypeInv'
  BY ClientFacts DEF TypeInv, TypeOK
<1>2. RespInv'
  BY ClientFacts DEF RespInv, Attempting, Answered
<1>3. HeaderInv'
  BY DEF HeaderInv, HostHeaderStays
<1>4. CurrentInv'
  BY ClientFacts DEF CurrentInv, Writer
<1>5. AttemptInv'
  BY ClientFacts DEF AttemptInv, CurrentInv, repeatable, unread, Fresh, Composed
<1>6. OwnerInv'
  BY ClientFacts DEF OwnerInv, Writer, owned, lastResponseUsed, Attempting, Composed
<1> QED
  BY <1>1, <1>2, <1>3, <1>4, <1>5, <1>6

\* The caller cancels.
LEMMA CallerCancelsKeeps == ClientInv /\ CallerCancels => ClientInv'
<1> SUFFICES ASSUME ClientInv, CallerCancels PROVE ClientInv'
  OBVIOUS
<1> USE DEF ClientInv, CallerCancels, Expires
<1>1. TypeInv'
  BY ClientFacts DEF TypeInv, TypeOK
<1>2. RespInv'
  BY ClientFacts DEF RespInv, Attempting, Answered
<1>3. HeaderInv'
  BY DEF HeaderInv, HostHeaderStays
<1>4. CurrentInv'
  BY ClientFacts DEF CurrentInv, Writer
<1>5. AttemptInv'
  BY ClientFacts DEF AttemptInv, CurrentInv, repeatable, unread, Fresh, Composed
<1>6. OwnerInv'
  BY ClientFacts DEF OwnerInv, Writer, owned, lastResponseUsed, Attempting, Composed
<1> QED
  BY <1>1, <1>2, <1>3, <1>4, <1>5, <1>6

\* A new request of the redirect loop, with a new body if it resends one.
LEMMA NextRequestKeeps == ClientInv /\ NextRequest => ClientInv'
<1> SUFFICES ASSUME ClientInv, NextRequest PROVE ClientInv'
  OBVIOUS
<1> USE DEF ClientInv
<1>1. PICK host \in Hosts, reference \in References :
        /\ reference = "path" => host = req.host
        /\ via' = via \union {reference}
        /\ req' = [method  |-> redirect.method,
                   body    |-> IF resends THEN Len(bodies) + 1 ELSE 0,
                   host    |-> host,
                   custom  |-> hostHeader(reference),
                   cookies |-> IF isDomainOrSubdomain(host, req.host) THEN keptCookies ELSE {}]
  BY DEF NextRequest
<1>2. /\ pc = "redirect" /\ pc' = "check" /\ icookies' = keptCookies
      /\ bodies' = IF resends THEN Append(bodies, FALSE) ELSE bodies
      /\ set' = set \union last.cookies
      /\ UNCHANGED <<call, hops, redirect, check, sending, writers, conn, idle, resps, last,
                     timers, done, result, rewritten>>
  BY DEF NextRequest
<1>3. /\ bodies' \in Seq(BOOLEAN) /\ Len(bodies') = IF resends THEN Len(bodies) + 1 ELSE Len(bodies)
      /\ DOMAIN bodies' = 1..Len(bodies') /\ req'.body \in 0..Len(bodies')
      /\ \A b \in DOMAIN bodies : bodies'[b] = bodies[b]
      /\ req'.body # 0 => req'.body = Len(bodies) + 1 /\ ~bodies'[Len(bodies) + 1]
      /\ \A b \in DOMAIN bodies' : b \in DOMAIN bodies \/ b = req'.body
  <2>1. CASE resends
    BY <1>1, <1>2, <2>1, ClientFacts, AppendProperties
  <2>2. CASE ~resends
    BY <1>1, <1>2, <2>2, ClientFacts
  <2> QED
    BY <2>1, <2>2
<1>4. /\ icookies' \subseteq icookies /\ req'.cookies \subseteq icookies'
      /\ call.jar => icookies' = icookies \ last.cookies
  BY <1>1, <1>2 DEF keptCookies
<1>5. TypeInv'
  <2>1. /\ redirect.method \in {"GET", "POST"} /\ req.custom \in BOOLEAN
        /\ icookies \subseteq Cookies /\ last.cookies \subseteq Cookies
    BY DEF TypeInv, TypeOK
  <2>2. req' \in [method : {"GET", "POST"}, body : 0..Len(bodies'), host : Hosts,
                 custom : BOOLEAN, cookies : SUBSET Cookies]
    <3>1. req'.cookies \in SUBSET Cookies /\ hostHeader(reference) \in BOOLEAN
      BY <1>4, <2>1 DEF hostHeader
    <3> QED
      BY <1>1, <1>3, <2>1, <3>1
  <2>3. \A k \in DOMAIN writers :
          writers[k] \in [hop : 1..hops, method : {"GET", "POST"}, body : 0..Len(bodies'),
                          st : {"queued", "writing", "done"}, read : BOOLEAN, wrote : BOOLEAN,
                          bodyError : BOOLEAN]
    BY <1>3, ClientFacts, SMTT(60) DEF WriterRec
  <2>4. sending \in 0..Len(bodies') /\ set' \subseteq Cookies /\ icookies' \subseteq Cookies
        /\ via' \subseteq References
    BY <1>1, <1>2, <1>3, <1>4, <2>1, ClientFacts, SMTT(60) DEF TypeInv, TypeOK
  <2> QED
    BY <1>2, <1>3, <2>2, <2>3, <2>4, ZenonT(60) DEF TypeInv, TypeOK
<1>6. RespInv'
  BY <1>2 DEF RespInv, Attempting, Answered
<1>7. HeaderInv'
  <2>1. req'.custom <=> req.custom /\ reference # "absolute"
    BY <1>1 DEF hostHeader
  <2>2. req'.custom <=> call.custom /\ "absolute" \notin via'
    BY <1>1, <2>1 DEF HeaderInv, HostHeaderStays
  <2>3. req'.custom => req'.host = Home \/ "network" \in via'
    <3>1. CASE reference = "path"
      BY <1>1, <2>1, <3>1 DEF HeaderInv, HostHeaderStays
    <3>2. CASE reference = "network"
      BY <1>1, <3>2
    <3> QED
      BY <2>1, <3>1, <3>2 DEF References
  <2>4. call.jar => icookies' \cap set' = {} /\ req'.cookies \cap set' = {}
    BY <1>2, <1>4 DEF HeaderInv
  <2> QED
    BY <1>2, <2>2, <2>3, <2>4 DEF HeaderInv, HostHeaderStays
<1>8. CurrentInv'
  BY <1>2, ClientFacts DEF CurrentInv, Writer
<1>9. AttemptInv'
  <2>1. req'.body # 0 => (req'.body > sending /\ \A k \in DOMAIN writers : writers[k].body # req'.body)
    BY <1>3, ClientFacts, SMTT(60)
  <2> QED
    BY <1>2, <1>3, <2>1 DEF AttemptInv, repeatable, unread, Fresh, Composed
<1>10. OwnerInv'
  BY <1>2, <1>3, ClientFacts, ZenonT(60) DEF OwnerInv, owned, lastResponseUsed, Attempting, Composed
<1> QED
  BY <1>5, <1>6, <1>7, <1>8, <1>9, <1>10

\* The response is read a little and closed; the next request goes out or, with
\* an error of CheckRedirect, its body is closed.
LEMMA SlurpKeeps == ClientInv /\ Slurp => ClientInv'
<1> SUFFICES ASSUME ClientInv, Slurp PROVE ClientInv'
  OBVIOUS
<1> USE DEF ClientInv, Slurp, CloseResponse, Return
<1>b. /\ bodies' \in {bodies, closeBody(bodies, req.body)}
      /\ pc' = "returned" => bodies' = closeBody(bodies, req.body)
      /\ pc' # "returned" => bodies' = bodies /\ pc' = "send"
  OBVIOUS
<1>c. /\ bodies' \in Seq(BOOLEAN) /\ Len(bodies') = Len(bodies) /\ DOMAIN bodies' = DOMAIN bodies
      /\ pc' = "returned" /\ req.body # 0 => bodies'[req.body]
      /\ \A k \in DOMAIN bodies :
           bodies'[k] = (bodies[k] \/ (pc' = "returned" /\ k = req.body))
  BY <1>b, ClientFacts, CloseBodyFacts, SMTT(60)
<1>r. /\ resps' \in Seq(BOOLEAN) /\ Len(resps') = Len(resps) /\ DOMAIN resps' = DOMAIN resps
      /\ \A k \in DOMAIN resps : resps'[k] = (resps[k] /\ k # hops)
  BY ClientFacts, CloseResponseFacts
<1>1. TypeInv'
  BY ClientFacts, <1>c, <1>r, SMTT(60) DEF TypeInv, TypeOK
<1>2. RespInv'
  BY ClientFacts, <1>c, <1>r DEF RespInv, Attempting, Answered
<1>3. HeaderInv'
  BY DEF HeaderInv, HostHeaderStays
<1>4. CurrentInv'
  BY ClientFacts, <1>c DEF CurrentInv, Writer
<1>5. AttemptInv'
  BY ClientFacts, <1>b, <1>c DEF AttemptInv, repeatable, unread, Fresh, Composed
<1>6. OwnerInv'
  BY ClientFacts, <1>b, <1>c, <1>r, SMTT(60) DEF OwnerInv, owned, lastResponseUsed, Attempting, Composed
<1> QED
  BY <1>1, <1>2, <1>3, <1>4, <1>5, <1>6

\* A hop begins: no attempt of it has been made.
LEMMA SendKeeps == ClientInv /\ Send => ClientInv'
<1> SUFFICES ASSUME ClientInv, Send PROVE ClientInv'
  OBVIOUS
<1> USE DEF ClientInv, Send
<1>1. TypeInv'
  <2>1. \A k \in DOMAIN writers :
          writers[k] \in [hop : 1..(hops + 1), method : {"GET", "POST"}, body : 0..Len(bodies),
                          st : {"queued", "writing", "done"}, read : BOOLEAN, wrote : BOOLEAN,
                          bodyError : BOOLEAN]
    BY ClientFacts, SMTT(60) DEF WriterRec
  <2>2. hops + 1 \in Nat /\ timers' \subseteq 1..(hops + 1)
    BY ClientFacts DEF TypeInv, TypeOK
  <2> QED
    BY <2>1, <2>2, ClientFacts, SMTT(60) DEF TypeInv, TypeOK
<1>2. RespInv'
  BY ClientFacts DEF RespInv, Attempting, Answered
<1>3. HeaderInv'
  BY DEF HeaderInv, HostHeaderStays
<1>4. CurrentInv'
  BY ClientFacts DEF CurrentInv, Writer
<1>5. AttemptInv'
  BY ClientFacts DEF AttemptInv, repeatable, unread, Fresh, Composed
<1>6. OwnerInv'
  BY ClientFacts DEF OwnerInv, owned, lastResponseUsed, Attempting, Composed
<1> QED
  BY <1>1, <1>2, <1>3, <1>4, <1>5, <1>6

\* An attempt begins on a connection: its writer is behind the others.
LEMMA GetConnKeeps == ClientInv /\ GetConn => ClientInv'
<1> SUFFICES ASSUME ClientInv, GetConn PROVE ClientInv'
  OBVIOUS
<1> USE DEF ClientInv, GetConn
<1> DEFINE new == [hop |-> hops, method |-> req.method, body |-> sending, st |-> "queued",
                   read |-> FALSE, wrote |-> FALSE, bodyError |-> FALSE]
<1>0. hops > 0 /\ hops \in 1..hops
  BY ClientFacts DEF RespInv, Attempting
<1>1. /\ writers' \in Seq(WriterRec) /\ Len(writers') = Len(writers) + 1
      /\ DOMAIN writers' = 1..(Len(writers) + 1) /\ Writer' = Len(writers) + 1
      /\ \A k \in DOMAIN writers : writers'[k] = writers[k]
      /\ writers'[Len(writers) + 1] = new
  <2>1. writers \in Seq(WriterRec) /\ new \in WriterRec
    BY ClientFacts, <1>0 DEF TypeInv, TypeOK, WriterRec
  <2>2. writers' = Append(writers, new)
    OBVIOUS
  <2> QED
    BY <2>1, <2>2, ClientFacts, AppendProperties DEF Writer
<1>2. \A k \in DOMAIN writers' : k \in DOMAIN writers \/ k = Len(writers) + 1
  BY <1>1, ClientFacts
<1>3. /\ conn'.err = "none" /\ conn'.reused \in BOOLEAN /\ idle' \in 0..Pooled
      /\ conn' \in [reused : BOOLEAN, err : Kinds \union {"none"}]
  <2>1. idle \in 0..Pooled /\ Pooled \in Nat
    BY ClientDoAssumption DEF TypeInv, TypeOK
  <2> QED
    BY <2>1
<1>4. TypeInv'
  <2>1. \A k \in DOMAIN writers' :
          writers'[k] \in [hop : 1..hops, method : {"GET", "POST"}, body : 0..Len(bodies),
                           st : {"queued", "writing", "done"}, read : BOOLEAN,
                           wrote : BOOLEAN, bodyError : BOOLEAN]
    <3>1. new \in [hop : 1..hops, method : {"GET", "POST"}, body : 0..Len(bodies),
                   st : {"queued", "writing", "done"}, read : BOOLEAN,
                   wrote : BOOLEAN, bodyError : BOOLEAN]
      BY <1>0, ClientFacts DEF TypeInv, TypeOK
    <3> QED
      BY <1>1, <1>2, <3>1, SMTT(60) DEF TypeInv, TypeOK
  <2> QED
    BY <1>1, <1>3, <2>1, SMTT(60) DEF TypeInv, TypeOK
<1>5. RespInv'
  BY DEF RespInv, Attempting, Answered
<1>6. HeaderInv'
  BY DEF HeaderInv, HostHeaderStays
<1>7. CurrentInv'
  <2>1. sending # 0 => ~bodies[sending]
    BY DEF AttemptInv, Fresh
  <2>2. \A k \in DOMAIN writers : writers[k].st # "queued"
    BY DEF CurrentInv
  <2> QED
    BY <1>1, <1>2, <1>3, <2>1, <2>2, ClientFacts, SMTT(60) DEF CurrentInv
<1>8. AttemptInv'
  <2>1. \A k \in DOMAIN writers : (repeatable(k)' <=> repeatable(k)) /\ (unread(k)' <=> unread(k))
    BY <1>1 DEF repeatable, unread
  <2>2. \A i, j \in DOMAIN writers' : i < j =>
          /\ writers'[i].hop = writers'[j].hop
               => repeatable(i)' /\ writers'[i].method = writers'[j].method
          /\ writers'[i].body = writers'[j].body /\ writers'[j].body # 0 => unread(i)'
    <3> SUFFICES ASSUME NEW i \in DOMAIN writers', NEW j \in DOMAIN writers', i < j
                 PROVE  /\ writers'[i].hop = writers'[j].hop
                             => repeatable(i)' /\ writers'[i].method = writers'[j].method
                        /\ writers'[i].body = writers'[j].body /\ writers'[j].body # 0
                             => unread(i)'
      OBVIOUS
    <3>1. i \in DOMAIN writers
      BY <1>1, ClientFacts
    <3>2. CASE j \in DOMAIN writers
      BY <1>1, <2>1, <3>1, <3>2 DEF AttemptInv
    <3>3. CASE j = Len(writers) + 1
      BY <1>1, <2>1, <3>1, <3>3 DEF AttemptInv, Fresh
    <3> QED
      BY <1>2, <3>2, <3>3
  <2> QED
    BY <2>2 DEF AttemptInv, Composed
<1>9. OwnerInv'
  <2>1. ASSUME NEW b \in DOMAIN bodies, ~bodies[b] PROVE owned(b)'
    <3>1. owned(b)
      BY <2>1 DEF OwnerInv
    <3>2. CASE \E k \in DOMAIN writers : writers[k].body = b /\ writers[k].st # "done"
      <4>1. PICK k \in DOMAIN writers : writers[k].body = b /\ writers[k].st # "done"
        BY <3>2
      <4>2. k \in DOMAIN writers' /\ writers'[k] = writers[k]
        BY <1>1, <4>1, ClientFacts
      <4> QED
        BY <4>1, <4>2 DEF owned
    <3>3. CASE b = sending
      BY <3>3 DEF owned, Attempting
    <3> QED
      BY <3>1, <3>2, <3>3 DEF owned, lastResponseUsed, Composed
  <2>2. writers'[Writer'].st # "done"
    BY <1>1
  <2> QED
    BY <2>1, <2>2 DEF OwnerInv
<1> QED
  BY <1>4, <1>5, <1>6, <1>7, <1>8, <1>9

\* The request is sent again with a body that starts again; the old one is closed.
LEMMA RetryRewindsKeeps == ClientInv /\ RetryRewinds => ClientInv'
<1> SUFFICES ASSUME ClientInv, RetryRewinds PROVE ClientInv'
  OBVIOUS
<1> USE DEF ClientInv, RetryRewinds
<1> DEFINE old == closeBody(bodies, sending)
<1>1. /\ old \in Seq(BOOLEAN) /\ Len(old) = Len(bodies) /\ sending # 0 /\ old[sending]
      /\ \A k \in DOMAIN bodies : old[k] = (bodies[k] \/ k = sending)
  BY ClientFacts, CloseBodyFacts DEF needsRewind
<1>2. /\ bodies' \in Seq(BOOLEAN) /\ Len(bodies') = Len(bodies) + 1
      /\ DOMAIN bodies' = 1..(Len(bodies) + 1) /\ ~bodies'[Len(bodies) + 1]
      /\ \A k \in DOMAIN bodies : bodies'[k] = (bodies[k] \/ k = sending)
      /\ \A k \in DOMAIN bodies' : k \in DOMAIN bodies \/ k = Len(bodies) + 1
  <2>1. bodies' = Append(old, FALSE)
    OBVIOUS
  <2> QED
    BY <1>1, <2>1, ClientFacts, AppendProperties, SMTT(60)
<1>3. /\ Writer \in DOMAIN writers /\ writers[Writer].hop = hops
      /\ writers[Writer].method = req.method
      /\ writers[Writer].st = "done" /\ ~writers[Writer].bodyError
      /\ writers[Writer].wrote => req.method = "GET" \/ call.key
  BY ClientFacts DEF CurrentInv, shouldRetryRequest, isReplayable
<1>4. TypeInv'
  <2>1. \A k \in DOMAIN writers :
          writers[k] \in [hop : 1..hops, method : {"GET", "POST"}, body : 0..(Len(bodies) + 1),
                          st : {"queued", "writing", "done"}, read : BOOLEAN, wrote : BOOLEAN,
                          bodyError : BOOLEAN]
    BY ClientFacts, SMTT(60) DEF WriterRec
  <2>2. req \in [method : {"GET", "POST"}, body : 0..(Len(bodies) + 1), host : Hosts,
                custom : BOOLEAN, cookies : SUBSET Cookies]
    BY ClientFacts, SMTT(60) DEF TypeInv, TypeOK
  <2>3. sending' \in 0..(Len(bodies) + 1)
    BY ClientFacts
  <2> QED
    BY <1>2, <2>1, <2>2, <2>3, SMTT(60) DEF TypeInv, TypeOK, NoConn
<1>5. RespInv'
  BY DEF RespInv, Attempting, Answered
<1>6. HeaderInv'
  BY DEF HeaderInv, HostHeaderStays
<1>7. CurrentInv'
  BY DEF CurrentInv
<1>8. AttemptInv'
  <2>1. ASSUME NEW i \in DOMAIN writers, writers[i].hop = hops
        PROVE  repeatable(i) /\ writers[i].method = req.method
    <3>1. i = Writer \/ i < Writer
      BY ClientFacts
    <3> QED
      BY <1>3, <2>1, <3>1 DEF AttemptInv, repeatable
  <2>2. \A i \in DOMAIN writers : writers[i].body # sending'
    BY ClientFacts, SMTT(60)
  <2> QED
    BY <1>2, <2>1, <2>2 DEF AttemptInv, repeatable, unread, Fresh, Composed
<1>9. OwnerInv'
  BY <1>2, ClientFacts, ZenonT(60) DEF OwnerInv, owned, lastResponseUsed, Attempting, Composed
<1> QED
  BY <1>4, <1>5, <1>6, <1>7, <1>8, <1>9

\* The server answers: the body is closed or the writeLoop still has it.
LEMMA ResponseArrivesKeeps == ClientInv /\ ResponseArrives => ClientInv'
<1> SUFFICES ASSUME ClientInv, ResponseArrives PROVE ClientInv'
  OBVIOUS
<1> USE DEF ClientInv, ResponseArrives, healthy
<1>1. /\ resps' \in Seq(BOOLEAN) /\ Len(resps') = Len(resps) + 1
      /\ DOMAIN resps' = 1..(Len(resps) + 1) /\ resps'[Len(resps) + 1]
      /\ \A h \in DOMAIN resps : resps'[h] = resps[h]
      /\ \A h \in DOMAIN resps' : h \in DOMAIN resps \/ h = Len(resps) + 1
  BY ClientFacts, AppendProperties
<1>2. Writer \in DOMAIN writers /\ writers[Writer].body = sending /\ writers[Writer].wrote
  BY ClientFacts DEF CurrentInv
<1>3. TypeInv'
  <2>1. last' \in [code : Codes, cookies : SUBSET Cookies, arrives : BOOLEAN]
    BY DEF Codes
  <2> QED
    BY <1>1, <2>1, SMTT(60) DEF TypeInv, TypeOK
<1>4. RespInv'
  BY <1>1, ClientFacts DEF RespInv, Attempting, Answered
<1>5. HeaderInv'
  BY DEF HeaderInv, HostHeaderStays
<1>6. CurrentInv'
  BY <1>2 DEF CurrentInv, Writer
<1>7. AttemptInv'
  BY DEF AttemptInv, repeatable, unread, Composed
<1>8. OwnerInv'
  <2> SUFFICES ASSUME NEW b \in DOMAIN bodies, ~bodies[b] PROVE owned(b)'
    BY DEF OwnerInv
  <2>1. owned(b) /\ b # 0
    BY ClientFacts DEF OwnerInv
  <2>2. b = sending => writers[Writer].st # "done"
    BY <2>1 DEF OwnerInv
  <2> QED
    BY <1>2, <2>1, <2>2 DEF owned, lastResponseUsed, Attempting, Composed
<1> QED
  BY <1>3, <1>4, <1>5, <1>6, <1>7, <1>8

-----------------------------------------------------------------------------
\* Every step keeps the invariant.
LEMMA Preservation == ClientInv /\ [Next]_vars => ClientInv'
<1> SUFFICES ASSUME ClientInv, [Next]_vars PROVE ClientInv'
  OBVIOUS
<1>1. CASE \/ LocationMissing \/ LocationInvalid \/ GetBodyFails \/ NextRequest
           \/ CheckRedirectLast \/ CheckRedirect \/ Slurp \/ Send
  BY <1>1, LocationMissingKeeps, LocationInvalidKeeps, GetBodyFailsKeeps, NextRequestKeeps,
     CheckRedirectLastKeeps, CheckRedirectKeeps, SlurpKeeps, SendKeeps
<1>2. CASE \/ RoundTripRefuses \/ GetConn \/ GiveUp \/ Retry \/ RetryRewinds
           \/ RetryCannotRewind \/ ResponseReturned \/ ResponseRedirects \/ CallerCloses
  BY <1>2, RoundTripRefusesKeeps, GetConnKeeps, GiveUpKeeps, RetryKeeps, RetryRewindsKeeps,
     RetryCannotRewindKeeps, ResponseReturnedKeeps, ResponseRedirectsKeeps, CallerClosesKeeps
<1>3. CASE \/ WriteLoopTakes \/ WriteLoopReads \/ WriteLoopFlushes \/ WriteLoopEnds
           \/ WriteLoopFails \/ WriteLoopRefuses \/ WriteLoopBodyFails \/ WriteLoopQuits
  <2>1. PICK i \in DOMAIN writers : Moves(i)
    BY <1>3, WriteLoopMoves DEF ClientInv
  <2> QED
    BY <2>1, MovesKeeps
<1>4. CASE \/ ConnBreaks \/ ExchangeCanceled \/ ExchangeFails \/ ResponseArrives
           \/ DeadlinePasses \/ CallerCancels
  BY <1>4, ConnBreaksKeeps, ExchangeCanceledKeeps, ExchangeFailsKeeps, ResponseArrivesKeeps,
     DeadlinePassesKeeps, CallerCancelsKeeps
<1>5. CASE UNCHANGED vars
  BY <1>5, Stuttering
<1> QED
  BY <1>1, <1>2, <1>3, <1>4, <1>5 DEF Next

\* Where each body, attempt and response of a call of Do stands (Client.do,
\* Transport.roundTrip, persistConn.writeLoop): the invariant behind the others.
THEOREM Invariance == Spec => []ClientInv
<1>1. Init => ClientInv
  BY InitKeeps
<1> QED
  BY <1>1, Preservation, PTL DEF Spec

\* "The request Body, if non-nil, will be closed by the underlying Transport, even
\* on errors": whoever of do, roundTrip and a writeLoop had it last has closed it.
THEOREM AllBodiesClosed == Spec => []BodiesClosed
<1>1. ClientInv => BodiesClosed
  BY DEF ClientInv, OwnerInv, owned, BodiesClosed, settled, Attempting, Composed
<1> QED
  BY <1>1, Invariance, PTL

\* No attempt of roundTrip starts on a body that was read from or closed.
THEOREM BodiesSentFromStart == Spec => []SentFromStart
<1>1. ClientInv => SentFromStart
  BY DEF ClientInv, AttemptInv, CurrentInv, unread, SentFromStart
<1> QED
  BY <1>1, Invariance, PTL

\* shouldRetryRequest and mapRoundTripError: an attempt follows another only when
\* that one is over, its body had no error and it may be repeated.
THEOREM AttemptsStayApart == Spec => []AttemptsApart
<1>1. ClientInv => AttemptsApart
  BY DEF ClientInv, AttemptInv, repeatable, AttemptsApart
<1> QED
  BY <1>1, Invariance, PTL

\* do closes each response but the one it returns and stops each timer but the one
\* of a response that is open.
THEOREM NothingLeftBehind == Spec => []NothingLeft
<1>1. ClientInv => NothingLeft
  <2> SUFFICES ASSUME ClientInv PROVE NothingLeft
    OBVIOUS
  <2>1. \A h \in DOMAIN resps : resps[h] => h = Len(resps)
    BY ClientFacts DEF ClientInv, RespInv, Answered
  <2>2. pc = "returned" /\ result # "response" => \A h \in DOMAIN resps : ~resps[h]
    BY DEF ClientInv, RespInv, Answered
  <2>3. ASSUME NEW h \in timers PROVE IF h <= Len(resps) THEN resps[h] ELSE pc # "returned"
    <3>1. h = hops /\ h \in 1..hops
      BY DEF ClientInv, RespInv, TypeInv, TypeOK
    <3> QED
      BY <3>1, ClientFacts DEF ClientInv, RespInv, Attempting
  <2> QED
    BY <2>1, <2>2, <2>3 DEF NothingLeft
<1> QED
  BY <1>1, Invariance, PTL

\* do and makeHeadersCopier: the caller's Host header is kept exactly along relative
\* Locations, and reaches another host by one that names it, //host/path, only; the
\* cookies that a response changed are not sent again.
THEOREM HeadersStayHome == Spec => []HeadersStay
<1>1. ClientInv => HeadersStay
  BY DEF ClientInv, TypeInv, HeaderInv, HeadersStay, MutatedCookiesOmitted
<1> QED
  BY <1>1, Invariance, PTL
=============================================================================
