-------------------------- MODULE ConnReaderProofs --------------------------
(***************************************************************************)
(* Proofs about ConnReader, for requests of any number and length and a    *)
(* buffer of any size.  The bytes are followed by their numbers (Numbered) *)
(* rather than as concatenated sequences; each action keeps the four parts *)
(* of the invariant, one step for each part it can disturb.                *)
(***************************************************************************)
EXTENDS ConnReader, SequenceTheorems, TLAPS

(* Every byte read from the socket is where its number says: the taken     *)
(* ones first, then the buffer, then the one held back or just read.       *)
Numbered ==
  /\ \A i \in 1..Len(taken) : taken[i] = i
  /\ \A i \in 1..Len(bufr) : bufr[i] = Len(taken) + i
  /\ cr.hasByte => cr.byte = Len(taken) + Len(bufr) + 1
  /\ read = Len(taken) + Len(bufr) + (IF cr.hasByte \/ bg = "byte" THEN 1 ELSE 0)

(* The goroutine of the background read lives exactly while inRead, and is *)
(* not started on top of a byte held back.                                 *)
OneReader ==
  /\ cr.inRead <=> bg # "none"
  /\ cr.hasByte => bg = "none"

(* Where conn.serve is when a body is unread, and, without full duplex,    *)
(* when the background read may run.                                       *)
Phases ==
  /\ pc \in {"body", "drain"} => left > 0
  /\ pc \in {"hijacked", "owned", "lost"} => ~cr.inRead
  /\ ~duplex => /\ pc # "panic"
                /\ cr.inRead => left = 0 /\ pc \notin {"next", "closing"}
                /\ pc \in {"abort", "wait", "closing"} => left = 0

(* A read times out only because abortPendingRead asked for it, and fails  *)
(* only when the client is gone.                                           *)
Aborts ==
  /\ deadline = "past" => pc \in {"wait", "hijackwait"}
  /\ (bg = "read" /\ deadline = "past") \/ bg = "timeout" => cr.aborted
  /\ bg = "error" \/ notified => gone

IInv == TypeOK /\ Numbered /\ OneReader /\ Phases /\ Aborts

-----------------------------------------------------------------------------
\* A buffer behind another one.
LEMMA Behind ==
  ASSUME NEW s \in Seq(Nat), NEW t \in Seq(Nat)
  PROVE  /\ s \o t \in Seq(Nat) /\ Len(s \o t) = Len(s) + Len(t)
         /\ \A i \in 1..(Len(s) + Len(t)) :
              (s \o t)[i] = IF i <= Len(s) THEN s[i] ELSE t[i - Len(s)]
BY ConcatProperties, SMTT(60)

LEMMA Regrouped ==
  ASSUME NEW s \in Seq(Nat), NEW t \in Seq(Nat), NEW u \in Seq(Nat)
  PROVE  s \o t \o u = s \o (t \o u)
BY ConcatAssociative, SMTT(60)

\* Nothing has been read at first.
LEMMA InitInv == Init => IInv
<1> SUFFICES ASSUME Init PROVE IInv
  OBVIOUS
<1> USE DEF Init
<1>1. TypeOK
  <2>1. 0 \in 0..read /\ 0 \in 0..arrived /\ 0 \in 0..Len(Bodies)
    BY ConnReaderAssumption
  <2>2. cr \in [hasByte : BOOLEAN, byte : 0..read, inRead : BOOLEAN, aborted : BOOLEAN]
    BY <2>1
  <2>3. <<>> \in Seq(Nat) /\ Len(<<>>) = 0
    OBVIOUS
  <2>4. Len(bufr) <= BufCap
    BY <2>3, ConnReaderAssumption
  <2>5. arrived \in Nat /\ read \in 0..arrived /\ req \in 0..Len(Bodies) /\ left \in Nat
    BY <2>1
  <2> QED
    BY <2>2, <2>3, <2>4, <2>5 DEF TypeOK
<1>2. Numbered /\ OneReader /\ Phases /\ Aborts
  BY DEF Numbered, OneReader, Phases, Aborts
<1> QED
  BY <1>1, <1>2 DEF IInv

\* A byte that goes from the buffer to its reader keeps its number.
LEMMA ByteTaken ==
  ASSUME TypeOK, Numbered, bufr # <<>>, taken' = Append(taken, bufr[1]), bufr' = Tail(bufr),
         UNCHANGED read, cr'.hasByte = cr.hasByte, cr'.byte = cr.byte,
         bg' = "byte" <=> bg = "byte"
  PROVE  /\ Numbered'
         /\ bufr' \in Seq(Nat) /\ Len(bufr') <= BufCap /\ taken' \in Seq(Nat)
<1> USE DEF TypeOK
<1>1. /\ Len(bufr) \in Nat /\ Len(bufr) > 0 /\ Len(taken) \in Nat
      /\ bufr[1] = Len(taken) + 1
  BY SMTT(60) DEF Numbered
<1>2. /\ bufr' \in Seq(Nat) /\ Len(bufr') = Len(bufr) - 1
      /\ \A i \in 1..Len(bufr') : bufr'[i] = bufr[i + 1]
  BY <1>1
<1>3. /\ taken' \in Seq(Nat) /\ Len(taken') = Len(taken) + 1
      /\ \A i \in 1..Len(taken) : taken'[i] = taken[i]
      /\ taken'[Len(taken) + 1] = bufr[1]
  BY <1>1, SMTT(60)
<1>4. \A i \in 1..Len(taken') : taken'[i] = i
  BY <1>1, <1>3, SMTT(60) DEF Numbered
<1>5. \A i \in 1..Len(bufr') : bufr'[i] = Len(taken') + i
  BY <1>1, <1>2, <1>3 DEF Numbered
<1>6. Numbered'
  BY <1>1, <1>2, <1>3, <1>4, <1>5, SMTT(60) DEF Numbered
<1> QED
  BY <1>1, <1>2, <1>3, <1>6, ConnReaderAssumption

\* startBackgroundRead: what it may change, and that it keeps one reader.
LEMMA ReadStarted ==
  ASSUME IInv, NEW next, StartBackgroundRead(next)
  PROVE  /\ cr' \in [hasByte : BOOLEAN, byte : 0..read, inRead : BOOLEAN, aborted : BOOLEAN]
         /\ cr'.hasByte = cr.hasByte /\ cr'.byte = cr.byte /\ cr'.aborted = cr.aborted
         /\ bg' \in {bg, "read"} /\ (bg' = "byte" <=> bg = "byte")
         /\ deadline' \in {deadline, "none"} /\ (bg' # bg => deadline' = "none")
         /\ cr'.inRead <=> bg' # "none"
         /\ cr'.hasByte => bg' = "none"
         /\ pc' = IF cr.inRead THEN "panic" ELSE next
  BY DEF IInv, TypeOK, OneReader, StartBackgroundRead

\* A byte reaches the socket.
LEMMA ArriveKeeps == IInv /\ Arrive => IInv'
<1> SUFFICES ASSUME IInv, Arrive PROVE IInv'
  OBVIOUS
<1> USE DEF IInv, Arrive
<1>1. TypeOK'
  BY ConnReaderAssumption DEF TypeOK
<1>2. Numbered'
  BY DEF Numbered, TypeOK
<1>3. OneReader'
  BY DEF TypeOK, OneReader
<1>4. Phases'
  BY DEF TypeOK, OneReader, Phases
<1>5. Aborts'
  BY DEF TypeOK, OneReader, Aborts
<1> QED
  BY <1>1, <1>2, <1>3, <1>4, <1>5

\* The client closes its side.
LEMMA ClientClosesKeeps == IInv /\ ClientCloses => IInv'
<1> SUFFICES ASSUME IInv, ClientCloses PROVE IInv'
  OBVIOUS
<1> USE DEF IInv, ClientCloses
<1>1. TypeOK'
  BY ConnReaderAssumption DEF TypeOK
<1>2. Numbered'
  BY DEF Numbered, TypeOK
<1>3. OneReader'
  BY DEF TypeOK, OneReader
<1>4. Phases'
  BY DEF TypeOK, OneReader, Phases
<1>5. Aborts'
  BY DEF TypeOK, OneReader, Aborts
<1> QED
  BY <1>1, <1>2, <1>3, <1>4, <1>5

\* The background read gets the next byte.
LEMMA BackgroundByteKeeps == IInv /\ BackgroundByte => IInv'
<1> SUFFICES ASSUME IInv, BackgroundByte PROVE IInv'
  OBVIOUS
<1> USE DEF IInv, BackgroundByte
<1>1. TypeOK'
  BY DEF TypeOK, Readable
<1>2. Numbered'
  BY DEF TypeOK, OneReader, Numbered
<1>3. OneReader'
  BY DEF TypeOK, OneReader
<1>4. Phases'
  BY DEF TypeOK, Phases
<1>5. Aborts'
  BY DEF TypeOK, Aborts
<1> QED
  BY <1>1, <1>2, <1>3, <1>4, <1>5

\* It fails: at a deadline that was set for it, or at the end.
LEMMA BackgroundFailsKeeps == IInv /\ BackgroundFails => IInv'
<1> SUFFICES ASSUME IInv, BackgroundFails PROVE IInv'
  OBVIOUS
<1> USE DEF IInv, BackgroundFails
<1>1. TypeOK'
  BY ConnReaderAssumption DEF TypeOK, AtEOF
<1>2. Numbered'
  BY DEF Numbered, TypeOK, AtEOF
<1>3. OneReader'
  BY DEF TypeOK, OneReader, AtEOF
<1>4. Phases'
  BY DEF TypeOK, OneReader, Phases, AtEOF
<1>5. Aborts'
  BY DEF TypeOK, OneReader, Aborts, AtEOF
<1> QED
  BY <1>1, <1>2, <1>3, <1>4, <1>5

\* The byte is held back under cr.mu, or the handler is told.
LEMMA BackgroundDoneKeeps == IInv /\ BackgroundDone => IInv'
<1> SUFFICES ASSUME IInv, BackgroundDone PROVE IInv'
  OBVIOUS
<1> USE DEF IInv, BackgroundDone
<1>1. TypeOK'
  BY DEF TypeOK
<1>2. Numbered'
  BY DEF TypeOK, OneReader, Numbered
<1>3. OneReader'
  BY DEF TypeOK, OneReader
<1>4. Phases'
  BY DEF TypeOK, OneReader, Phases
<1>5. Aborts'
  BY DEF TypeOK, OneReader, Aborts
<1> QED
  BY <1>1, <1>2, <1>3, <1>4, <1>5

\* Read fills the buffer from the byte held back or from the socket.
LEMMA FillKeeps == IInv /\ Fill => IInv'
<1> SUFFICES ASSUME IInv, Fill PROVE IInv'
  OBVIOUS
<1> USE DEF IInv
<1>0. /\ bufr = <<>> /\ pc \in {"next", "body", "drain", "closing"}
      /\ pc' = IF cr.inRead THEN "panic" ELSE pc
      /\ UNCHANGED <<arrived, gone, deadline, bg, req, left, duplex, taken, notified>>
  BY DEF Fill
<1>1. CASE cr.inRead
  <2>1. UNCHANGED <<read, bufr, cr>> /\ pc' = "panic" /\ duplex
    BY <1>0, <1>1 DEF Fill, Phases, TypeOK
  <2> QED
    BY <1>0, <2>1 DEF TypeOK, Numbered, OneReader, Phases, Aborts
<1>2. CASE ~cr.inRead /\ cr.hasByte
  <2>1. /\ bufr' = <<cr.byte>> /\ cr' = [cr EXCEPT !.hasByte = FALSE]
        /\ UNCHANGED <<read, pc>>
    BY <1>0, <1>2 DEF Fill
  <2>2. bufr' \in Seq(Nat) /\ Len(bufr') = 1 /\ bufr'[1] = cr.byte
    BY <2>1 DEF TypeOK
  <2>3. TypeOK'
    <3>1. cr' \in [hasByte : BOOLEAN, byte : 0..read, inRead : BOOLEAN, aborted : BOOLEAN]
      BY <2>1 DEF TypeOK
    <3> QED
      BY <1>0, <2>1, <2>2, <3>1, ConnReaderAssumption DEF TypeOK
  <2>4. Numbered'
    BY <1>0, <1>2, <2>1, <2>2 DEF TypeOK, OneReader, Numbered
  <2>5. OneReader' /\ Phases' /\ Aborts'
    BY <1>0, <2>1 DEF TypeOK, OneReader, Phases, Aborts
  <2> QED
    BY <2>3, <2>4, <2>5
<1>3. CASE ~cr.inRead /\ ~cr.hasByte
  <2>1. UNCHANGED <<cr, pc>>
    BY <1>0, <1>3 DEF Fill
  <2>2. PICK n \in 1..Room : bufr' = [i \in 1..n |-> read + i] /\ read' = read + n
    BY <1>3 DEF Fill
  <2>3. n \in Nat /\ n <= BufCap /\ read + n <= arrived
    BY ConnReaderAssumption DEF Room, TypeOK
  <2>4. bufr' \in Seq(Nat) /\ Len(bufr') = n /\ \A i \in 1..n : bufr'[i] = read + i
    BY <2>2, <2>3 DEF TypeOK
  <2>5. TypeOK'
    BY <1>0, <2>1, <2>2, <2>3, <2>4, ConnReaderAssumption DEF TypeOK
  <2>6. Numbered'
    <3>1. bg = "none" /\ Len(bufr) = 0 /\ Len(taken) \in Nat
      BY <1>0, <1>3 DEF TypeOK, OneReader
    <3>2. read = Len(taken)
      BY <1>3, <3>1 DEF Numbered
    <3> QED
      BY <1>0, <1>3, <2>1, <2>2, <2>3, <2>4, <3>1, <3>2 DEF Numbered
  <2>7. OneReader' /\ Phases' /\ Aborts'
    BY <1>0, <2>1 DEF OneReader, Phases, Aborts
  <2> QED
    BY <2>5, <2>6, <2>7
<1> QED
  BY <1>1, <1>2, <1>3 DEF TypeOK

\* Read fails because the client is gone.
LEMMA FillFailsKeeps == IInv /\ FillFails => IInv'
<1> SUFFICES ASSUME IInv, FillFails PROVE IInv'
  OBVIOUS
<1> USE DEF IInv, FillFails
<1>1. TypeOK'
  BY ConnReaderAssumption DEF TypeOK, AtEOF, Readable
<1>2. Numbered'
  BY DEF Numbered, TypeOK, AtEOF, Readable
<1>3. OneReader'
  BY DEF TypeOK, OneReader, AtEOF, Readable
<1>4. Phases'
  BY DEF TypeOK, OneReader, Phases, AtEOF, Readable
<1>5. Aborts'
  BY DEF TypeOK, OneReader, Aborts, AtEOF, Readable
<1> QED
  BY <1>1, <1>2, <1>3, <1>4, <1>5

\* readRequest takes the head; a request without body starts the read.
LEMMA ReadRequestKeeps == IInv /\ ReadRequest => IInv'
<1> SUFFICES ASSUME IInv, ReadRequest PROVE IInv'
  OBVIOUS
<1> USE DEF IInv
<1>1. /\ pc = "next" /\ bufr # <<>> /\ req < Len(Bodies) /\ req' = req + 1
      /\ left' = Bodies[req + 1] /\ taken' = Append(taken, bufr[1]) /\ bufr' = Tail(bufr)
      /\ notified' = FALSE /\ UNCHANGED <<arrived, gone, read, duplex>>
  BY DEF ReadRequest
<1>2. req' \in 0..Len(Bodies) /\ left' \in Nat
  BY <1>1, ConnReaderAssumption, SMTT(60) DEF TypeOK
<1>3. /\ cr' \in [hasByte : BOOLEAN, byte : 0..read, inRead : BOOLEAN, aborted : BOOLEAN]
      /\ cr'.hasByte = cr.hasByte /\ cr'.byte = cr.byte /\ cr'.aborted = cr.aborted
      /\ bg' \in {bg, "read"} /\ (bg' = "byte" <=> bg = "byte")
      /\ deadline' \in {deadline, "none"} /\ (bg' # bg => deadline' = "none")
      /\ cr'.inRead <=> bg' # "none"
      /\ cr'.hasByte => bg' = "none"
      /\ pc' = IF left' = 0 /\ cr.inRead THEN "panic" ELSE "handler"
      /\ left' # 0 => UNCHANGED <<cr, bg>>
  <2>1. CASE left' = 0
    <3>1. StartBackgroundRead("handler")
      BY <2>1 DEF ReadRequest
    <3> QED
      BY <2>1, <3>1, ReadStarted
  <2>2. CASE left' # 0
    BY <2>2 DEF ReadRequest, TypeOK, OneReader
  <2> QED
    BY <2>1, <2>2
<1>4. Numbered' /\ bufr' \in Seq(Nat) /\ Len(bufr') <= BufCap /\ taken' \in Seq(Nat)
  BY <1>1, <1>3, ByteTaken
<1>5. TypeOK'
  BY <1>1, <1>2, <1>3, <1>4 DEF TypeOK
<1>6. OneReader'
  BY <1>3 DEF OneReader
<1>7. Phases'
  BY <1>1, <1>2, <1>3 DEF TypeOK, Phases
<1>8. Aborts'
  BY <1>1, <1>3 DEF TypeOK, Aborts
<1> QED
  BY <1>4, <1>5, <1>6, <1>7, <1>8

\* body.Read gives a byte; its last one starts the background read.
LEMMA TakeBodyKeeps ==
  ASSUME IInv, NEW next \in {"handler", "drain", "abort", "closing"}, TakeBody(next),
         \/ pc = "body" /\ next = "handler"
         \/ pc = "drain" /\ next = IF left = 1 THEN "abort" ELSE "drain"
         \/ pc = "closing" /\ next = "closing"
  PROVE  IInv'
<1> USE DEF IInv
<1>1. /\ bufr # <<>> /\ left > 0 /\ taken' = Append(taken, bufr[1]) /\ bufr' = Tail(bufr)
      /\ left' = left - 1 /\ UNCHANGED <<arrived, gone, read, req, duplex, notified>>
  BY DEF TakeBody
<1>2. left' \in Nat
  BY <1>1 DEF TypeOK
<1>3. /\ cr' \in [hasByte : BOOLEAN, byte : 0..read, inRead : BOOLEAN, aborted : BOOLEAN]
      /\ cr'.hasByte = cr.hasByte /\ cr'.byte = cr.byte /\ cr'.aborted = cr.aborted
      /\ bg' \in {bg, "read"} /\ (bg' = "byte" <=> bg = "byte")
      /\ deadline' \in {deadline, "none"} /\ (bg' # bg => deadline' = "none")
      /\ cr'.inRead <=> bg' # "none"
      /\ cr'.hasByte => bg' = "none"
      /\ pc' = IF left = 1 /\ cr.inRead THEN "panic" ELSE next
      /\ left # 1 => UNCHANGED <<cr, bg>>
  <2>1. CASE left = 1
    <3>1. StartBackgroundRead(next)
      BY <2>1 DEF TakeBody
    <3> QED
      BY <2>1, <3>1, ReadStarted
  <2>2. CASE left # 1
    BY <2>2 DEF TakeBody, TypeOK, OneReader
  <2> QED
    BY <2>1, <2>2
<1>4. Numbered' /\ bufr' \in Seq(Nat) /\ Len(bufr') <= BufCap /\ taken' \in Seq(Nat)
  BY <1>1, <1>3, ByteTaken
<1>5. TypeOK'
  BY <1>1, <1>2, <1>3, <1>4, SMTT(60) DEF TypeOK
<1>6. OneReader'
  BY <1>3 DEF OneReader
<1>7. Phases'
  BY <1>1, <1>2, <1>3, SMTT(60) DEF TypeOK, Phases
<1>8. Aborts'
  BY <1>1, <1>3 DEF TypeOK, Aborts
<1> QED
  BY <1>4, <1>5, <1>6, <1>7, <1>8

\* The handler calls Read on its body.
LEMMA HandlerReadKeeps == IInv /\ HandlerRead => IInv'
<1> SUFFICES ASSUME IInv, HandlerRead PROVE IInv'
  OBVIOUS
<1> USE DEF IInv, HandlerRead
<1>1. TypeOK'
  BY ConnReaderAssumption DEF TypeOK
<1>2. Numbered'
  BY DEF Numbered, TypeOK
<1>3. OneReader'
  BY DEF TypeOK, OneReader
<1>4. Phases'
  BY DEF TypeOK, OneReader, Phases
<1>5. Aborts'
  BY DEF TypeOK, OneReader, Aborts
<1> QED
  BY <1>1, <1>2, <1>3, <1>4, <1>5

\* The handler returns.
LEMMA HandlerReturnsKeeps == IInv /\ HandlerReturns => IInv'
<1> SUFFICES ASSUME IInv, HandlerReturns PROVE IInv'
  OBVIOUS
<1> USE DEF IInv, HandlerReturns
<1>1. TypeOK'
  BY ConnReaderAssumption DEF TypeOK
<1>2. Numbered'
  BY DEF Numbered, TypeOK
<1>3. OneReader'
  BY DEF TypeOK, OneReader
<1>4. Phases'
  BY DEF TypeOK, OneReader, Phases
<1>5. Aborts'
  BY DEF TypeOK, OneReader, Aborts
<1> QED
  BY <1>1, <1>2, <1>3, <1>4, <1>5

\* abortPendingRead marks the read and moves the deadline.
LEMMA AbortKeeps == IInv /\ Abort => IInv'
<1> SUFFICES ASSUME IInv, Abort PROVE IInv'
  OBVIOUS
<1> USE DEF IInv, Abort
<1>1. TypeOK'
  BY ConnReaderAssumption, ZenonT(60) DEF TypeOK
<1>2. Numbered'
  BY DEF Numbered, TypeOK
<1>3. OneReader'
  BY DEF TypeOK, OneReader
<1>4. Phases'
  BY DEF TypeOK, OneReader, Phases
<1>5. Aborts'
  BY DEF TypeOK, OneReader, Aborts
<1> QED
  BY <1>1, <1>2, <1>3, <1>4, <1>5

\* It comes back when the read has ended.
LEMMA AbortReturnsKeeps == IInv /\ AbortReturns => IInv'
<1> SUFFICES ASSUME IInv, AbortReturns PROVE IInv'
  OBVIOUS
<1> USE DEF IInv, AbortReturns
<1>1. TypeOK'
  BY ConnReaderAssumption DEF TypeOK
<1>2. Numbered'
  BY DEF Numbered, TypeOK
<1>3. OneReader'
  BY DEF TypeOK, OneReader
<1>4. Phases'
  BY DEF TypeOK, OneReader, Phases
<1>5. Aborts'
  BY DEF TypeOK, OneReader, Aborts
<1> QED
  BY <1>1, <1>2, <1>3, <1>4, <1>5

\* conn.serve turns to the next request.
LEMMA FinishedKeeps == IInv /\ Finished => IInv'
<1> SUFFICES ASSUME IInv, Finished PROVE IInv'
  OBVIOUS
<1> USE DEF IInv, Finished
<1>1. TypeOK'
  BY ConnReaderAssumption DEF TypeOK
<1>2. Numbered'
  BY DEF Numbered, TypeOK
<1>3. OneReader'
  BY DEF TypeOK, OneReader
<1>4. Phases'
  BY DEF TypeOK, OneReader, Phases
<1>5. Aborts'
  BY DEF TypeOK, OneReader, Aborts
<1> QED
  BY <1>1, <1>2, <1>3, <1>4, <1>5

\* Hijack begins.
LEMMA HijackKeeps == IInv /\ Hijack => IInv'
<1> SUFFICES ASSUME IInv, Hijack PROVE IInv'
  OBVIOUS
<1> USE DEF IInv, Hijack
<1>1. TypeOK'
  BY ConnReaderAssumption DEF TypeOK
<1>2. Numbered'
  BY DEF Numbered, TypeOK
<1>3. OneReader'
  BY DEF TypeOK, OneReader
<1>4. Phases'
  BY DEF TypeOK, OneReader, Phases
<1>5. Aborts'
  BY DEF TypeOK, OneReader, Aborts
<1> QED
  BY <1>1, <1>2, <1>3, <1>4, <1>5

\* hijackLocked hands buffer and byte to the hijacker.
LEMMA HijackDoneKeeps == IInv /\ HijackDone => IInv'
<1> SUFFICES ASSUME IInv, HijackDone PROVE IInv'
  OBVIOUS
<1> USE DEF IInv
<1>0. pc = "hijacked" /\ UNCHANGED <<arrived, gone, read, deadline, bg, req, left, duplex, notified>>
  BY DEF HijackDone
<1>1. CASE cr.hasByte /\ Len(bufr) >= BufCap
  <2>1. pc' = "lost" /\ UNCHANGED <<bufr, cr, taken>>
    BY <1>1 DEF HijackDone
  <2> QED
    BY <1>0, <2>1 DEF TypeOK, Numbered, OneReader, Phases, Aborts
<1>2. CASE ~(cr.hasByte /\ Len(bufr) >= BufCap)
  <2> DEFINE held == IF cr.hasByte THEN <<cr.byte>> ELSE <<>>
  <2>1. /\ pc' = "owned" /\ bufr' = <<>> /\ cr' = [cr EXCEPT !.hasByte = FALSE]
        /\ taken' = taken \o bufr \o held
    BY <1>2 DEF HijackDone
  <2>2. /\ taken \o bufr \in Seq(Nat) /\ Len(taken \o bufr) = Len(taken) + Len(bufr)
        /\ \A i \in 1..(Len(taken) + Len(bufr)) : (taken \o bufr)[i] = i
    <3>1. taken \in Seq(Nat) /\ bufr \in Seq(Nat)
      BY DEF TypeOK
    <3>2. /\ taken \o bufr \in Seq(Nat) /\ Len(taken \o bufr) = Len(taken) + Len(bufr)
          /\ \A i \in 1..(Len(taken) + Len(bufr)) :
               (taken \o bufr)[i] = IF i <= Len(taken) THEN taken[i] ELSE bufr[i - Len(taken)]
      BY <3>1, Behind
    <3> QED
      BY <3>1, <3>2, SMTT(60) DEF Numbered
  <2>3. /\ held \in Seq(Nat) /\ Len(held) = (IF cr.hasByte THEN 1 ELSE 0)
        /\ cr.hasByte => held[1] = cr.byte
    BY DEF TypeOK
  <2> HIDE DEF held
  <2>4. /\ taken' \in Seq(Nat) /\ Len(taken') = Len(taken) + Len(bufr) + Len(held)
        /\ \A i \in 1..Len(taken') :
             taken'[i] = IF i <= Len(taken) + Len(bufr) THEN i
                         ELSE held[i - (Len(taken) + Len(bufr))]
    <3> DEFINE tb == taken \o bufr
    <3>1. tb \in Seq(Nat) /\ Len(tb) = Len(taken) + Len(bufr)
      BY <2>2
    <3>2. taken' = tb \o held
      BY <2>1
    <3> HIDE DEF tb
    <3>3. /\ tb \o held \in Seq(Nat) /\ Len(tb \o held) = Len(tb) + Len(held)
          /\ \A i \in 1..(Len(tb) + Len(held)) :
               (tb \o held)[i] = IF i <= Len(tb) THEN tb[i] ELSE held[i - Len(tb)]
      BY <2>3, <3>1, Behind
    <3>4. \A i \in 1..Len(tb) : tb[i] = i
      BY <2>2, <3>1 DEF tb
    <3>5. Len(tb) \in Nat /\ Len(held) \in Nat
      BY <2>3, <3>1
    <3>6. taken' \in Seq(Nat) /\ Len(taken') = Len(tb) + Len(held)
      BY <3>2, <3>3
    <3>7. \A i \in 1..Len(taken') : taken'[i] = IF i <= Len(tb) THEN i ELSE held[i - Len(tb)]
      BY <3>2, <3>3, <3>4, <3>5, <3>6
    <3> QED
      BY <3>1, <3>6, <3>7
  <2>5. \A i \in 1..Len(taken') : taken'[i] = i
    <3> SUFFICES ASSUME NEW i \in 1..Len(taken') PROVE taken'[i] = i
      OBVIOUS
    <3>1. Len(taken) \in Nat /\ Len(bufr) \in Nat
      BY DEF TypeOK
    <3>2. CASE i <= Len(taken) + Len(bufr)
      BY <2>4, <3>1, <3>2
    <3>3. CASE i > Len(taken) + Len(bufr)
      <4>1. cr.hasByte /\ i = Len(taken) + Len(bufr) + 1
        BY <2>3, <2>4, <3>1, <3>3, SMTT(60)
      <4>2. i - (Len(taken) + Len(bufr)) = 1 /\ ~(i <= Len(taken) + Len(bufr))
        BY <3>1, <4>1
      <4>3. taken'[i] = held[i - (Len(taken) + Len(bufr))]
        BY <2>4, <4>2
      <4> QED
        BY <2>3, <4>1, <4>2, <4>3 DEF Numbered
    <3> QED
      BY <2>3, <2>4, <3>1, <3>2, <3>3
  <2>6. bg = "none"
    BY <1>0 DEF Phases, OneReader
  <2>7. Numbered'
    BY <1>0, <2>1, <2>3, <2>4, <2>5, <2>6, SMTT(60) DEF TypeOK, Numbered
  <2>8. TypeOK'
    <3>1. cr' \in [hasByte : BOOLEAN, byte : 0..read, inRead : BOOLEAN, aborted : BOOLEAN]
      BY <2>1 DEF TypeOK
    <3>2. bufr' \in Seq(Nat) /\ Len(bufr') = 0
      BY <2>1
    <3> QED
      BY <1>0, <2>1, <2>4, <3>1, <3>2, ConnReaderAssumption DEF TypeOK
  <2>9. OneReader' /\ Phases' /\ Aborts'
    BY <1>0, <2>1 DEF TypeOK, OneReader, Phases, Aborts
  <2> QED
    BY <2>7, <2>8, <2>9
<1> QED
  BY <1>1, <1>2

-----------------------------------------------------------------------------
\* Every step keeps the invariant.
LEMMA NextInv == IInv /\ [Next]_vars => IInv'
<1> SUFFICES ASSUME IInv, [Next]_vars PROVE IInv'
  OBVIOUS
<1>1. CASE Arrive
  BY <1>1, ArriveKeeps
<1>2. CASE ClientCloses
  BY <1>2, ClientClosesKeeps
<1>3. CASE Fill
  BY <1>3, FillKeeps
<1>4. CASE FillFails
  BY <1>4, FillFailsKeeps
<1>5. CASE ReadRequest
  BY <1>5, ReadRequestKeeps
<1>6. CASE HandlerRead
  BY <1>6, HandlerReadKeeps
<1>7. CASE BodyByte
  BY <1>7, TakeBodyKeeps DEF BodyByte
<1>8. CASE HandlerReturns
  BY <1>8, HandlerReturnsKeeps
<1>9. CASE Drain
  BY <1>9, TakeBodyKeeps DEF Drain
<1>10. CASE Abort
  BY <1>10, AbortKeeps
<1>11. CASE AbortReturns
  BY <1>11, AbortReturnsKeeps
<1>12. CASE CloseBody
  BY <1>12, TakeBodyKeeps DEF CloseBody
<1>13. CASE Finished
  BY <1>13, FinishedKeeps
<1>14. CASE Hijack
  BY <1>14, HijackKeeps
<1>15. CASE HijackDone
  BY <1>15, HijackDoneKeeps
<1>16. CASE BackgroundByte
  BY <1>16, BackgroundByteKeeps
<1>17. CASE BackgroundFails
  BY <1>17, BackgroundFailsKeeps
<1>18. CASE BackgroundDone
  BY <1>18, BackgroundDoneKeeps
<1>19. CASE UNCHANGED vars
  BY <1>19 DEF vars, IInv, TypeOK, Numbered, OneReader, Phases, Aborts
<1> QED
  BY <1>1, <1>2, <1>3, <1>4, <1>5, <1>6, <1>7, <1>8, <1>9, <1>10, <1>11, <1>12, <1>13, <1>14, <1>15, <1>16, <1>17, <1>18, <1>19 DEF Next

\* The numbers say where each byte is: together the parts are the bytes read.
LEMMA InOrder == IInv => BytesInOrder
<1> SUFFICES ASSUME IInv PROVE BytesInOrder
  OBVIOUS
<1> DEFINE tb   == taken \o bufr
           one  == cr.hasByte \/ bg = "byte"
           rest == IF one THEN <<read>> ELSE <<>>
<1>0. TypeOK /\ Numbered /\ OneReader
  BY DEF IInv
<1>1. taken \in Seq(Nat) /\ bufr \in Seq(Nat) /\ read \in Nat
  BY <1>0 DEF TypeOK
<1>2. /\ tb \in Seq(Nat) /\ Len(tb) = Len(taken) + Len(bufr)
      /\ \A i \in 1..Len(tb) : tb[i] = i
  <2>1. /\ tb \in Seq(Nat) /\ Len(tb) = Len(taken) + Len(bufr)
        /\ \A i \in 1..(Len(taken) + Len(bufr)) :
             tb[i] = IF i <= Len(taken) THEN taken[i] ELSE bufr[i - Len(taken)]
    BY <1>1, Behind
  <2> HIDE DEF tb
  <2>2. ASSUME NEW i \in 1..Len(tb) PROVE tb[i] = i
    <3>1. Len(taken) \in Nat /\ Len(bufr) \in Nat /\ i \in 1..(Len(taken) + Len(bufr))
      BY <1>1, <2>1
    <3>2. CASE i <= Len(taken)
      <4>1. tb[i] = taken[i] /\ i \in 1..Len(taken)
        BY <2>1, <3>1, <3>2
      <4> QED
        BY <1>0, <4>1 DEF Numbered
    <3>3. CASE i > Len(taken)
      <4>1. tb[i] = bufr[i - Len(taken)] /\ i - Len(taken) \in 1..Len(bufr)
        BY <2>1, <3>1, <3>3
      <4>2. bufr[i - Len(taken)] = Len(taken) + (i - Len(taken))
        BY <1>0, <4>1 DEF Numbered
      <4> QED
        BY <3>1, <4>1, <4>2
    <3> QED
      BY <3>1, <3>2, <3>3
  <2> QED
    BY <2>1, <2>2
<1>3. read = Len(tb) + IF one THEN 1 ELSE 0
  BY <1>0, <1>2 DEF Numbered
<1>4. (cr.hasByte => cr.byte = read) /\ ~(cr.hasByte /\ bg = "byte")
  BY <1>0, <1>1 DEF Numbered, OneReader
<1> DEFINE h == IF cr.hasByte THEN <<cr.byte>> ELSE <<>>
           g == IF bg = "byte" THEN <<read>> ELSE <<>>
<1>5. tb \o h \o g = tb \o rest
  <2>1. CASE cr.hasByte
    <3>1. h = <<read>> /\ g = <<>> /\ rest = <<read>>
      BY <2>1, <1>4
    <3> HIDE DEF tb, h, g, rest
    <3>2. tb \o <<read>> \in Seq(Nat)
      BY <1>1, <1>2
    <3> QED
      BY <3>1, <3>2, ConcatEmptySeq
  <2>2. CASE ~cr.hasByte
    <3>1. h = <<>> /\ g = rest
      BY <2>2
    <3> HIDE DEF tb, h, g, rest
    <3> QED
      BY <3>1, <1>2, ConcatEmptySeq
  <2> QED
    BY <2>1, <2>2
<1> HIDE DEF tb
<1>6. tb \o rest = [i \in 1..read |-> i]
  <2>1. CASE one
    <3>1. rest = <<read>> /\ read = Len(tb) + 1
      BY <2>1, <1>3
    <3>2. tb \o <<read>> \in Seq(Nat) /\ Len(tb \o <<read>>) = read
      BY <1>1, <1>2, <3>1
    <3>3. \A i \in 1..read : (tb \o <<read>>)[i] = i
      BY <1>1, <1>2, <3>1
    <3>4. [i \in 1..read |-> i] \in Seq(Nat) /\ Len([i \in 1..read |-> i]) = read
      BY <1>1
    <3> QED
      BY <3>1, <3>2, <3>3, <3>4, SeqEqual
  <2>2. CASE ~one
    <3>1. rest = <<>> /\ read = Len(tb)
      BY <2>2, <1>2, <1>3
    <3>2. tb \o rest = tb
      BY <3>1, <1>2, ConcatEmptySeq
    <3>3. [i \in 1..read |-> i] \in Seq(Nat) /\ Len([i \in 1..read |-> i]) = read
      BY <1>1
    <3> QED
      BY <1>2, <3>1, <3>2, <3>3, SeqEqual
  <2> QED
    BY <2>1, <2>2
<1> QED
  BY <1>5, <1>6 DEF tb, BytesInOrder

\* The invariant holds in every behaviour.
LEMMA Inductive == Spec => []IInv
<1> QED
  BY InitInv, NextInv, PTL DEF Spec

(* For any requests and any buffer: each byte the server read is in one    *)
(* place and in order, no reader is left where none may be, and two        *)
(* readers meet only under full duplex.                                    *)
THEOREM ReaderInvariant == Spec => []ReaderInv
<1>1. IInv => QuietBetween /\ HalfDuplexReads
  BY DEF IInv, OneReader, Phases, Aborts, TypeOK, QuietBetween, HalfDuplexReads
<1>2. IInv => ReaderInv
  BY <1>1, InOrder DEF IInv, ReaderInv
<1> QED
  BY <1>2, Inductive, PTL

(* backgroundRead, abortPendingRead and handleReadError: CloseNotify and   *)
(* the request's context fire only for a client that closed its side.      *)
THEOREM OnlyTheGone == Spec => []CancelMeansGone
<1>1. IInv => CancelMeansGone
  BY DEF IInv, Aborts, CancelMeansGone
<1> QED
  BY <1>1, Inductive, PTL

\* The next bytes in order are a Receive of the byte stream, none a stutter.
LEMMA Received ==
  ASSUME TypeOK, NEW more \in Seq(Nat), \A i \in 1..Len(more) : more[i] = Len(taken) + i,
         Len(taken) + Len(more) <= arrived, taken' = taken \o more, UNCHANGED arrived
  PROVE  [Stream!Next]_<<arrived, taken>>
<1>1. taken \in Seq(Nat) /\ arrived \in Nat
  BY DEF TypeOK
<1>2. CASE Len(more) = 0
  <2>1. more = <<>>
    BY <1>2
  <2> QED
    BY <1>1, <2>1, ConcatEmptySeq
<1>3. CASE Len(more) # 0
  <2>1. Len(more) \in 1..(arrived - Len(taken))
    BY <1>1, <1>3
  <2> DEFINE next == [i \in 1..Len(more) |-> Len(taken) + i]
  <2>2. next \in Seq(Nat) /\ Len(next) = Len(more)
    BY <1>1
  <2>3. \A i \in 1..Len(more) : more[i] = next[i]
    OBVIOUS
  <2> HIDE DEF next
  <2>4. more = next
    BY <2>2, <2>3, SeqEqual
  <2>5. Stream!Receive
    BY <2>1, <2>4 DEF next, Stream!Receive
  <2> QED
    BY <2>5 DEF Stream!Next
<1> QED
  BY <1>2, <1>3

\* A byte taken from the buffer is the next of the stream.
LEMMA ByteReceived ==
  ASSUME IInv, bufr # <<>>, taken' = Append(taken, bufr[1]), UNCHANGED arrived
  PROVE  [Stream!Next]_<<arrived, taken>>
<1> DEFINE more == <<bufr[1]>>
<1>1. /\ taken \in Seq(Nat) /\ bufr \in Seq(Nat) /\ Len(bufr) > 0
      /\ bufr[1] = Len(taken) + 1 /\ Len(taken) + 1 <= arrived
  BY SMTT(60) DEF IInv, TypeOK, Numbered
<1>2. more \in Seq(Nat) /\ Len(more) = 1 /\ more[1] = bufr[1]
  BY <1>1
<1>3. taken' = taken \o more
  BY <1>1
<1> HIDE DEF more
<1>4. TypeOK /\ \A i \in 1..Len(more) : more[i] = Len(taken) + i
  BY <1>1, <1>2 DEF IInv
<1> QED
  BY <1>1, <1>2, <1>3, <1>4, Received

\* The hijacker receives the rest of what was read.
LEMMA RestReceived ==
  ASSUME IInv, HijackDone
  PROVE  [Stream!Next]_<<arrived, taken>>
<1>1. CASE cr.hasByte /\ Len(bufr) >= BufCap
  BY <1>1 DEF HijackDone
<1>2. CASE ~(cr.hasByte /\ Len(bufr) >= BufCap)
  <2> DEFINE held == IF cr.hasByte THEN <<cr.byte>> ELSE <<>>
             more == bufr \o held
  <2>1. taken' = taken \o bufr \o held /\ UNCHANGED arrived
    BY <1>2 DEF HijackDone
  <2>2. taken \in Seq(Nat) /\ bufr \in Seq(Nat) /\ arrived \in Nat /\ TypeOK
    BY DEF IInv, TypeOK
  <2>3. /\ held \in Seq(Nat) /\ Len(held) = (IF cr.hasByte THEN 1 ELSE 0)
        /\ cr.hasByte => held[1] = Len(taken) + Len(bufr) + 1
    BY DEF IInv, TypeOK, Numbered
  <2>4. Len(taken) + Len(bufr) + Len(held) <= arrived
    BY <2>2, <2>3, SMTT(60) DEF IInv, TypeOK, Numbered
  <2>5. \A i \in 1..Len(bufr) : bufr[i] = Len(taken) + i
    BY DEF IInv, Numbered
  <2> HIDE DEF held
  <2>6. /\ more \in Seq(Nat) /\ Len(more) = Len(bufr) + Len(held)
        /\ \A i \in 1..(Len(bufr) + Len(held)) :
             more[i] = IF i <= Len(bufr) THEN bufr[i] ELSE held[i - Len(bufr)]
    BY <2>2, <2>3, Behind
  <2>7. taken' = taken \o more
    BY <2>1, <2>2, <2>3, Regrouped, ZenonT(60)
  <2> HIDE DEF more
  <2>8. \A i \in 1..Len(more) : more[i] = Len(taken) + i
    <3> SUFFICES ASSUME NEW i \in 1..Len(more) PROVE more[i] = Len(taken) + i
      OBVIOUS
    <3>1. Len(bufr) \in Nat /\ Len(held) \in Nat /\ Len(taken) \in Nat
      BY <2>2, <2>3
    <3>2. CASE i <= Len(bufr)
      <4>1. i \in 1..Len(bufr) /\ more[i] = bufr[i]
        BY <2>6, <3>1, <3>2
      <4> QED
        BY <2>5, <4>1
    <3>3. CASE i > Len(bufr)
      <4>1. cr.hasByte /\ i = Len(bufr) + 1 /\ i - Len(bufr) = 1
        BY <2>3, <2>6, <3>1, <3>3, SMTT(60)
      <4>2. more[i] = held[i - Len(bufr)]
        BY <2>6, <3>1, <3>3
      <4>3. more[i] = held[1]
        BY <4>1, <4>2
      <4> QED
        BY <2>3, <3>1, <4>1, <4>3
    <3> QED
      BY <3>1, <3>2, <3>3
  <2>9. Len(taken) + Len(more) <= arrived
    BY <2>2, <2>3, <2>4, <2>6
  <2> QED
    BY <2>1, <2>2, <2>6, <2>7, <2>8, <2>9, Received
<1> QED
  BY <1>1, <1>2

(* Through background reads, aborts and hijacking the connection is a byte *)
(* stream: every step is one of ByteStream or leaves it unchanged.         *)
THEOREM StreamImplemented == Spec => ImplementsStream
<1>1. Init => Stream!Init
  BY DEF Init, Stream!Init
<1>2. IInv /\ [Next]_vars => [Stream!Next]_<<arrived, taken>>
  <2> SUFFICES ASSUME IInv, [Next]_vars PROVE [Stream!Next]_<<arrived, taken>>
    OBVIOUS
  <2>1. CASE Arrive
    BY <2>1 DEF Arrive, Stream!Next, Stream!Send
  <2>2. CASE ReadRequest
    BY <2>2, ByteReceived DEF ReadRequest
  <2>3. CASE BodyByte \/ Drain \/ CloseBody
    BY <2>3, ByteReceived DEF BodyByte, Drain, CloseBody, TakeBody
  <2>4. CASE HijackDone
    BY <2>4, RestReceived
  <2>5. CASE Fill \/ FillFails \/ BackgroundByte \/ BackgroundFails \/ BackgroundDone
    BY <2>5 DEF Fill, FillFails, BackgroundByte, BackgroundFails, BackgroundDone
  <2>6. CASE \/ ClientCloses \/ HandlerRead \/ HandlerReturns \/ Abort \/ AbortReturns
             \/ Finished \/ Hijack
    BY <2>6 DEF ClientCloses, HandlerRead, HandlerReturns, Abort, AbortReturns, Finished, Hijack
  <2>7. CASE UNCHANGED vars
    BY <2>7 DEF vars
  <2> QED
    BY <2>1, <2>2, <2>3, <2>4, <2>5, <2>6, <2>7 DEF Next
<1> QED
  BY <1>1, <1>2, Inductive, PTL DEF Spec, ImplementsStream, Stream!Spec
=============================================================================
