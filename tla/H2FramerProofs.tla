--------------------------- MODULE H2FramerProofs ---------------------------
(***************************************************************************)
(* Proofs about H2Framer, for any streams, fragments and limit: the block  *)
(* being assembled is well-formed after every field, and while it is       *)
(* unfinished lastHeaderStream is its stream.                              *)
(***************************************************************************)
EXTENDS H2Framer, SequenceTheorems, TLAPS

MetaRec == [stream : Nat, from : Seq(Nat), fields : Seq(Fields), on : BOOLEAN,
            sawRegular : BOOLEAN, invalid : BOOLEAN, truncated : BOOLEAN]

TypeInv ==
  /\ lastHeaderStream \in Nat /\ metas \in Nat
  /\ meta \in MetaRec /\ rest \in Seq(Fields) /\ ended \in BOOLEAN

(* A block that was begun and not finished is the one checkFrameOrder      *)
(* waits for.                                                              *)
StreamInv == metas > 0 /\ lastHeaderStream # 0 => meta.stream = lastHeaderStream

(* What the decoder's function has let through: every fragment is of the   *)
(* block's stream, no field has a bad name, no pseudo header comes after a *)
(* regular field, and sawRegular knows of every regular field.             *)
OneStream(m) == \A i \in DOMAIN m.from : m.from[i] = m.stream
InOrder(m) ==
  /\ \A i \in DOMAIN m.fields : m.fields[i] # "Bad Name"
  /\ \A i, j \in DOMAIN m.fields :
       i < j /\ m.fields[j] \in Pseudo => m.fields[i] \in Pseudo
  /\ \A i \in DOMAIN m.fields : m.fields[i] \notin Pseudo => m.sawRegular

FramerInv ==
  TypeInv /\ StreamInv /\ OneStream(meta) /\ InOrder(meta) /\ BlockSound

-----------------------------------------------------------------------------
(* Lemmas about the operators *)

\* The positions and elements of a sequence with one more.
LEMMA AppendElements ==
  ASSUME NEW S, NEW s \in Seq(S), NEW e \in S
  PROVE  LET t == Append(s, e)
             n == Len(s) + 1
         IN  /\ t \in Seq(S)
             /\ DOMAIN t = DOMAIN s \cup {n} /\ t[n] = e
             /\ \A i \in DOMAIN s : t[i] = s[i]
             /\ \A i, j \in DOMAIN t : i < j => i \in DOMAIN s
<1> DEFINE t == Append(s, e)
<1>1. /\ t \in Seq(S) /\ Len(t) = Len(s) + 1 /\ Len(s) \in Nat /\ t[Len(s) + 1] = e
      /\ \A i \in 1 .. Len(s) : t[i] = s[i]
  BY AppendProperties, LenProperties
<1>2. DOMAIN s = 1 .. Len(s) /\ DOMAIN t = 1 .. Len(s) + 1
  BY <1>1, LenProperties
<1> HIDE DEF t
<1>3. \A i, j \in DOMAIN t : i < j => i \in DOMAIN s
  BY <1>1, <1>2
<1>4. DOMAIN t = DOMAIN s \cup {Len(s) + 1}
  BY <1>1, <1>2
<1>5. \A i \in DOMAIN s : t[i] = s[i]
  BY <1>1, <1>2
<1> QED BY <1>1, <1>3, <1>4, <1>5 DEF t

\* The decoder's function appends at most one field, and keeps the order.
LEMMA EmitFacts ==
  ASSUME NEW m \in MetaRec, NEW field \in Fields, InOrder(m)
  PROVE  /\ emit(m, field) \in MetaRec
         /\ emit(m, field).stream = m.stream /\ emit(m, field).from = m.from
         /\ InOrder(emit(m, field))
<1> DEFINE pseudo == field \in Pseudo
           saw == [m EXCEPT !.sawRegular = m.sawRegular \/ ~pseudo]
           fs == Append(m.fields, field)
<1>1. /\ saw \in MetaRec /\ saw.stream = m.stream /\ saw.from = m.from
      /\ saw.fields = m.fields /\ saw.sawRegular = (m.sawRegular \/ ~pseudo)
  <2>1. (m.sawRegular \/ ~pseudo) \in BOOLEAN
    OBVIOUS
  <2> QED BY <2>1 DEF MetaRec
<1>2. InOrder(saw)
  BY <1>1 DEF InOrder
<1>3. CASE ~m.on
  BY <1>3 DEF emit
<1>4. CASE m.on /\ (field = "Bad Name" \/ (pseudo /\ m.sawRegular))
  <2>1. emit(m, field) = [saw EXCEPT !.invalid = TRUE, !.on = FALSE]
    BY <1>4 DEF emit
  <2>2. emit(m, field) \in MetaRec
    BY <1>1, <2>1 DEF MetaRec
  <2>3. /\ emit(m, field).stream = m.stream /\ emit(m, field).from = m.from
        /\ emit(m, field).fields = saw.fields /\ emit(m, field).sawRegular = saw.sawRegular
    BY <1>1, <2>1 DEF MetaRec
  <2>4. InOrder(emit(m, field))
    BY <1>2, <2>3, Zenon DEF InOrder
  <2> QED BY <2>2, <2>3, <2>4
<1>5. CASE /\ m.on /\ ~(field = "Bad Name" \/ (pseudo /\ m.sawRegular))
           /\ Len(m.fields) = MaxFields
  <2>1. emit(m, field) = [saw EXCEPT !.truncated = TRUE, !.on = FALSE]
    BY <1>5 DEF emit
  <2>2. emit(m, field) \in MetaRec
    BY <1>1, <2>1 DEF MetaRec
  <2>3. /\ emit(m, field).stream = m.stream /\ emit(m, field).from = m.from
        /\ emit(m, field).fields = saw.fields /\ emit(m, field).sawRegular = saw.sawRegular
    BY <1>1, <2>1 DEF MetaRec
  <2>4. InOrder(emit(m, field))
    BY <1>2, <2>3, Zenon DEF InOrder
  <2> QED BY <2>2, <2>3, <2>4
<1>6. CASE /\ m.on /\ ~(field = "Bad Name" \/ (pseudo /\ m.sawRegular))
           /\ Len(m.fields) # MaxFields
  <2>1. emit(m, field) = [saw EXCEPT !.fields = Append(m.fields, field)]
    BY <1>6 DEF emit
  <2>2. m.fields \in Seq(Fields)
    BY DEF MetaRec
  <2> DEFINE n == Len(m.fields) + 1
  <2>3. /\ fs \in Seq(Fields) /\ DOMAIN fs = DOMAIN m.fields \cup {n} /\ fs[n] = field
        /\ \A i \in DOMAIN m.fields : fs[i] = m.fields[i]
        /\ \A i, j \in DOMAIN fs : i < j => i \in DOMAIN m.fields
    BY <2>2, AppendElements
  <2>4. /\ emit(m, field) \in MetaRec
        /\ emit(m, field).stream = m.stream /\ emit(m, field).from = m.from
        /\ emit(m, field).fields = fs
        /\ emit(m, field).sawRegular = (m.sawRegular \/ ~pseudo)
    BY <1>1, <2>1, <2>3, ZenonT(60) DEF MetaRec
  <2> HIDE DEF fs, n
  <2>5. \A i \in DOMAIN fs : fs[i] # "Bad Name"
    BY <1>6, <2>3, Zenon DEF InOrder
  <2>6. \A i \in DOMAIN fs : fs[i] \notin Pseudo => m.sawRegular \/ ~pseudo
    BY <2>3, Zenon DEF InOrder
  <2>7. ASSUME NEW i \in DOMAIN fs, NEW j \in DOMAIN fs, i < j, fs[j] \in Pseudo
        PROVE  fs[i] \in Pseudo
    <3>1. i \in DOMAIN m.fields /\ fs[i] = m.fields[i]
      BY <2>3, <2>7, Zenon
    <3>2. CASE j \in DOMAIN m.fields
      BY <2>3, <2>7, <3>1, <3>2, Zenon DEF InOrder
    <3>3. CASE j = n
      <4>1. ~m.sawRegular
        BY <1>6, <2>3, <2>7, <3>3, Zenon
      <4> QED BY <3>1, <4>1, Zenon DEF InOrder
    <3> QED BY <2>3, <3>2, <3>3, Zenon
  <2> QED BY <2>4, <2>5, <2>6, <2>7 DEF InOrder
<1> QED BY <1>3, <1>4, <1>5, <1>6

\* In a block in order the pseudo headers are the fields before the first
\* regular one: what checkPseudos says of those it says of all.
LEMMA PseudosFirst ==
  ASSUME NEW m \in MetaRec, InOrder(m), OneStream(m), pseudosValid(m)
  PROVE  /\ \A i \in DOMAIN m.from : m.from[i] = m.stream
         /\ \A i, j \in DOMAIN m.fields :
              /\ m.fields[i] \notin {":unknown", "Bad Name"}
              /\ i < j /\ m.fields[j] \in Pseudo =>
                   m.fields[i] \in Pseudo /\ m.fields[i] # m.fields[j]
<1>1. DOMAIN m.fields = 1 .. Len(m.fields) /\ Len(m.fields) \in Nat
  BY LenProperties DEF MetaRec
<1>2. ASSUME NEW j \in DOMAIN m.fields, m.fields[j] \in Pseudo
      PROVE  j \in pseudos(m)
  <2>1. ASSUME NEW k \in 1 .. j
        PROVE  m.fields[k] \in Pseudo
    <3>1. k \in DOMAIN m.fields /\ (k < j \/ k = j)
      BY <1>1
    <3> QED BY <1>2, <3>1 DEF InOrder
  <2> QED BY <2>1 DEF pseudos
<1>3. ASSUME NEW i \in DOMAIN m.fields
      PROVE  m.fields[i] \notin {":unknown", "Bad Name"}
  BY <1>2 DEF InOrder, pseudosValid, Pseudo
<1>4. ASSUME NEW i \in DOMAIN m.fields, NEW j \in DOMAIN m.fields, i < j, m.fields[j] \in Pseudo
      PROVE  m.fields[i] \in Pseudo /\ m.fields[i] # m.fields[j]
  <2>1. m.fields[i] \in Pseudo
    BY <1>4 DEF InOrder
  <2>2. i \in pseudos(m) /\ j \in pseudos(m) /\ i # j
    BY <1>1, <1>2, <1>4, <2>1
  <2> QED BY <2>1, <2>2 DEF pseudosValid
<1> QED BY <1>3, <1>4 DEF OneStream

\* What a new block starts with.
LEMMA NoMetaFacts ==
  <<>> \in Seq(Fields) /\ NoMeta \in MetaRec /\ OneStream(NoMeta) /\ InOrder(NoMeta)
<1>1. <<>> \in Seq(Nat) /\ <<>> \in Seq(Fields)
  OBVIOUS
<1>2. DOMAIN NoMeta.from = {} /\ DOMAIN NoMeta.fields = {}
  BY DEF NoMeta
<1> QED BY <1>1, <1>2 DEF NoMeta, MetaRec, OneStream, InOrder

LEMMA NewMetaFacts ==
  ASSUME NEW s \in Nat
  PROVE  LET m == [NoMeta EXCEPT !.stream = s]
         IN  m \in MetaRec /\ m.stream = s /\ OneStream(m) /\ InOrder(m)
<1> DEFINE m == [NoMeta EXCEPT !.stream = s]
<1>1. m \in MetaRec /\ m.stream = s /\ m.from = NoMeta.from /\ m.fields = NoMeta.fields
  BY NoMetaFacts DEF MetaRec
<1>2. DOMAIN NoMeta.from = {} /\ DOMAIN NoMeta.fields = {}
  BY DEF NoMeta
<1> QED BY <1>1, <1>2 DEF OneStream, InOrder

-----------------------------------------------------------------------------
(* The steps *)

LEMMA FailKeeps ==
  ASSUME NEW kind \in {"conn", "stream", "eof"}, FramerInv, Fail(kind),
         lastHeaderStream' = lastHeaderStream \/ lastHeaderStream' \in Nat
  PROVE  FramerInv'
<1>1. out'.kind # "meta"
  BY DEF Fail
<1>2. metas' = 0 /\ meta' = NoMeta /\ rest' = <<>> /\ ended' = FALSE
  BY DEF Fail
<1>3. TypeInv'
  BY <1>2, NoMetaFacts DEF FramerInv, TypeInv
<1>4. OneStream(meta') /\ InOrder(meta')
  BY <1>2, NoMetaFacts
<1>5. StreamInv'
  BY <1>2 DEF StreamInv
<1>6. BlockSound'
  BY <1>1 DEF BlockSound
<1> QED BY <1>3, <1>4, <1>5, <1>6 DEF FramerInv, OneStream, InOrder

\* A fragment of the block's stream goes to the decoder.
LEMMA DecodeKeeps ==
  ASSUME FramerInv, NEW f \in Frame, NEW depth \in Nat, NEW m \in MetaRec,
         OneStream(m), InOrder(m), m.stream = f.stream,
         Decode(depth, m, f), lastHeaderStream' \in {0, f.stream}
  PROVE  FramerInv'
<1> USE FramerAssumption
<1>1. f.stream \in Nat /\ f.fields \in Seq(Fields) /\ f.endStream \in BOOLEAN
        /\ f.endHeaders \in BOOLEAN
  BY DEF Frame
<1>2. CASE f.flaw = "hpack"
  BY <1>1, <1>2, FailKeeps DEF Decode
<1>3. CASE f.flaw # "hpack"
  <2> DEFINE m2 == [m EXCEPT !.from = Append(m.from, f.stream)]
  <2>1. /\ metas' = depth /\ meta' = m2 /\ rest' = f.fields
        /\ ended' = headersEnded(f) /\ out' = out
    BY <1>3 DEF Decode
  <2>2. m.from \in Seq(Nat)
    BY DEF MetaRec
  <2>3. /\ Append(m.from, f.stream) \in Seq(Nat)
        /\ \A i \in DOMAIN Append(m.from, f.stream) : Append(m.from, f.stream)[i] = f.stream
    BY <1>1, <2>2, AppendProperties, LenProperties, SMTT(60) DEF OneStream
  <2>4. /\ m2 \in MetaRec /\ m2.from = Append(m.from, f.stream) /\ m2.stream = f.stream
        /\ m2.fields = m.fields /\ m2.sawRegular = m.sawRegular
    BY <2>3 DEF MetaRec
  <2>5. OneStream(m2) /\ InOrder(m2)
    BY <2>3, <2>4 DEF OneStream, InOrder
  <2>6. TypeInv'
    BY <1>1, <2>1, <2>4 DEF TypeInv, headersEnded
  <2> QED BY <2>1, <2>4, <2>5, <2>6, ZenonT(60)
          DEF FramerInv, StreamInv, BlockSound, OneStream, InOrder
<1> QED BY <1>2, <1>3

LEMMA ReadKeeps ==
  ASSUME FramerInv, NEW f \in Frame, Read(f)
  PROVE  FramerInv'
<1> USE FramerAssumption
<1>1. f.stream \in Nat /\ f.type \in FrameTypes
  BY DEF Frame
<1>2. CASE parse(f) # "none"
  <2>1. parse(f) \in {"conn", "stream", "eof"}
    BY <1>2 DEF parse
  <2> QED BY <1>2, <2>1, FailKeeps DEF Read
<1>3. CASE parse(f) = "none" /\ ~inOrder(f)
  BY <1>3, FailKeeps DEF Read
<1>4. CASE parse(f) = "none" /\ inOrder(f)
  <2>1. lastHeaderStream' = IF isHeader(f.type) THEN IF f.endHeaders THEN 0 ELSE f.stream
                                                ELSE lastHeaderStream
    BY <1>4 DEF Read
  <2>2. CASE f.type = "HEADERS" /\ Decode(metas + 1, [NoMeta EXCEPT !.stream = f.stream], f)
    <3>1. lastHeaderStream' \in {0, f.stream}
      BY <2>1, <2>2 DEF isHeader
    <3>2. metas + 1 \in Nat
      BY DEF FramerInv, TypeInv
    <3> QED BY <1>1, <2>2, <3>1, <3>2, NewMetaFacts, DecodeKeeps
  <2>3. CASE f.type = "CONTINUATION" /\ metas > 0 /\ Decode(metas, meta, f)
    <3>1. lastHeaderStream' \in {0, f.stream}
      BY <2>1, <2>3 DEF isHeader
    <3>2. meta.stream = f.stream
      BY <1>4, <2>3 DEF inOrder, FramerInv, StreamInv
    <3> QED BY <2>3, <3>1, <3>2, DecodeKeeps DEF FramerInv, TypeInv
  <2>4. CASE /\ f.type # "HEADERS" /\ metas = 0 /\ out' = [kind |-> f.type]
             /\ UNCHANGED <<metas, meta, rest, ended, status>>
    <3>1. out'.kind # "meta"
      BY <1>1, <2>4 DEF FrameTypes
    <3>2. lastHeaderStream' \in Nat
      BY <1>1, <2>1 DEF FramerInv, TypeInv
    <3>3. TypeInv' /\ StreamInv'
      BY <2>4, <3>2 DEF FramerInv, TypeInv, StreamInv
    <3>4. BlockSound'
      BY <3>1 DEF BlockSound
    <3> QED BY <2>4, <3>3, <3>4 DEF FramerInv, OneStream, InOrder
  <2>5. CASE /\ ~isHeader(f.type) /\ metas > 0 /\ metas' = 0 /\ meta' = NoMeta
             /\ UNCHANGED <<rest, ended, out>>
    <3>1. lastHeaderStream' \in Nat
      BY <2>1, <2>5 DEF FramerInv, TypeInv
    <3>2. NoMeta \in MetaRec /\ OneStream(NoMeta) /\ InOrder(NoMeta)
      BY NoMetaFacts
    <3>3. TypeInv' /\ StreamInv' /\ OneStream(meta') /\ InOrder(meta')
      BY <2>5, <3>1, <3>2 DEF FramerInv, TypeInv, StreamInv
    <3>4. BlockSound'
      BY <2>5, ZenonT(60) DEF FramerInv, BlockSound
    <3> QED BY <3>3, <3>4 DEF FramerInv, OneStream, InOrder
  <2> QED BY <1>4, <2>2, <2>3, <2>4, <2>5 DEF Read
<1> QED BY <1>2, <1>3, <1>4

LEMMA EmitKeeps ==
  ASSUME FramerInv, Emit
  PROVE  FramerInv'
<1>1. Head(rest) \in Fields /\ Tail(rest) \in Seq(Fields)
  BY HeadTailProperties DEF Emit, FramerInv, TypeInv
<1>2. /\ meta' = emit(meta, Head(rest)) /\ rest' = Tail(rest)
      /\ UNCHANGED <<lastHeaderStream, metas, ended, out>>
  BY DEF Emit
<1>3. /\ meta' \in MetaRec /\ meta'.stream = meta.stream /\ meta'.from = meta.from
      /\ InOrder(meta')
  BY <1>1, <1>2, EmitFacts DEF FramerInv, TypeInv
<1>4. OneStream(meta')
  BY <1>3 DEF FramerInv, OneStream
<1> QED BY <1>1, <1>2, <1>3, <1>4
        DEF FramerInv, TypeInv, StreamInv, BlockSound, OneStream, InOrder

LEMMA FragmentEndsKeeps ==
  ASSUME FramerInv, FragmentEnds
  PROVE  FramerInv'
<1>1. CASE ~ended /\ UNCHANGED <<metas, meta, rest, ended, out>>
  BY <1>1, ZenonT(60) DEF FragmentEnds, FramerInv, TypeInv, StreamInv, BlockSound, OneStream, InOrder
<1>2. CASE Fail("stream")
  BY <1>2, FailKeeps DEF FragmentEnds
<1>3. CASE /\ ended /\ ~meta.invalid /\ pseudosValid(meta)
           /\ metas' = 0 /\ meta' = NoMeta /\ rest' = <<>> /\ ended' = FALSE
           /\ IF metas = 1
              THEN out' = [kind |-> "meta", frame |-> meta] /\ status' = "reading"
              ELSE status' = "panic" /\ UNCHANGED out
  <2>1. TypeInv' /\ OneStream(meta') /\ InOrder(meta')
    BY <1>3, NoMetaFacts DEF FragmentEnds, FramerInv, TypeInv
  <2>2. BlockSound'
    <3>1. CASE out' = out
      BY <3>1, ZenonT(60) DEF FramerInv, BlockSound
    <3>2. CASE out' = [kind |-> "meta", frame |-> meta]
      <4>1. out'.frame = meta
        BY <3>2
      <4>2. /\ \A i \in DOMAIN meta.from : meta.from[i] = meta.stream
            /\ \A i, j \in DOMAIN meta.fields :
                 /\ meta.fields[i] \notin {":unknown", "Bad Name"}
                 /\ i < j /\ meta.fields[j] \in Pseudo =>
                      meta.fields[i] \in Pseudo /\ meta.fields[i] # meta.fields[j]
        BY <1>3, PseudosFirst DEF FramerInv, TypeInv
      <4> QED BY <4>1, <4>2, ZenonT(60) DEF BlockSound
    <3> QED BY <1>3, <3>1, <3>2
  <2>3. StreamInv'
    BY <1>3 DEF StreamInv
  <2> QED BY <2>1, <2>2, <2>3 DEF FramerInv, OneStream, InOrder
<1> QED BY <1>1, <1>2, <1>3 DEF FragmentEnds

-----------------------------------------------------------------------------

(* The invariant holds of every behaviour of readFrames.                   *)
THEOREM Invariance == Spec => []FramerInv
<1>1. Init => FramerInv
  <2> SUFFICES ASSUME Init
               PROVE  FramerInv
    OBVIOUS
  <2>1. TypeInv
    BY NoMetaFacts DEF Init, TypeInv
  <2>2. OneStream(meta) /\ InOrder(meta)
    BY NoMetaFacts DEF Init
  <2> QED BY <2>1, <2>2 DEF Init, FramerInv, StreamInv, BlockSound
<1>2. FramerInv /\ [Next]_vars => FramerInv'
  <2> SUFFICES ASSUME FramerInv, [Next]_vars
               PROVE  FramerInv'
    OBVIOUS
  <2>1. CASE \E f \in Frame : Read(f)
    BY <2>1, ReadKeeps
  <2>2. CASE Emit
    BY <2>2, EmitKeeps
  <2>3. CASE FragmentEnds
    BY <2>3, FragmentEndsKeeps
  <2>4. CASE UNCHANGED vars
    BY <2>4 DEF vars, FramerInv, TypeInv, StreamInv, BlockSound, OneStream, InOrder
  <2> QED BY <2>1, <2>2, <2>3, <2>4 DEF Next
<1> QED BY <1>1, <1>2, PTL DEF Spec

(* Every header block that ReadFrame returns is of one stream, with its    *)
(* pseudo headers first, each once, and no field that the checks of        *)
(* readMetaFrame refuse: for every cut into frames and every limit.        *)
THEOREM BlocksSound == Spec => []BlockSound
<1>1. FramerInv => BlockSound
  BY DEF FramerInv
<1> QED BY <1>1, Invariance, PTL
=============================================================================
