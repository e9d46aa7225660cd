------------------------------ MODULE H2Framer ------------------------------
(***************************************************************************)
(* The HTTP/2 Framer of h2_bundle.go as the server configures it           *)
(* (ReadMetaHeaders set, AllowIllegalReads not) and the loop of readFrames *)
(* that calls ReadFrame until an error is terminal: the checks of each     *)
(* frame parser, checkFrameOrder, and readMetaFrame, which merges HEADERS  *)
(* and the CONTINUATION frames after it into one MetaHeadersFrame.         *)
(*                                                                         *)
(* A step reads one frame, or takes one field from the (external) HPACK    *)
(* decoder.  A payload is "right" or has one flaw; a header block fragment *)
(* is a sequence of fields.                                                *)
(***************************************************************************)
EXTENDS Naturals, Sequences

CONSTANTS Streams,    \* stream identifiers of the peer, 0 is the connection
          Fragments,  \* what a HEADERS or CONTINUATION frame may carry
          MaxFields,  \* MaxHeaderListSize, in fields
          MaxFrames   \* bound: frames read

Pseudo == {":method", ":status", ":unknown"}
Fields == Pseudo \cup {"name", "Bad Name"}

ASSUME FramerAssumption ==
  /\ 0 \in Streams /\ Streams \subseteq Nat
  /\ MaxFields \in Nat /\ MaxFrames \in Nat \ {0}
  /\ Fragments \subseteq Seq(Fields)

VARIABLES
  lastHeaderStream, \* stream of the unfinished header block, 0 for none
  metas,      \* readMetaFrame calls under way, one inside the other
  meta,       \* the MetaHeadersFrame that the innermost call assembles
  rest,       \* fields of the fragment that hdec.Write has still to emit
  ended,      \* HeadersEnded of the frame being decoded
  out,        \* what the last ReadFrame returned, "none" before
  status,     \* of readFrames: "reading", "decoding" a fragment, "ended" or "panic"
  frames      \* frames read

vars == <<lastHeaderStream, metas, meta, rest, ended, out, status, frames>>

FrameTypes == {"DATA", "HEADERS", "PRIORITY", "RST_STREAM", "SETTINGS", "PUSH_PROMISE",
               "PING", "GOAWAY", "WINDOW_UPDATE", "CONTINUATION", "UNKNOWN"}
Flaws == {"right", "short", "padding", "value", "hpack"}

\* the flaws a payload of each type can have
FlawsOf(type) ==
  {"right"}
  \cup (IF type \notin {"CONTINUATION", "UNKNOWN"} THEN {"short"} ELSE {})
  \cup (IF type \in {"DATA", "HEADERS", "PUSH_PROMISE"} THEN {"padding"} ELSE {})
  \cup (IF type \in {"WINDOW_UPDATE", "SETTINGS"} THEN {"value"} ELSE {})
  \cup (IF type \in {"HEADERS", "CONTINUATION"} THEN {"hpack"} ELSE {})

isHeader(type) == type \in {"HEADERS", "CONTINUATION"}

Frame ==
  {f \in [type : FrameTypes, stream : Streams, endStream : BOOLEAN,
          endHeaders : BOOLEAN, flaw : Flaws, fields : Fragments] :
     /\ f.flaw \in FlawsOf(f.type)
     /\ f.type \notin {"DATA", "HEADERS"} => ~f.endStream
     /\ ~isHeader(f.type) => ~f.endHeaders
     /\ ~isHeader(f.type) \/ f.flaw # "right" => f.fields = <<>>}

NoMeta == [stream |-> 0, from |-> <<>>, fields |-> <<>>, on |-> TRUE, sawRegular |-> FALSE,
           invalid |-> FALSE, truncated |-> FALSE]

Init ==
  /\ lastHeaderStream = 0 /\ metas = 0 /\ meta = NoMeta
  /\ rest = <<>> /\ ended = FALSE
  /\ out = [kind |-> "none"] /\ status = "reading" /\ frames = 0

-----------------------------------------------------------------------------
(* The frame parsers: no error, or an error of the connection, of the      *)
(* stream or of the reader                                                 *)

ofStream == {"DATA", "HEADERS", "PRIORITY", "RST_STREAM", "PUSH_PROMISE", "CONTINUATION"}
ofConn   == {"SETTINGS", "PING", "GOAWAY"}

parse(f) ==
  CASE f.type \in ofStream /\ f.stream = 0 -> "conn"
    [] f.type \in ofConn /\ f.stream # 0 -> "conn"
    [] f.flaw = "short" -> IF f.type \in {"DATA", "HEADERS", "PUSH_PROMISE"} THEN "eof" ELSE "conn"
    [] f.flaw = "padding" -> IF f.type = "HEADERS" THEN "stream" ELSE "conn"
    [] f.flaw = "value" -> IF f.type = "WINDOW_UPDATE" /\ f.stream # 0 THEN "stream" ELSE "conn"
    [] OTHER -> "none"

inOrder(f) ==
  IF lastHeaderStream # 0
  THEN f.type = "CONTINUATION" /\ f.stream = lastHeaderStream
  ELSE f.type # "CONTINUATION"

\* HeadersEnded of the two frame types: a HEADERS frame looks at END_STREAM
headersEnded(f) == IF f.type = "HEADERS" THEN f.endStream ELSE f.endHeaders

-----------------------------------------------------------------------------
(* The function that readMetaFrame gives the HPACK decoder, and the checks *)
(* it makes of the whole block                                             *)

\* Mutant: a pseudo header may follow a regular one.
emitAnyOrder(m, field) ==
  IF ~m.on THEN m
  ELSE IF field = "Bad Name" THEN [m EXCEPT !.invalid = TRUE, !.on = FALSE]
  ELSE IF Len(m.fields) = MaxFields THEN [m EXCEPT !.truncated = TRUE, !.on = FALSE]
  ELSE [m EXCEPT !.fields = Append(@, field)]

emit(m, field) ==
  LET pseudo == field \in Pseudo
      saw    == [m EXCEPT !.sawRegular = @ \/ ~pseudo]
  IN IF ~m.on THEN m
     ELSE IF field = "Bad Name" \/ (pseudo /\ m.sawRegular)
     THEN [saw EXCEPT !.invalid = TRUE, !.on = FALSE]
     ELSE IF Len(m.fields) = MaxFields THEN [saw EXCEPT !.truncated = TRUE, !.on = FALSE]
     ELSE [saw EXCEPT !.fields = Append(@, field)]

\* PseudoFields, as positions: the fields before the first regular one
pseudos(m) == {i \in DOMAIN m.fields : \A k \in 1..i : m.fields[k] \in Pseudo}

pseudosValid(m) ==
  /\ \A i \in pseudos(m) : m.fields[i] # ":unknown"
  /\ \A i, j \in pseudos(m) : i # j => m.fields[i] # m.fields[j]
  /\ ~\E i, j \in pseudos(m) : m.fields[i] = ":method" /\ m.fields[j] = ":status"

-----------------------------------------------------------------------------

\* the serve goroutine has taken the error; readFrames goes on after one of a
\* stream
readFrames(kind) == IF kind = "stream" THEN "reading" ELSE "ended"

\* every ReadFrame under way returns the error
Fail(kind) ==
  /\ out' = [kind |-> kind] /\ metas' = 0 /\ meta' = NoMeta
  /\ rest' = <<>> /\ ended' = FALSE /\ status' = readFrames(kind)

\* hdec.Write: the fragment of a header frame goes to the decoder
Decode(depth, m, f) ==
  IF f.flaw = "hpack" THEN Fail("conn")
  ELSE /\ metas' = depth /\ meta' = [m EXCEPT !.from = Append(@, f.stream)]
       /\ rest' = f.fields /\ ended' = headersEnded(f) /\ status' = "decoding"
       /\ UNCHANGED out

Read(f) ==
  /\ status = "reading" /\ frames < MaxFrames /\ frames' = frames + 1
  /\ IF parse(f) # "none"
     THEN Fail(parse(f)) /\ UNCHANGED lastHeaderStream
     ELSE IF ~inOrder(f)
     THEN Fail("conn") /\ UNCHANGED lastHeaderStream
     ELSE /\ lastHeaderStream' = IF isHeader(f.type)
                                 THEN IF f.endHeaders THEN 0 ELSE f.stream
                                 ELSE lastHeaderStream
          /\ \/ /\ f.type = "HEADERS"
                /\ Decode(metas + 1, [NoMeta EXCEPT !.stream = f.stream], f)
             \/ /\ f.type = "CONTINUATION" /\ metas > 0
                /\ Decode(metas, meta, f)
             \/ /\ f.type # "HEADERS" /\ metas = 0
                /\ out' = [kind |-> f.type] /\ UNCHANGED <<metas, meta, rest, ended, status>>
             \/ /\ ~isHeader(f.type) /\ metas > 0
                /\ metas' = 0 /\ meta' = NoMeta /\ status' = "panic"
                /\ UNCHANGED <<rest, ended, out>>

\* the decoder emits a field
Emit ==
  /\ status = "decoding" /\ rest # <<>>
  /\ meta' = emit(meta, Head(rest)) /\ rest' = Tail(rest)
  /\ UNCHANGED <<lastHeaderStream, metas, ended, out, status, frames>>

\* the fragment is through: the next frame is read, or the block ends and the
\* innermost readMetaFrame returns it; an outer one would take it for a
\* CONTINUATION
FragmentEnds ==
  /\ status = "decoding" /\ rest = <<>>
  /\ \/ /\ ~ended /\ status' = "reading" /\ UNCHANGED <<metas, meta, rest, ended, out>>
     \/ ended /\ (meta.invalid \/ ~pseudosValid(meta)) /\ Fail("stream")
     \/ /\ ended /\ ~meta.invalid /\ pseudosValid(meta)
        /\ metas' = 0 /\ meta' = NoMeta /\ rest' = <<>> /\ ended' = FALSE
        /\ IF metas = 1
           THEN out' = [kind |-> "meta", frame |-> meta] /\ status' = "reading"
           ELSE status' = "panic" /\ UNCHANGED out
  /\ UNCHANGED <<lastHeaderStream, frames>>

Next == (\E f \in Frame : Read(f)) \/ Emit \/ FragmentEnds

Spec == Init /\ [][Next]_vars

-----------------------------------------------------------------------------

(* A header block that is returned was assembled from frames of one stream *)
(* ("checks whether HEADERS and CONTINUATION frames are contiguous",       *)
(* checkFrameOrder), and its fields are "guaranteed to be in the correct   *)
(* http2 order and not have unknown pseudo header fields or invalid header *)
(* field names" (MetaHeadersFrame.Fields), however the block was cut into  *)
(* frames and whatever was refused before it or in its midst.              *)
BlockSound ==
  out.kind = "meta" =>
    LET fs == out.frame.fields
    IN /\ \A i \in DOMAIN out.frame.from : out.frame.from[i] = out.frame.stream
       /\ \A i, j \in DOMAIN fs :
            /\ fs[i] \notin {":unknown", "Bad Name"}
            /\ i < j /\ fs[j] \in Pseudo => fs[i] \in Pseudo /\ fs[i] # fs[j]

(* readMetaFrame takes the next frame for a CONTINUATION, "guaranteed by   *)
(* checkFrameOrder": the type assertion never panics.                      *)
ContinuationGuaranteed == status # "panic"
=============================================================================
