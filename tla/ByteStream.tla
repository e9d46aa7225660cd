----------------------------- MODULE ByteStream -----------------------------
(***************************************************************************)
(* What a connection promises its reader: the bytes the peer sent, numbered*)
(* from 1, each once and in order.  ConnReader implements it with a read   *)
(* in another goroutine, a byte held back and a buffer.                    *)
(***************************************************************************)
EXTENDS Naturals, Sequences

VARIABLES sent, delivered

Init == sent = 0 /\ delivered = <<>>

Send == sent' = sent + 1 /\ UNCHANGED delivered

Receive ==
  /\ \E n \in 1..(sent - Len(delivered)) :
       delivered' = delivered \o [i \in 1..n |-> Len(delivered) + i]
  /\ UNCHANGED sent

Next == Send \/ Receive

Spec == Init /\ [][Next]_<<sent, delivered>>
=============================================================================
