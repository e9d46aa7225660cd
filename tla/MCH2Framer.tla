----------------------------- MODULE MCH2Framer -----------------------------
(* An instance of H2Framer: fragments of at most one field, two streams.   *)
EXTENDS H2Framer
SmallFragments == {<<>>} \cup {<<x>> : x \in Fields}
=============================================================================
