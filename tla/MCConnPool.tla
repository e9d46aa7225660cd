----------------------------- MODULE MCConnPool -----------------------------
(***************************************************************************)
(* Instances of ConnPool for TLC.                                          *)
(***************************************************************************)
EXTENDS ConnPool

CONSTANTS w1, w2, w3, k1, k2

OneHost  == [w \in Wants |-> k1]
TwoHosts == [w \in Wants |-> IF w = w3 THEN k2 ELSE k1]

=============================================================================
