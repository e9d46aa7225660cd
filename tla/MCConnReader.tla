---------------------------- MODULE MCConnReader ----------------------------
(***************************************************************************)
(* Three requests for TLC: with a body, without one, with a body.          *)
(***************************************************************************)
EXTENDS ConnReader

Pipeline == <<2, 0, 1>>
=============================================================================
