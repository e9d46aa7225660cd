------------------------------- MODULE MCDial -------------------------------
(* The instance of Dial that TLC checks: all of it, Dial has no constants. *)
EXTENDS Dial
=============================================================================
