--------------------------- MODULE MCPersistConn ---------------------------
(***************************************************************************)
(* Instances of PersistConn for TLC.                                       *)
(***************************************************************************)
EXTENDS PersistConn

CONSTANTS r1, r2

(* One request can be canceled in both ways, the other not at all.         *)
MCCancelChans ==
  [r \in Reqs |-> IF r = r1 THEN {"Cancel", "Context"} ELSE {}]

=============================================================================
