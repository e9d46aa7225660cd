------------------------------- MODULE MCBody -------------------------------
(***************************************************************************)
(* Messages for TLC: requests and responses in every combination of the    *)
(* fields that decide the framing.                                         *)
(***************************************************************************)
EXTENDS Body

Requests ==
  {[kind |-> "req", method |-> me, status |-> 200, proto |-> 11, body |-> x[1], n |-> x[2],
    fails |-> x[3], cl |-> cl, te |-> te, close |-> c, conn |-> "", trailer |-> tr,
    uncompressed |-> FALSE] :
     me \in {"GET", "POST", "CONNECT"},
     x \in {<<"nil", 0, FALSE>>, <<"NoBody", 0, FALSE>>, <<"reader", 0, FALSE>>,
            <<"reader", 2, FALSE>>, <<"reader", 3, FALSE>>, <<"reader", 1, TRUE>>},
     cl \in {-1, 0, 2}, te \in {<<>>, <<"chunked">>, <<"identity">>},
     c \in BOOLEAN, tr \in {"none", "ok", "bad"}}

Responses ==
  {[kind |-> "resp", method |-> me, status |-> st, proto |-> p, body |-> x[1], n |-> x[2],
    fails |-> x[3], cl |-> cl, te |-> te, close |-> FALSE, conn |-> co, trailer |-> tr,
    uncompressed |-> u] :
     me \in {"GET", "HEAD", "POST"}, st \in {200, 204}, p \in {10, 11},
     x \in {<<"nil", 0, FALSE>>, <<"reader", 0, FALSE>>, <<"reader", 2, FALSE>>, <<"reader", 1, TRUE>>},
     cl \in {-1, 0, 2}, te \in {<<>>, <<"chunked">>},
     co \in {"", "close"}, tr \in {"none", "ok"}, u \in BOOLEAN}

AllLimits == {-1, 1, 2}

AllMessages == Requests \cup Responses
=============================================================================
