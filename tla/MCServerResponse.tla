--------------------------- MODULE MCServerResponse ---------------------------
(***************************************************************************)
(* Requests and handler headers for TLC.                                   *)
(***************************************************************************)
EXTENDS ServerResponse

Bodies == {<<"none", 0, TRUE>>, <<"limited", 1, TRUE>>, <<"limited", 3, TRUE>>,
           <<"chunked", 1, FALSE>>, <<"chunked", 3, TRUE>>}

MCRequests ==
  {r \in {[method |-> x[1], proto |-> x[2], conn |-> x[3], expect |-> x[4], body |-> y[1],
           n |-> y[2], ok |-> y[3], wrapped |-> z = "wrapped", duplex |-> z = "duplex"] :
            x \in {<<"HEAD", 11, "", "">>, <<"GET", 10, "keep-alive", "">>, <<"GET", 10, "", "">>,
                   <<"POST", 11, "", "">>, <<"POST", 11, "", "100-continue">>,
                   <<"POST", 11, "", "other">>, <<"POST", 11, "close", "">>},
            y \in Bodies, z \in {"", "wrapped", "duplex"}} :
     /\ r.body = "none" \/ r.expect = "other" => ~r.wrapped /\ ~r.duplex
     /\ r.method # "POST" => r.body = "none" \/ (r.body = "limited" /\ r.n = 3)}

MCHeaders ==
  {h \in [cl : {-1, 2}, te : {"", "identity", "chunked"}, conn : {"", "close", "keep-alive"},
          trailer : BOOLEAN] :
     /\ h.trailer => h.cl = -1 /\ h.te = "" /\ h.conn = ""
     /\ h.te # "" => h.conn = ""
     /\ h.te = "chunked" => h.cl = 2}
=============================================================================
