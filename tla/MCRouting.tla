----------------------------- MODULE MCRouting -----------------------------
(* Model checking of Routing. *)
EXTENDS Routing

Surface(method, host, path) == [method |-> method, host |-> host, path |-> path]

PatternPaths == {<<"">>, <<"{$}">>, <<"{x...}">>, <<"a">>, <<"{x}">>, <<"a", "">>,
                 <<"{x}", "">>, <<"a", "{x}">>, <<"{x}", "b">>, <<"a", "b">>, <<"a", "{$}">>,
                 <<"a", "b", "{x...}">>}

MCSurfaces ==
  {Surface("", "", p) : p \in PatternPaths}
    \union {Surface("GET", "", p) : p \in {<<"">>, <<"a", "b">>, <<"a", "">>, <<"{x}">>, <<"a", "..", "b">>}}
    \union {Surface("POST", "", p) : p \in {<<"a">>, <<"{x}", "">>}}
    \union {Surface("", "h", p) : p \in {<<"a", "">>, <<"{x}", "b">>}}
    \union {Surface("GET", "h", p) : p \in {<<"a", "b">>, <<"{x...}", "a">>}}

Paths == {<<"">>, <<"a">>, <<"b">>, <<"a", "">>, <<"b", "">>, <<"a", "b">>, <<"b", "b">>,
          <<"a", "c">>, <<"a", "b", "">>, <<"a", "b", "c">>, <<"b", "..", "a">>,
          <<"..">>, <<"a", ".">>, <<"a", "..">>, <<"a", "b", "..">>, <<"..", "">>}

MCUniverse ==
  {Surface(m, h, p) : m \in {"GET", "HEAD", "POST", "PUT"}, h \in {"", "h"}, p \in Paths}

Unclean == {<<"", "a">>, <<"b", "..", "a">>, <<"a", ".", "b">>, <<"..", "">>}

MCAsked ==
  {Surface(m, h, p) : m \in {"GET", "POST"}, h \in {"", "h"},
                      p \in Unclean \union {<<"a">>, <<"a", "b">>, <<"b", "">>}}

Connects == {Surface("CONNECT", "", p) : p \in Paths}
=============================================================================
