----------------------------- MODULE MCClientDo -----------------------------
(* Model checking of ClientDo. *)
EXTENDS ClientDo

(* www.example.com and example.com, and an unrelated host. *)
OneSubdomain == {<<"www", "home">>}

Request(method, body, getBody, key, policy, cookies, timeout) ==
  [flaw |-> "none", method |-> method, body |-> body, getBody |-> getBody, key |-> key, policy |-> policy,
   jar |-> cookies, timeout |-> timeout, custom |-> ~timeout]

(* No body, a body that can be had again, with and without an              *)
(* Idempotency-Key, and one that cannot; a request that cannot be written  *)
(* and a body that cannot be read.                                         *)
SomeRequests ==
  {Request("GET", FALSE, FALSE, FALSE, "default", TRUE, FALSE),
   Request("POST", TRUE, TRUE, TRUE, "caller", FALSE, TRUE),
   Request("POST", TRUE, TRUE, FALSE, "default", FALSE, FALSE),
   Request("GET", TRUE, TRUE, FALSE, "default", FALSE, TRUE),
   Request("POST", TRUE, FALSE, FALSE, "caller", FALSE, TRUE),
   [Request("POST", TRUE, TRUE, TRUE, "default", FALSE, TRUE) EXCEPT !.flaw = "head"],
   [Request("POST", TRUE, TRUE, TRUE, "default", FALSE, TRUE) EXCEPT !.flaw = "body"]}
=============================================================================
