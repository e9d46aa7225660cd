------------------------------ MODULE ClientDo ------------------------------
(***************************************************************************)
(* One call of Client.Do (client.go: do, send, setRequestCancel,           *)
(* makeHeadersCopier, cancelTimerBody) over Transport.roundTrip and its    *)
(* retries (transport.go: roundTrip, readTrackingBody, rewindBody,         *)
(* shouldRetryRequest).  The exchange on a connection is reduced to what   *)
(* the caller sees of it, PersistConn has its inside: the writeLoop that   *)
(* reads and closes the request body in a goroutine of its own, the        *)
(* response, and the ways the connection fails.                            *)
(*                                                                         *)
(* A request body is a number: 1 is the caller's, each call of GetBody     *)
(* returns the next.  A hop is one request of the redirect chain, an       *)
(* attempt one exchange of a hop.                                          *)
(***************************************************************************)
EXTENDS Naturals, Sequences, FiniteSets, SequencesExt

CONSTANTS Hosts,          \* hosts of the URLs
          Home,           \* host of the caller's URL
          Subdomains,     \* pairs <<sub, parent>> of distinct hosts
          Cookies,        \* names of the cookies the caller set
          RedirectLimit,  \* requests after which defaultCheckRedirect stops, 10 in the code
          MaxHops,        \* bound: hops a CheckRedirect of the caller allows
          Pooled,         \* bound: idle connections that can be met
          Requests        \* what callers pass, of Calls

\* `flaw': Request.write refuses the head of the caller's request, or a body
\* fails when it is read or is not as long as promised.
Calls == [flaw : {"none", "head", "body"}, method : {"GET", "POST"}, body : BOOLEAN, getBody : BOOLEAN, key : BOOLEAN,
          policy : {"default", "caller"}, jar : BOOLEAN, timeout : BOOLEAN, custom : BOOLEAN]

ASSUME ClientDoAssumption ==
  /\ Home \in Hosts /\ Subdomains \subseteq Hosts \X Hosts
  /\ {RedirectLimit, MaxHops} \subseteq Nat \ {0} /\ Pooled \in Nat
  /\ Requests \subseteq Calls

VARIABLES
  call,       \* what the caller passed, of Calls
  pc,         \* where Do is
  req,        \* the current request of do
  hops,       \* Len(reqs)
  redirect,   \* redirectMethod, includeBody of the last response
  check,      \* what CheckRedirect returned
  icookies,   \* the initial cookies still copied on redirects
  bodies,     \* for each request body obtained, whether it is closed
  sending,    \* the body of roundTrip's own req, rewound at retries; 0 when none
  writers,    \* writeLoops, one per attempt: hop, method, body, st, read, wrote, and
              \* bodyError, the error that setError gave to the request
  conn,       \* the connection of the attempt: reused, and the error that broke it
  idle,       \* idle connections left in the pool
  resps,      \* for each response, whether its body is open
  last,       \* the last response: code, cookies it sets, whether its body arrives
  timers,     \* hops whose deadline timer has not been stopped
  done,       \* the context of the request is done
  result,     \* what Do returned
  rewritten,  \* ghost: a 301, 302 or 303 was followed
  set,        \* ghost: cookies set by the responses that were followed
  via         \* ghost: the kinds of the Locations that were followed

vars == <<call, pc, req, hops, redirect, check, icookies, bodies, sending, writers,
          conn, idle, resps, last, timers, done, result, rewritten, set, via>>

Codes == {"ok", "found", "temporary"}   \* not a redirect; 301, 302, 303; 307, 308
(* What Location holds: a path, //host and a path, or a whole URL.          *)
References == {"path", "network", "absolute"}
Kinds == {"canceled", "body", "nothing", "read", "closedIdle", "other"}
NoConn == [reused |-> FALSE, err |-> "none"]

Init ==
  /\ call \in {c \in Requests : c.getBody => c.body}
  /\ pc = "send" /\ hops = 0
  /\ req = [method |-> call.method, body |-> IF call.body THEN 1 ELSE 0, host |-> Home,
            custom |-> call.custom, cookies |-> Cookies]
  /\ redirect = [method |-> "GET", includeBody |-> FALSE] /\ check = "ok"
  /\ icookies = Cookies
  /\ bodies = IF call.body THEN <<FALSE>> ELSE <<>>
  /\ sending = 0 /\ writers = <<>> /\ conn = NoConn /\ idle = Pooled
  /\ resps = <<>> /\ last = [code |-> "ok", cookies |-> {}, arrives |-> TRUE]
  /\ timers = {} /\ done = FALSE /\ result = "none"
  /\ rewritten = FALSE /\ set = {} /\ via = {}

Writer == Len(writers)
didRead(b) == \E i \in DOMAIN writers : writers[i].body = b /\ writers[i].read

(* Request.closeBody, on a nil body too. *)
closeBody(bs, b) == IF b = 0 THEN bs ELSE [bs EXCEPT ![b] = TRUE]

-----------------------------------------------------------------------------
(* Client.do, from a redirect to the next request *)

Return(res) == pc' = "returned" /\ result' = res

CloseResponse == resps' = [resps EXCEPT ![hops] = FALSE] /\ timers' = timers \ {hops}

(* A response with a redirect code and no Location is the answer. *)
LocationMissing ==
  /\ pc = "redirect" /\ Return("response")
  /\ UNCHANGED <<call, req, hops, redirect, check, icookies, bodies, sending, writers, conn,
                 idle, resps, last, timers, done, rewritten, set, via>>

\* Mutant: the response is not closed.
LocationInvalidLeavesOpen ==
  /\ pc = "redirect" /\ Return("error")
  /\ bodies' = closeBody(bodies, req.body)
  /\ UNCHANGED <<call, req, hops, redirect, check, icookies, sending, writers, conn, idle,
                 resps, last, timers, done, rewritten, set, via>>

LocationInvalid ==
  /\ pc = "redirect" /\ Return("error")
  /\ CloseResponse
  /\ bodies' = closeBody(bodies, req.body)
  /\ UNCHANGED <<call, req, hops, redirect, check, icookies, sending, writers, conn, idle,
                 last, done, rewritten, set, via>>

resends == redirect.includeBody /\ call.getBody

GetBodyFails ==
  /\ pc = "redirect" /\ resends /\ Return("error")
  /\ CloseResponse
  /\ req' = [req EXCEPT !.method = redirect.method, !.body = 0]
  /\ UNCHANGED <<call, hops, redirect, check, icookies, bodies, sending, writers, conn, idle,
                 last, done, rewritten, set, via>>

isDomainOrSubdomain(sub, parent) == sub = parent \/ <<sub, parent>> \in Subdomains

(* u.IsAbs() looks at the scheme only, so //host/path counts as relative.  *)
hostHeader(reference) == req.custom /\ reference # "absolute"

\* Mutant: only the cookies of the last response are left out.
keptCookiesLast == IF call.jar THEN Cookies \ last.cookies ELSE icookies

keptCookies == IF call.jar THEN icookies \ last.cookies ELSE icookies

(* The request for the Location: the caller's Host header survives a       *)
(* relative one only, the caller's cookies go to the same domain as the    *)
(* previous hop, without those a response has set when there is a jar.     *)
NextRequest ==
  /\ pc = "redirect" /\ pc' = "check"
  /\ \E host \in Hosts, reference \in References :
       /\ reference = "path" => host = req.host
       /\ via' = via \union {reference}
       /\ req' = [method  |-> redirect.method,
                  body    |-> IF resends THEN Len(bodies) + 1 ELSE 0,
                  host    |-> host,
                  custom  |-> hostHeader(reference),
                  cookies |-> IF isDomainOrSubdomain(host, req.host) THEN keptCookies ELSE {}]
  /\ icookies' = keptCookies
  /\ bodies' = IF resends THEN Append(bodies, FALSE) ELSE bodies
  /\ set' = set \union last.cookies
  /\ UNCHANGED <<call, hops, redirect, check, sending, writers, conn, idle, resps, last,
                 timers, done, result, rewritten>>

CheckRedirectLast ==
  /\ pc = "check" /\ call.policy = "caller" /\ Return("response")
  /\ UNCHANGED <<call, req, hops, redirect, check, icookies, bodies, sending, writers, conn,
                 idle, resps, last, timers, done, rewritten, set, via>>

CheckRedirect ==
  /\ pc = "check" /\ pc' = "slurp"
  /\ check' \in CASE call.policy = "default" -> {IF hops >= RedirectLimit THEN "error" ELSE "ok"}
                  [] hops < MaxHops          -> {"ok", "error"}
                  [] OTHER                   -> {"error"}
  /\ UNCHANGED <<call, req, hops, redirect, icookies, bodies, sending, writers, conn, idle,
                 resps, last, timers, done, result, rewritten, set, via>>

(* Up to 2 KB of the previous response are read, then it is closed.  The   *)
(* read ends when the server sends them or the context is done.            *)
Slurp ==
  /\ pc = "slurp" /\ (last.arrives \/ done)
  /\ CloseResponse
  /\ IF check = "error"
     THEN Return("responseAndError") /\ bodies' = closeBody(bodies, req.body)
     ELSE pc' = "send" /\ UNCHANGED <<bodies, result>>
  /\ UNCHANGED <<call, req, hops, redirect, check, icookies, sending, writers, conn, idle,
                 last, done, rewritten, set, via>>

-----------------------------------------------------------------------------
(* send and Transport.roundTrip *)

(* setRequestCancel starts the timer of this hop, setupRewindBody wraps    *)
(* the body.                                                               *)
Send ==
  /\ pc = "send" /\ pc' = "roundTrip"
  /\ hops' = hops + 1
  /\ timers' = IF call.timeout THEN timers \union {hops + 1} ELSE timers
  /\ sending' = req.body
  /\ UNCHANGED <<call, req, redirect, check, icookies, bodies, writers, conn, idle, resps,
                 last, done, result, rewritten, set, via>>

(* roundTrip returns an error: send stops the timer, do returns.           *)
Fails(bs) ==
  /\ Return("error") /\ bodies' = bs
  /\ timers' = timers \ {hops}
  /\ UNCHANGED <<call, req, hops, redirect, check, icookies, sending, writers, idle, resps,
                 last, done, rewritten, set, via>>

(* An invalid request, a proxy or a getConn error, a context that is done. *)
RoundTripRefuses ==
  /\ pc = "roundTrip" /\ Fails(closeBody(bodies, sending))
  /\ UNCHANGED conn

(* The select at the head of the loop prefers ctx.Done.                    *)
GetConn ==
  /\ pc = "roundTrip" /\ ~done /\ pc' = "exchange"
  /\ \E reused \in BOOLEAN :
       /\ reused => idle > 0
       /\ idle' = IF reused THEN idle - 1 ELSE idle
       /\ conn' = [reused |-> reused, err |-> "none"]
  /\ writers' = Append(writers, [hop |-> hops, method |-> req.method, body |-> sending,
                                 st |-> "queued", read |-> FALSE, wrote |-> FALSE,
                                 bodyError |-> FALSE])
  /\ UNCHANGED <<call, req, hops, redirect, check, icookies, bodies, sending, resps, last,
                 timers, done, result, rewritten, set, via>>

(* The requests that do makes for redirects have no GetBody.               *)
hasGetBody == call.getBody /\ hops = 1

\* Mutant: any request that can be built again is sent again.
isReplayableAny == sending = 0 \/ hasGetBody

isReplayable ==
  /\ sending = 0 \/ hasGetBody
  /\ req.method = "GET" \/ call.key

shouldRetryRequest ==
  /\ conn.reused
  /\ IF conn.err = "nothing" THEN sending = 0 \/ hasGetBody
                             ELSE isReplayable /\ conn.err \in {"read", "closedIdle"}

\* Mutant: a body the writeLoop never took is left open (issue 49621).
GiveUpLeavesBody ==
  /\ pc = "failed" /\ ~shouldRetryRequest
  /\ Fails(bodies) /\ conn' = NoConn

GiveUp ==
  /\ pc = "failed" /\ ~shouldRetryRequest
  /\ Fails(closeBody(bodies, sending)) /\ conn' = NoConn

\* Mutant: the body is sent as it is.
needsRewindNever == FALSE

needsRewind == sending # 0 /\ (didRead(sending) \/ bodies[sending])

Retry ==
  /\ pc = "failed" /\ shouldRetryRequest /\ ~needsRewind
  /\ pc' = "roundTrip" /\ conn' = NoConn
  /\ UNCHANGED <<call, req, hops, redirect, check, icookies, bodies, sending, writers, idle,
                 resps, last, timers, done, result, rewritten, set, via>>

RetryRewinds ==
  /\ pc = "failed" /\ shouldRetryRequest /\ needsRewind
  /\ pc' = "roundTrip" /\ conn' = NoConn
  /\ bodies' = Append(closeBody(bodies, sending), FALSE)
  /\ sending' = Len(bodies) + 1
  /\ UNCHANGED <<call, req, hops, redirect, check, icookies, writers, idle, resps, last,
                 timers, done, result, rewritten, set, via>>

RetryCannotRewind ==
  /\ pc = "failed" /\ shouldRetryRequest /\ needsRewind
  /\ Fails(closeBody(bodies, sending)) /\ conn' = NoConn

(* redirectBehavior: 307 and 308 resend the caller's body, so a body that  *)
(* cannot be had again makes the response the answer.                      *)
shouldRedirect(code) == code = "found" \/ (code = "temporary" /\ (call.body => call.getBody))

ResponseReturned ==
  /\ pc = "response" /\ ~shouldRedirect(last.code) /\ Return("response")
  /\ UNCHANGED <<call, req, hops, redirect, check, icookies, bodies, sending, writers, conn,
                 idle, resps, last, timers, done, rewritten, set, via>>

ResponseRedirects ==
  /\ pc = "response" /\ shouldRedirect(last.code) /\ pc' = "redirect"
  /\ redirect' = [method      |-> IF last.code = "found" THEN "GET" ELSE req.method,
                  includeBody |-> last.code = "temporary"]
  /\ bodies' = closeBody(bodies, req.body)
  /\ rewritten' = (rewritten \/ last.code = "found")
  /\ UNCHANGED <<call, req, hops, check, icookies, sending, writers, conn, idle, resps, last,
                 timers, done, result, set, via>>

(* cancelTimerBody.Close *)
CallerCloses ==
  /\ pc = "returned" /\ result = "response" /\ resps[hops]
  /\ CloseResponse
  /\ UNCHANGED <<call, pc, req, hops, redirect, check, icookies, bodies, sending, writers,
                 conn, idle, last, done, result, rewritten, set, via>>

-----------------------------------------------------------------------------
(* The connection: persistConn.roundTrip and writeLoop as roundTrip sees   *)
(* them                                                                    *)

healthy == pc = "exchange" /\ conn.err = "none"
broken == pc = "exchange" /\ conn.err # "none"

WriteLoopLeaves ==
  <<call, pc, req, hops, redirect, check, icookies, sending, idle, resps,
    last, timers, done, result, rewritten, set, via>>
WriteLoopStep(i) == UNCHANGED <<WriteLoopLeaves, conn>>

(* What Request.write will find wrong with this request.                   *)
headFlawed(i) == call.flaw = "head" /\ writers[i].hop = 1
bodyFlawed(i) == call.flaw = "body" /\ writers[i].body # 0

WriteLoopTakes ==
  \E i \in DOMAIN writers :
    /\ writers[i].st = "queued"
    /\ writers' = [writers EXCEPT ![i].st = "writing"]
    /\ WriteLoopStep(i) /\ UNCHANGED bodies

WriteLoopReads ==
  \E i \in DOMAIN writers :
    /\ writers[i].st = "writing" /\ writers[i].body # 0 /\ ~writers[i].read
    /\ ~headFlawed(i)
    /\ writers' = [writers EXCEPT ![i].read = TRUE]
    /\ WriteLoopStep(i) /\ UNCHANGED bodies

(* Bytes reach the connection, at the earliest when bw is full.            *)
WriteLoopFlushes ==
  \E i \in DOMAIN writers :
    /\ writers[i].st = "writing" /\ ~writers[i].wrote /\ ~headFlawed(i)
    /\ writers' = [writers EXCEPT ![i].wrote = TRUE]
    /\ WriteLoopStep(i) /\ UNCHANGED bodies

WriteLoopEnds ==
  \E i \in DOMAIN writers :
    /\ writers[i].st = "writing" /\ writers[i].wrote
    /\ (writers[i].body # 0) => writers[i].read
    /\ ~bodyFlawed(i)
    /\ writers' = [writers EXCEPT ![i].st = "done"]
    /\ bodies' = closeBody(bodies, writers[i].body)
    /\ WriteLoopStep(i)

(* Writing on a connection that is closed fails; Request.write and the     *)
(* writeLoop close the body.  After a response the connection may close    *)
(* at any time.  An error of the copy counts as one of the body, even when *)
(* it was the connection that refused the bytes (doBodyCopy).              *)
WriteLoopFails ==
  \E i \in DOMAIN writers, copying \in BOOLEAN :
    /\ writers[i].st = "writing" /\ (broken \/ i < Writer \/ pc # "exchange")
    /\ copying => writers[i].read
    /\ writers' = [writers EXCEPT ![i].st = "done", ![i].bodyError = copying]
    /\ bodies' = closeBody(bodies, writers[i].body)
    /\ WriteLoopStep(i)

(* writeLoop closes a connection whose request it could not write.         *)
WriteLoopCloses(i) ==
  /\ conn' = IF healthy /\ i = Writer THEN [conn EXCEPT !.err = "other"] ELSE conn
  /\ bodies' = closeBody(bodies, writers[i].body)
  /\ UNCHANGED WriteLoopLeaves

(* Request.write returns before the body: no host, a host that is no host, *)
(* a control character in the URL.  The head is still in bw.               *)
WriteLoopRefuses ==
  \E i \in DOMAIN writers :
    /\ writers[i].st = "writing" /\ headFlawed(i)
    /\ writers' = [writers EXCEPT ![i].st = "done"]
    /\ WriteLoopCloses(i)

(* Reading the body fails, or it has not the promised length.              *)
WriteLoopBodyFails ==
  \E i \in DOMAIN writers, reading \in BOOLEAN :
    /\ writers[i].st = "writing" /\ bodyFlawed(i)
    /\ writers' = [writers EXCEPT ![i].st = "done", ![i].read = TRUE, ![i].bodyError = reading]
    /\ WriteLoopCloses(i)

(* writeLoop selects closech before it took the request.                   *)
WriteLoopQuits ==
  /\ broken /\ writers[Writer].st = "queued"
  /\ writers' = [writers EXCEPT ![Writer].st = "done"]
  /\ WriteLoopStep(Writer) /\ UNCHANGED bodies

ConnBreaks ==
  /\ healthy
  /\ \E err \in {"closedIdle", "read", "other"} : conn' = [conn EXCEPT !.err = err]
  /\ UNCHANGED <<call, pc, req, hops, redirect, check, icookies, bodies, sending, writers,
                 idle, resps, last, timers, done, result, rewritten, set, via>>

\* Mutant: the cancellation is looked at when the request has been written.
ExchangeCanceledAfterWrite ==
  /\ healthy /\ done /\ writers[Writer].st = "done"
  /\ conn' = [conn EXCEPT !.err = "canceled"]
  /\ UNCHANGED <<call, pc, req, hops, redirect, check, icookies, bodies, sending, writers,
                 idle, resps, last, timers, done, result, rewritten, set, via>>

(* roundTrip cancels the request and closes the connection.                *)
ExchangeCanceled ==
  /\ healthy /\ done /\ conn' = [conn EXCEPT !.err = "canceled"]
  /\ UNCHANGED <<call, pc, req, hops, redirect, check, icookies, bodies, sending, writers,
                 idle, resps, last, timers, done, result, rewritten, set, via>>

(* mapRoundTripError waits for the end of writeLoop first.                 *)
mapRoundTripError(writer) ==
  CASE conn.err = "canceled" -> "canceled"
    [] conn.err # "canceled" /\ writer.bodyError -> "body"
    [] conn.err = "closedIdle" /\ ~writer.bodyError -> "closedIdle"
    [] conn.err \notin {"canceled", "closedIdle"} /\ ~writer.bodyError /\ ~writer.wrote -> "nothing"
    [] OTHER -> conn.err

ExchangeFails ==
  /\ broken /\ writers[Writer].st = "done" /\ pc' = "failed"
  /\ conn' = [conn EXCEPT !.err = mapRoundTripError(writers[Writer])]
  /\ UNCHANGED <<call, req, hops, redirect, check, icookies, bodies, sending, writers, idle,
                 resps, last, timers, done, result, rewritten, set, via>>

(* The server may answer before it has the whole request, but as in        *)
(* PersistConn it answers only what it was sent.  (A response that were    *)
(* there before writeLoop took the request could end the connection first; *)
(* writeLoop might then see closech alone and leave the body open.)  The   *)
(* cookies of a response matter when there is a jar.                       *)
ResponseArrives ==
  /\ healthy /\ writers[Writer].wrote /\ pc' = "response"
  /\ \E code \in Codes, cookies \in SUBSET (IF call.jar THEN Cookies ELSE {}), arrives \in BOOLEAN :
       last' = [code |-> code, cookies |-> cookies, arrives |-> arrives]
  /\ resps' = Append(resps, TRUE)
  /\ UNCHANGED <<call, req, hops, redirect, check, icookies, bodies, sending, writers, conn,
                 idle, timers, done, result, rewritten, set, via>>

-----------------------------------------------------------------------------
(* The context *)

Expires ==
  /\ ~done /\ done' = TRUE
  /\ UNCHANGED <<call, pc, req, hops, redirect, check, icookies, bodies, sending, writers,
                 conn, idle, resps, last, timers, result, rewritten, set, via>>

DeadlinePasses == call.timeout /\ Expires
CallerCancels == ~call.timeout /\ Expires

Next ==
  \/ LocationMissing \/ LocationInvalid \/ GetBodyFails \/ NextRequest
  \/ CheckRedirectLast \/ CheckRedirect \/ Slurp \/ Send
  \/ RoundTripRefuses \/ GetConn \/ GiveUp \/ Retry \/ RetryRewinds \/ RetryCannotRewind
  \/ ResponseReturned \/ ResponseRedirects \/ CallerCloses
  \/ WriteLoopTakes \/ WriteLoopReads \/ WriteLoopFlushes \/ WriteLoopEnds
  \/ WriteLoopFails \/ WriteLoopRefuses \/ WriteLoopBodyFails \/ WriteLoopQuits
  \/ ConnBreaks \/ ExchangeCanceled \/ ExchangeFails \/ ResponseArrives
  \/ DeadlinePasses \/ CallerCancels

Spec == Init /\ [][Next]_vars

(* Do's own goroutine runs on, roundTrip answers a context that is done,   *)
(* writeLoop leaves a closed connection, and a deadline passes.  The       *)
(* server need not answer.                                                 *)
Doing ==
  \/ LocationMissing \/ LocationInvalid \/ NextRequest \/ CheckRedirect \/ Slurp \/ Send
  \/ RoundTripRefuses \/ GetConn \/ GiveUp \/ Retry \/ RetryRewinds
  \/ ResponseReturned \/ ResponseRedirects \/ ExchangeCanceled \/ ExchangeFails

FairSpec ==
  /\ Spec /\ WF_vars(Doing) /\ WF_vars(DeadlinePasses)
  /\ WF_vars(WriteLoopFails) /\ WF_vars(WriteLoopQuits)

-----------------------------------------------------------------------------
(* Properties *)

TypeOK ==
  /\ call \in Requests
  /\ pc \in {"redirect", "check", "slurp", "send", "roundTrip", "exchange", "failed",
            "response", "returned"}
  /\ req \in [method : {"GET", "POST"}, body : 0..Len(bodies), host : Hosts,
             custom : BOOLEAN, cookies : SUBSET Cookies]
  /\ hops \in Nat /\ check \in {"ok", "error"} /\ icookies \subseteq Cookies
  /\ redirect \in [method : {"GET", "POST"}, includeBody : BOOLEAN]
  /\ bodies \in Seq(BOOLEAN) /\ sending \in 0..Len(bodies)
  /\ \A i \in DOMAIN writers :
       writers[i] \in [hop : 1..hops, method : {"GET", "POST"}, body : 0..Len(bodies),
                      st : {"queued", "writing", "done"}, read : BOOLEAN, wrote : BOOLEAN,
                      bodyError : BOOLEAN]
  /\ conn \in [reused : BOOLEAN, err : Kinds \union {"none"}] /\ idle \in 0..Pooled
  /\ resps \in Seq(BOOLEAN) /\ timers \subseteq 1..hops /\ done \in BOOLEAN
  /\ last \in [code : Codes, cookies : SUBSET Cookies, arrives : BOOLEAN]
  /\ result \in {"none", "response", "error", "responseAndError"}
  /\ rewritten \in BOOLEAN /\ set \subseteq Cookies /\ via \subseteq References

settled == pc = "returned" /\ \A i \in DOMAIN writers : writers[i].st = "done"

(* Once Do has returned and the writeLoops are through, every request body *)
(* the caller or GetBody supplied is closed ("The request Body, if         *)
(* non-nil, will be closed by the underlying Transport, even on errors"),  *)
(* whoever of do, roundTrip and writeLoop had it last.  The one exception  *)
(* is the body made for a request that CheckRedirect then stops with       *)
(* ErrUseLastResponse: do returns without closing it.                      *)
lastResponseUsed == pc = "returned" /\ result = "response" /\ Len(resps) > 0 /\ req.body > sending
BodiesClosed ==
  settled => \A b \in DOMAIN bodies : bodies[b] \/ (lastResponseUsed /\ b = req.body)

(* A body is sent from its beginning: no attempt starts on a body that an  *)
(* earlier attempt has read from, or that was closed.                      *)
SentFromStart ==
  /\ \A i, j \in DOMAIN writers :
       i < j /\ writers[i].body = writers[j].body /\ writers[i].body # 0 => ~writers[i].read
  /\ \A j \in DOMAIN writers :
       writers[j].st = "queued" /\ writers[j].body # 0 => ~bodies[writers[j].body]

(* Of the attempts of one hop at most one is with the server and the       *)
(* writeLoop of the others has ended; if bytes of two of them reached a    *)
(* connection the request was one that may be repeated; and none follows   *)
(* an error of the request body ("Errors reading from the user's           *)
(* Request.Body are high priority", writeLoop).                            *)
AttemptsApart ==
  \A i, j \in DOMAIN writers :
    i < j /\ writers[i].hop = writers[j].hop =>
      /\ writers[i].st = "done" /\ ~writers[i].bodyError
      /\ writers[i].wrote /\ writers[j].wrote => writers[j].method = "GET" \/ call.key

(* Do leaves nothing behind: while it runs at most the last response is    *)
(* open, when it returns only one it returns without an error is, and the  *)
(* deadline timers that run are those of open responses and of the attempt *)
(* under way.                                                              *)
NothingLeft ==
  /\ \A h \in DOMAIN resps : resps[h] => h = Len(resps)
  /\ pc = "returned" /\ result # "response" => \A h \in DOMAIN resps : ~resps[h]
  /\ \A h \in timers : IF h <= Len(resps) THEN resps[h] ELSE pc # "returned"

(* "If the caller specified a custom Host header and the redirect location *)
(* is relative, preserve the Host header": the requests of the chain carry *)
(* it up to the first absolute Location and never again, also not when the *)
(* chain comes back.  A Location of the form //host/path is relative, and  *)
(* the only way by which the header travels to another host.               *)
HostHeaderStays ==
  /\ req.custom <=> call.custom /\ "absolute" \notin via
  /\ req.custom => req.host = Home \/ "network" \in via

(* "These headers will be ignored when following a redirect to a domain    *)
(* that is not a subdomain match or exact match of the initial domain."    *)
(* The code compares with the previous request instead.                    *)
SensitiveHeadersStay == req.cookies # {} => isDomainOrSubdomain(req.host, Home)

(* "When forwarding the Cookie header, any mutated cookies will be         *)
(* omitted": with a jar, a cookie that some response of the chain set is   *)
(* not copied from the caller's header by any later request.               *)
MutatedCookiesOmitted == call.jar => req.cookies \cap set = {}

(* Headers that do not travel: the caller's Host and the mutated cookies.  *)
HeadersStay == TypeOK /\ HostHeaderStays /\ MutatedCookiesOmitted

(* "A 301, 302, or 303 redirect causes subsequent requests to use HTTP     *)
(* method GET, with no body."                                              *)
NoBodyAfterRewrite == rewritten /\ pc = "send" => req.body = 0

(* With a Client.Timeout, Do returns although the server never answers,    *)
(* stalls in the body of a redirect or never takes the request body.       *)
TimeoutReturns == call.timeout ~> pc = "returned"
=============================================================================
