------------------------------ MODULE Routing ------------------------------
(***************************************************************************)
(* ServeMux (server.go, pattern.go, routing_tree.go): patterns are parsed  *)
(* and put into a decision tree over host, method and path segments; a     *)
(* request is looked up there, redirected to a clean path or one with a    *)
(* trailing slash, or answered 404 or 405.  mux.mu is held for one walk of *)
(* the tree at a time, so a registration may come between the two walks of *)
(* a request that is not found.                                            *)
(*                                                                         *)
(* A path is split at its slashes: "/a/b/" is <<"a", "b", "">> and "/" is  *)
(* <<"">>; the path of a pattern likewise, with "{x}", "{x...}" and "{$}". *)
(* Escapes are not modelled, and the literal "*", whose key in the tree is *)
(* that of a multi wildcard, is not among the elements.                    *)
(***************************************************************************)
EXTENDS Naturals, Sequences, FiniteSets, SequencesExt

CONSTANTS Surfaces,      \* patterns handed to Handle: method, host, path
          Asked,         \* requests that goroutines look up: method, host, path
          Universe,      \* requests every mux is tried with
          MaxPatterns    \* bound: patterns registered

ASSUME RoutingAssumption == MaxPatterns \in Nat

VARIABLES leaves,        \* the tree: the pattern of each leaf, by its keys from the root
          lookup         \* the findHandler in progress, or its result

vars == <<leaves, lookup>>

(* No node, no pattern; a walk that meets a nil pattern.                   *)
None == [method |-> "none", host |-> "", path |-> <<>>, segments |-> <<>>]

-----------------------------------------------------------------------------
(* Paths *)

(* cleanPath: no empty, "." and ".." elements, the trailing slash kept.    *)
cleanPath(path) ==
  LET step(done, e) == CASE e \in {"", "."} -> done
                         [] e = ".."        -> IF done = <<>> THEN done ELSE Front(done)
                         [] OTHER           -> Append(done, e)
      clean == FoldLeft(step, <<>>, path)
  IN  IF clean = <<>> \/ path[Len(path)] = "" THEN Append(clean, "") ELSE clean

(* firstSegment: a trailing slash is a segment of its own.                 *)
firstSegment(path) == IF path = <<"">> THEN "/" ELSE path[1]

-----------------------------------------------------------------------------
(* Patterns *)

Literal(s) == [s |-> s, wild |-> FALSE, multi |-> FALSE]
Wildcard   == [s |-> "x", wild |-> TRUE, multi |-> FALSE]
Multi(s)   == [s |-> s, wild |-> TRUE, multi |-> TRUE]

(* parsePattern *)
Segment(path, i) ==
  CASE path[i] = "{x}"                 -> Wildcard
    [] path[i] = "{x...}"              -> Multi("x")
    [] path[i] = "{$}"                 -> Literal("/")
    [] path[i] = "" /\ i = Len(path)   -> Multi("")
    [] OTHER                           -> Literal(path[i])

Valid(p) ==
  /\ p.method \notin {"", "CONNECT"} => p.path = cleanPath(p.path)
  /\ \A i \in 1..(Len(p.path) - 1) : p.path[i] \notin {"{x...}", "{$}"}

parsePattern(p) ==
  [method |-> p.method, host |-> p.host, path |-> p.path,
   segments |-> [i \in DOMAIN p.path |-> Segment(p.path, i)]]

lastSegment(p) == Last(p.segments)

-----------------------------------------------------------------------------
(* The tree *)

Key(seg) == CASE seg.multi -> "*" [] seg.wild /\ ~seg.multi -> "" [] OTHER -> seg.s

Leaf(p) == <<p.host, p.method>> \o [i \in DOMAIN p.segments |-> Key(p.segments[i])]

Node(n) == \E leaf \in DOMAIN leaves : IsPrefix(n, leaf)

\* Mutant: a wildcard goes before a literal.
preferWildcard(literal, wild, rest) ==
  CASE wild # None -> wild
    [] wild = None /\ literal # None -> literal
    [] OTHER -> rest

prefer(literal, wild, rest) ==
  CASE literal # None -> literal
    [] literal = None /\ wild # None -> wild
    [] OTHER -> rest

(* matchPath: a literal before a wildcard before a multi wildcard, coming  *)
(* back from a choice that fails further down.                             *)
RECURSIVE matchPath(_, _)
matchPath(n, path) ==
  IF ~Node(n) THEN None
  ELSE IF path = <<>> THEN IF n \in DOMAIN leaves THEN leaves[n] ELSE None
  ELSE LET seg     == firstSegment(path)
           literal == matchPath(Append(n, seg), Tail(path))
           wild    == IF seg = "/" THEN None ELSE matchPath(Append(n, ""), Tail(path))
           multi   == Append(n, "*")
       IN  prefer(literal, wild, IF multi \in DOMAIN leaves THEN leaves[multi] ELSE None)

matchMethodAndPath(host, method, path) ==
  LET exact == matchPath(<<host, method>>, path)
      get   == IF method = "HEAD" THEN matchPath(<<host, "GET">>, path) ELSE None
  IN  CASE exact # None -> exact
        [] exact = None /\ get # None -> get
        [] OTHER -> matchPath(<<host, "">>, path)

match(host, method, path) ==
  LET withHost == IF host = "" THEN None ELSE matchMethodAndPath(host, method, path)
  IN  IF withHost # None THEN withHost ELSE matchMethodAndPath("", method, path)

matchingMethodsPath(host, path) ==
  {m \in {leaf[2] : leaf \in DOMAIN leaves} \ {""} : matchPath(<<host, m>>, path) # None}

\* Mutant: the path with a slash is not looked at.
matchingMethodsAsIs(host, path) ==
  LET ms == matchingMethodsPath(host, path) \union matchingMethodsPath("", path)
  IN  IF "GET" \in ms THEN ms \union {"HEAD"} ELSE ms

(* ServeMux.matchingMethods, with and without a slash at the end.          *)
matchingMethods(host, path) ==
  LET ms == UNION {matchingMethodsPath(h, q) : h \in {host, ""}, q \in {path, Append(path, "")}}
  IN  IF "GET" \in ms THEN ms \union {"HEAD"} ELSE ms

-----------------------------------------------------------------------------
(* ServeMux *)

exactMatch(p, path) ==
  /\ p # None
  /\ lastSegment(p).multi => Last(path) = "" /\ Len(p.segments) = Len(path)

Result(st, p, path, allow) == [st |-> st, p |-> p, path |-> path, allow |-> allow]

(* The path of the Location: Redirect cleans the URL it is given and keeps *)
(* the trailing slash.                                                     *)
Redirect(path) == Result("redirect", None, cleanPath(path), {})

\* Mutant: the slash is lost.
slashToSame(path) == cleanPath(path)

(* The URL to redirect to is the cleaned path with a slash.                *)
slashTo(path) ==
  LET clean == cleanPath(path) IN IF clean = <<"">> THEN <<"", "">> ELSE Append(clean, "")

redirectsToSlash(host, method, path) ==
  /\ ~exactMatch(match(host, method, path), path)
  /\ exactMatch(match(host, method, Append(path, "")), Append(path, ""))

(* findHandler up to where it would look for other methods.  A CONNECT     *)
(* that is not found dereferences a nil node.                              *)
findHandler(r) ==
  LET path == IF r.method = "CONNECT" THEN r.path ELSE cleanPath(r.path)
      p    == match(r.host, r.method, path)
  IN  CASE redirectsToSlash(r.host, r.method, path) -> Redirect(slashTo(r.path))
        [] ~redirectsToSlash(r.host, r.method, path) /\ path # r.path -> Redirect(path)
        [] OTHER -> IF p # None THEN Result("handler", p, path, {})
                    ELSE Result(IF r.method = "CONNECT" THEN "panic" ELSE "unknown", None, path, {})

(* ... and from there: 405 with the methods allowed, or 404.               *)
unknownMethod(host, path) ==
  LET allow == matchingMethods(host, path)
  IN  Result(IF allow # {} THEN "405" ELSE "404", None, path, allow)

Idle == Result("none", None, <<>>, {})

Init == leaves = <<>> /\ lookup = [r |-> None, res |-> Idle]

(* registerErr; a pattern that is already there makes set panic, which     *)
(* leaves the tree as it was.                                              *)
Handle ==
  /\ Cardinality(DOMAIN leaves) < MaxPatterns
  /\ \E s \in {x \in Surfaces : Valid(x)} :
       LET p == parsePattern(s) IN
       /\ Leaf(p) \notin DOMAIN leaves
       /\ leaves' = [leaf \in DOMAIN leaves \union {Leaf(p)} |->
                       IF leaf = Leaf(p) THEN p ELSE leaves[leaf]]
  /\ UNCHANGED lookup

FindHandler ==
  /\ lookup.res.st # "unknown"
  /\ \E r \in Asked : lookup' = [r |-> r, res |-> findHandler(r)]
  /\ UNCHANGED leaves

MatchingMethods ==
  /\ lookup.res.st = "unknown"
  /\ lookup' = [lookup EXCEPT !.res = unknownMethod(lookup.r.host, lookup.res.path)]
  /\ UNCHANGED leaves

Next == Handle \/ FindHandler \/ MatchingMethods

Spec == Init /\ [][Next]_vars

-----------------------------------------------------------------------------
(* Properties *)

TypeOK ==
  /\ \A leaf \in DOMAIN leaves : leaf = Leaf(leaves[leaf])
  /\ lookup.res.st \in {"none", "handler", "redirect", "unknown", "404", "405", "panic"}

Registered == {leaves[leaf] : leaf \in DOMAIN leaves}

(* What a pattern matches, from the documentation of ServeMux.             *)
SegmentMatches(seg, path, i) ==
  IF seg.wild THEN ~(path[i] = "" /\ i = Len(path))
  ELSE seg.s = IF path[i] = "" /\ i = Len(path) THEN "/" ELSE path[i]
PathMatches(p, path) ==
  LET n == Len(p.segments) IN
  IF lastSegment(p).multi
  THEN Len(path) >= n /\ \A i \in 1..(n - 1) : SegmentMatches(p.segments[i], path, i)
  ELSE Len(path) = n /\ \A i \in 1..n : SegmentMatches(p.segments[i], path, i)
MethodMatches(p, method) == p.method \in {"", method} \/ (p.method = "GET" /\ method = "HEAD")
Matches(p, r) ==
  MethodMatches(p, r.method) /\ p.host \in {"", r.host} /\ PathMatches(p, r.path)

(* The requests of a pattern whatever their host: one pattern is more      *)
(* specific than another when it matches fewer; two that overlap without   *)
(* that conflict.                                                          *)
Matched == [p \in {parsePattern(s) : s \in {x \in Surfaces : Valid(x)}} |->
             {q \in {[method |-> r.method, path |-> r.path] : r \in Universe} :
                MethodMatches(p, q.method) /\ PathMatches(p, q.path)}]
MoreSpecific(p, q) == Matched[p] # Matched[q] /\ Matched[p] \subseteq Matched[q]
Conflict(p, q) ==
  /\ p # q /\ p.host = q.host
  /\ Matched[p] \cap Matched[q] # {} /\ ~MoreSpecific(p, q) /\ ~MoreSpecific(q, p)
NoConflicts == \A p, q \in Registered : ~Conflict(p, q)

(* "If two or more patterns match a request, then the most specific        *)
(* pattern takes precedence", one with a host before one without: what     *)
(* match finds with backtracking is, among patterns without conflicts, the *)
(* one a comparison of all of them gives, and it finds one if there is.    *)
MostSpecificWins ==
  lookup.res = Idle /\ NoConflicts =>
    \A r \in Universe :
      LET found == match(r.host, r.method, r.path)
          fits  == {p \in Registered : Matches(p, r)}
      IN  IF fits = {} THEN found = None
          ELSE /\ found \in fits
               /\ \A q \in fits \ {found} :
                    \/ found.host # "" /\ q.host = ""
                    \/ found.host = q.host /\ MoreSpecific(found, q)

(* findHandler: "the path that would match after the redirect".            *)
RedirectLands(r) ==
  findHandler(r).st = "redirect" => findHandler([r EXCEPT !.path = findHandler(r).path]).st # "redirect"

(* An empty element before the slash that redirectsToSlash adds to a path  *)
(* which, cleaned, ends in one: a pattern that ends in "{x}/" takes it.    *)
EmptyElementTaken(r) ==
  /\ Last(cleanPath(r.path)) = ""
  /\ \E p \in Registered : /\ Len(p.segments) = Len(cleanPath(r.path)) + 1
                           /\ p.segments[Len(p.segments) - 1].wild

(* A redirected request is answered when it comes again: what findHandler  *)
(* matched with one path and sends with another, Redirect having cleaned   *)
(* it, is found.  The exception is exact: only an empty element that is    *)
(* matched as a wildcard's makes a redirect that leads to itself.          *)
RedirectsEnd ==
  lookup.res = Idle => \A r \in Universe : RedirectLands(r) \/ EmptyElementTaken(r)

(* What findHandler says of its redirects, without exception.  The code    *)
(* does not keep it: with the pattern "/{x}/" a request for "/", or for    *)
(* "/..", is redirected to "/" for ever.                                   *)
AllRedirectsEnd == lookup.res = Idle => \A r \in Universe : RedirectLands(r)

(* A 405 names only methods with which the same request is served, also    *)
(* when patterns are registered between the two walks, and a 404 means     *)
(* that at that moment no method was.                                      *)
Served(r, m) == findHandler([r EXCEPT !.method = m]).st \in {"handler", "redirect"}
AllowIsHonest ==
  /\ TypeOK
  /\ lookup.res.st = "405" => \A m \in lookup.res.allow : Served(lookup.r, m)
  /\ lookup.res = Idle =>
       \A r \in Universe :
         findHandler(r).st = "unknown" /\ unknownMethod(r.host, cleanPath(r.path)).st = "404"
           => \A q \in Universe : q.host = r.host /\ q.path = r.path => ~Served(r, q.method)

(* "Handler always returns a non-nil handler."                             *)
AlwaysAHandler == lookup.res.st # "panic"
=============================================================================
