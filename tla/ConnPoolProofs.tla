--------------------------- MODULE ConnPoolProofs ---------------------------
(***************************************************************************)
(* Proofs about the connection pool of http.Transport: PoolInv is an       *)
(* inductive invariant of ConnPool, for any number of requests, hosts and  *)
(* any limits, and what follows from it.                                   *)
(***************************************************************************)
EXTENDS ConnPool, SequenceTheorems, FiniteSetTheorems,
        WellFoundedInduction, TLAPS

(***************************************************************************)
(* Which elements a sequence has after Append, SubSeq, Tail or RemoveFirst;*)
(* a sequence without duplicates keeps none.                               *)
(***************************************************************************)

\* A non-empty set of natural numbers has a least element.
LEMMA NatMin ==
  ASSUME NEW S, S \subseteq Nat, S # {}
  PROVE  \E x \in S : \A y \in S : x <= y
<1>1. \E x \in S : \A y \in S : ~ (<<y, x>> \in OpToRel(<, Nat))
  BY NatLessThanWellFounded, WFMin
<1>2. PICK x \in S : \A y \in S : ~ (<<y, x>> \in OpToRel(<, Nat))
  BY <1>1
<1>3. ASSUME NEW y \in S, y < x PROVE FALSE
  <2>1. <<y, x>> \in Nat \X Nat /\ <<y, x>>[1] = y /\ <<y, x>>[2] = x
    OBVIOUS
  <2>2. <<y, x>> \in OpToRel(<, Nat)
    BY <1>3, <2>1 DEF OpToRel
  <2>3. QED
    BY <1>2, <2>2
<1>4. QED
  <2>1. x \in Nat /\ \A y \in S : y \in Nat /\ ~(y < x)
    BY <1>3
  <2>2. \A y \in S : x <= y
    BY <2>1
  <2>3. QED
    BY <2>2

\* Min picks that element.
LEMMA MinOfNats ==
  ASSUME NEW S, S \subseteq Nat, S # {}
  PROVE  Min(S) \in S /\ \A y \in S : Min(S) <= y
BY NatMin DEF Min

\* A non-empty set of natural numbers below a bound has a greatest element,
\* and Max picks it.
LEMMA MaxOfNats ==
  ASSUME NEW S, NEW n \in Nat, S \subseteq 0 .. n, S # {}
  PROVE  Max(S) \in S /\ \A y \in S : Max(S) >= y
<1> DEFINE T == {n - s : s \in S}
<1>1. T \subseteq Nat /\ T # {}
  <2>1. \A s \in S : n - s \in Nat
    OBVIOUS
  <2>2. QED
    BY <2>1
<1>2. PICK x \in T : \A y \in T : x <= y
  BY <1>1, NatMin
<1>3. PICK s \in S : x = n - s
  BY <1>2
<1>4. \A y \in S : s >= y
  <2> TAKE y \in S
  <2>1. n - s <= n - y
    BY <1>2, <1>3
  <2>2. QED
    BY <2>1
<1>5. QED
  BY <1>4 DEF Max

\* The elements of a sequence over S are in S.
LEMMA ToSetType ==
  ASSUME NEW S, NEW s \in Seq(S)
  PROVE  ToSet(s) \subseteq S
BY LenProperties, ElementOfSeq DEF ToSet

\* Append adds one element at the end.
LEMMA AppendFacts ==
  ASSUME NEW S, NEW s \in Seq(S), NEW e \in S
  PROVE  /\ Append(s, e) \in Seq(S)
         /\ Len(Append(s, e)) = Len(s) + 1
         /\ ToSet(Append(s, e)) = ToSet(s) \cup {e}
         /\ IsInjective(s) /\ e \notin ToSet(s) => IsInjective(Append(s, e))
<1> DEFINE t == Append(s, e)
<1>1. /\ t \in Seq(S)
      /\ Len(t) = Len(s) + 1
      /\ \A i \in 1 .. Len(s) : t[i] = s[i]
      /\ t[Len(s) + 1] = e
  BY AppendProperties
<1>2. DOMAIN s = 1 .. Len(s) /\ DOMAIN t = 1 .. Len(s) + 1 /\ Len(s) \in Nat
  BY <1>1, LenProperties
<1> HIDE DEF t
<1>3. ToSet(t) = ToSet(s) \cup {e}
  <2>1. \A x \in ToSet(t) : x \in ToSet(s) \cup {e}
    BY <1>1, <1>2 DEF ToSet
  <2>2. \A i \in 1 .. Len(s) : s[i] \in ToSet(t)
    <3> TAKE i \in 1 .. Len(s)
    <3>1. i \in DOMAIN t /\ t[i] = s[i]
      BY <1>1, <1>2
    <3>2. QED
      BY <3>1 DEF ToSet
  <2>3. e \in ToSet(t)
    <3>1. Len(s) + 1 \in DOMAIN t
      BY <1>2
    <3>2. QED
      BY <1>1, <3>1 DEF ToSet
  <2>4. \A x \in ToSet(s) : x \in ToSet(t)
    BY <2>2, <1>2 DEF ToSet
  <2>5. QED
    BY <2>1, <2>3, <2>4
<1>4. ASSUME IsInjective(s), e \notin ToSet(s) PROVE IsInjective(t)
  <2>1. \A i \in 1 .. Len(s) : s[i] # e
    BY <1>4, <1>2 DEF ToSet
  <2>2. QED
    BY <1>1, <1>2, <1>4, <2>1 DEF IsInjective
<1>5. QED
  BY <1>1, <1>3, <1>4 DEF t

\* A contiguous part of a sequence has no other elements and no new duplicates.
LEMMA SubSeqFacts ==
  ASSUME NEW S, NEW s \in Seq(S), NEW m \in Int, NEW n \in Int,
         1 <= m, n <= Len(s)
  PROVE  /\ SubSeq(s, m, n) \in Seq(S)
         /\ Len(SubSeq(s, m, n)) = IF m <= n THEN n - m + 1 ELSE 0
         /\ \A i \in 1 .. n - m + 1 : SubSeq(s, m, n)[i] = s[m + i - 1]
         /\ ToSet(SubSeq(s, m, n)) = {s[i] : i \in m .. n}
         /\ ToSet(SubSeq(s, m, n)) \subseteq ToSet(s)
         /\ IsInjective(s) => IsInjective(SubSeq(s, m, n))
<1> DEFINE t == SubSeq(s, m, n)
<1>1. Len(s) \in Nat /\ DOMAIN s = 1 .. Len(s)
      /\ \A i \in 1 .. Len(s) : s[i] \in S
  BY LenProperties, ElementOfSeq
<1>2. \A i \in m .. n : s[i] \in S
  BY <1>1
<1>3. /\ t \in Seq(S)
      /\ Len(t) = IF m <= n THEN n - m + 1 ELSE 0
      /\ \A i \in 1 .. n - m + 1 : t[i] = s[m + i - 1]
  BY <1>2, SubSeqProperties
<1>4. DOMAIN t = 1 .. Len(t)
  BY <1>3, LenProperties
<1> HIDE DEF t
<1>5. ToSet(t) = {s[i] : i \in m .. n}
  <2>1. ASSUME NEW x \in ToSet(t) PROVE x \in {s[i] : i \in m .. n}
    <3>1. PICK i \in DOMAIN t : x = t[i]
      BY DEF ToSet
    <3>2. i \in 1 .. n - m + 1 /\ x = s[m + i - 1]
      BY <3>1, <1>3, <1>4
    <3>3. m + i - 1 \in m .. n
      BY <3>2
    <3>4. QED
      BY <3>2, <3>3
  <2>2. ASSUME NEW i \in m .. n PROVE s[i] \in ToSet(t)
    <3>1. i - m + 1 \in 1 .. n - m + 1 /\ m + (i - m + 1) - 1 = i
      OBVIOUS
    <3>2. i - m + 1 \in DOMAIN t /\ t[i - m + 1] = s[i]
      BY <3>1, <1>3, <1>4
    <3>3. QED
      BY <3>2 DEF ToSet
  <2>3. QED
    BY <2>1, <2>2
<1>6. {s[i] : i \in m .. n} \subseteq ToSet(s)
  BY <1>1 DEF ToSet
<1>7. ASSUME IsInjective(s) PROVE IsInjective(t)
  <2> SUFFICES ASSUME NEW i \in 1 .. Len(t), NEW j \in 1 .. Len(t), t[i] = t[j]
               PROVE  i = j
    BY <1>4 DEF IsInjective
  <2>1. i \in 1 .. n - m + 1 /\ j \in 1 .. n - m + 1
    BY <1>3
  <2>2. t[i] = s[m + i - 1] /\ t[j] = s[m + j - 1]
    BY <1>3, <2>1
  <2>3. m + i - 1 \in 1 .. Len(s) /\ m + j - 1 \in 1 .. Len(s)
    BY <1>1, <2>1
  <2>4. m + i - 1 = m + j - 1
    BY <1>1, <1>7, <2>2, <2>3 DEF IsInjective
  <2>5. QED
    BY <2>1, <2>4
<1>8. QED
  BY <1>3, <1>5, <1>6, <1>7 DEF t

\* Tail drops the first element.
LEMMA TailFacts ==
  ASSUME NEW S, NEW s \in Seq(S), Len(s) > 0
  PROVE  /\ Head(s) \in ToSet(s)
         /\ Head(s) = s[1]
         /\ Tail(s) \in Seq(S)
         /\ Len(Tail(s)) = Len(s) - 1
         /\ ToSet(Tail(s)) \subseteq ToSet(s)
         /\ ToSet(s) = ToSet(Tail(s)) \cup {Head(s)}
         /\ IsInjective(s) => IsInjective(Tail(s)) /\ Head(s) \notin ToSet(Tail(s))
<1>1. s # <<>> /\ Len(s) \in Nat /\ DOMAIN s = 1 .. Len(s)
  BY LenProperties
<1>2. Tail(s) = SubSeq(s, 2, Len(s)) /\ Head(s) = s[1]
  BY <1>1, TailIsSubSeq
<1>3. /\ SubSeq(s, 2, Len(s)) \in Seq(S)
      /\ Len(SubSeq(s, 2, Len(s))) = Len(s) - 1
      /\ ToSet(SubSeq(s, 2, Len(s))) = {s[i] : i \in 2 .. Len(s)}
      /\ ToSet(SubSeq(s, 2, Len(s))) \subseteq ToSet(s)
      /\ IsInjective(s) => IsInjective(SubSeq(s, 2, Len(s)))
  BY <1>1, SubSeqFacts
<1>4. ToSet(s) = {s[i] : i \in 2 .. Len(s)} \cup {s[1]}
  <2>1. ToSet(s) = {s[i] : i \in 1 .. Len(s)}
    BY <1>1 DEF ToSet
  <2>2. 1 .. Len(s) = (2 .. Len(s)) \cup {1}
    BY <1>1
  <2>3. QED
    BY <2>1, <2>2
<1>5. IsInjective(s) => \A i \in 2 .. Len(s) : s[i] # s[1]
  BY <1>1 DEF IsInjective
<1>6. QED
  BY <1>2, <1>3, <1>4, <1>5, ZenonT(60)

\* RemoveFirst takes one occurrence out, or changes nothing.
LEMMA RemoveFirstFacts ==
  ASSUME NEW S, NEW s \in Seq(S), NEW e
  PROVE  /\ RemoveFirst(s, e) \in Seq(S)
         /\ Len(RemoveFirst(s, e)) <= Len(s)
         /\ e \in ToSet(s) => Len(RemoveFirst(s, e)) = Len(s) - 1
         /\ e \notin ToSet(s) => RemoveFirst(s, e) = s
         /\ ToSet(RemoveFirst(s, e)) \subseteq ToSet(s)
         /\ IsInjective(s) => /\ IsInjective(RemoveFirst(s, e))
                        /\ ToSet(RemoveFirst(s, e)) = ToSet(s) \ {e}
<1>1. Len(s) \in Nat /\ DOMAIN s = 1 .. Len(s)
  BY LenProperties
<1>2. CASE e \notin ToSet(s)
  <2>1. ~ \E i \in 1 .. Len(s) : s[i] = e
    BY <1>1, <1>2 DEF ToSet
  <2>2. RemoveFirst(s, e) = s
    BY <2>1 DEF RemoveFirst
  <2>3. ToSet(s) = ToSet(s) \ {e}
    BY <1>2
  <2>4. Len(s) <= Len(s)
    BY <1>1
  <2>5. QED
    BY <1>2, <2>2, <2>3, <2>4, Zenon
<1>3. CASE e \in ToSet(s)
  <2>1. \E i \in 1 .. Len(s) : s[i] = e
    BY <1>1, <1>3 DEF ToSet
  <2> DEFINE I == {i \in 1 .. Len(s) : s[i] = e}
             x == Min(I)
             a == SubSeq(s, 1, x - 1)
             b == SubSeq(s, x + 1, Len(s))
             t == a \o b
  <2>2. x \in 1 .. Len(s) /\ s[x] = e
    <3>1. I \subseteq Nat /\ I # {}
      BY <2>1
    <3>2. x \in I
      BY <3>1, MinOfNats
    <3>3. QED
      BY <3>2
  <2>3. RemoveFirst(s, e) = t
    BY <2>1 DEF RemoveFirst, SelectInSeq, RemoveAt
  <2> HIDE DEF x
  <2>4. /\ a \in Seq(S) /\ Len(a) = x - 1
        /\ \A i \in 1 .. x - 1 : a[i] = s[i]
    <3>1. x - 1 \in Int /\ x - 1 <= Len(s) /\ x \in Int
      BY <1>1, <2>2
    <3>2. /\ a \in Seq(S)
          /\ Len(a) = IF 1 <= x - 1 THEN (x - 1) - 1 + 1 ELSE 0
          /\ \A i \in 1 .. (x - 1) - 1 + 1 : a[i] = s[1 + i - 1]
      BY <3>1, SubSeqFacts
    <3>3. QED
      BY <3>1, <3>2, <2>2
  <2>5. /\ b \in Seq(S) /\ Len(b) = Len(s) - x
        /\ \A i \in 1 .. Len(s) - x : b[i] = s[x + i]
    <3>1. x + 1 \in Int /\ 1 <= x + 1 /\ x \in Int /\ x <= Len(s)
      BY <1>1, <2>2
    <3>2. /\ b \in Seq(S)
          /\ Len(b) = IF x + 1 <= Len(s) THEN Len(s) - (x + 1) + 1 ELSE 0
          /\ \A i \in 1 .. Len(s) - (x + 1) + 1 : b[i] = s[(x + 1) + i - 1]
      BY <3>1, <1>1, SubSeqFacts
    <3> HIDE DEF b
    <3>3. Len(b) = Len(s) - x
      <4>1. CASE x + 1 <= Len(s)
        BY <1>1, <3>1, <3>2, <4>1
      <4>2. CASE ~(x + 1 <= Len(s))
        <5>1. \A u, v \in Int : u <= v /\ ~(u + 1 <= v) => u = v
          OBVIOUS
        <5>2. x = Len(s)
          <6>1. Len(s) \in Int
            BY <1>1
          <6>2. QED
            BY <3>1, <4>2, <5>1, <6>1
        <5>3. Len(b) = 0
          BY <3>2, <4>2
        <5>4. QED
          BY <5>2, <5>3, <1>1
      <4>3. QED
        BY <4>1, <4>2
    <3>4. \A i \in 1 .. Len(s) - x : b[i] = s[x + i]
      <4> TAKE i \in 1 .. Len(s) - x
      <4>1. i \in 1 .. Len(s) - (x + 1) + 1 /\ (x + 1) + i - 1 = x + i
        BY <1>1, <3>1
      <4>2. QED
        BY <3>2, <4>1
    <3>5. QED
      BY <3>2, <3>3, <3>4
  <2> HIDE DEF a, b
  <2>6. /\ t \in Seq(S) /\ Len(t) = Len(s) - 1
        /\ \A i \in 1 .. Len(s) - 1 : t[i] = IF i < x THEN s[i] ELSE s[i + 1]
    <3>1. /\ t \in Seq(S) /\ Len(t) = Len(a) + Len(b)
          /\ \A i \in 1 .. Len(a) + Len(b) :
               t[i] = IF i <= Len(a) THEN a[i] ELSE b[i - Len(a)]
      BY <2>4, <2>5, ConcatProperties
    <3>2. Len(a) + Len(b) = Len(s) - 1
      BY <1>1, <2>2, <2>4, <2>5
    <3>3. ASSUME NEW i \in 1 .. Len(s) - 1
          PROVE  t[i] = IF i < x THEN s[i] ELSE s[i + 1]
      <4>1. CASE i < x
        BY <1>1, <2>2, <2>4, <3>1, <3>2, <4>1
      <4>2. CASE ~(i < x)
        <5>1. i - (x - 1) \in 1 .. Len(s) - x /\ x + (i - (x - 1)) = i + 1
          BY <1>1, <2>2, <4>2
        <5>2. t[i] = b[i - (x - 1)]
          BY <1>1, <2>2, <2>4, <3>1, <3>2, <4>2, SMTT(60)
        <5>3. QED
          BY <5>1, <5>2, <2>5, <4>2
      <4>3. QED
        BY <4>1, <4>2
    <3>4. QED
      BY <3>1, <3>2, <3>3
  <2> HIDE DEF t
  <2>7. DOMAIN t = 1 .. Len(s) - 1
    BY <2>6, LenProperties
  <2>8. ToSet(t) \subseteq ToSet(s)
    <3>1. ASSUME NEW i \in 1 .. Len(s) - 1 PROVE t[i] \in ToSet(s)
      <4>1. i \in DOMAIN s /\ i + 1 \in DOMAIN s
        BY <1>1
      <4>2. QED
        BY <4>1, <2>6 DEF ToSet
    <3>2. QED
      BY <3>1, <2>7 DEF ToSet
  <2>9. ASSUME IsInjective(s) PROVE IsInjective(t) /\ ToSet(t) = ToSet(s) \ {e}
    <3>1. IsInjective(t)
      <4> SUFFICES ASSUME NEW i \in 1 .. Len(s) - 1, NEW j \in 1 .. Len(s) - 1,
                          t[i] = t[j]
                   PROVE  i = j
        BY <2>7 DEF IsInjective
      <4>1. \A u, v \in 1 .. Len(s) : s[u] = s[v] => u = v
        BY <1>1, <2>9 DEF IsInjective
      <4>2. i \in 1 .. Len(s) /\ i + 1 \in 1 .. Len(s)
            /\ j \in 1 .. Len(s) /\ j + 1 \in 1 .. Len(s)
        BY <1>1
      <4>3. QED
        BY <2>2, <2>6, <4>1, <4>2, SMTT(60)
    <3>2. ASSUME NEW i \in 1 .. Len(s) - 1 PROVE t[i] # e
      BY <1>1, <2>2, <2>6, <2>9, SMTT(60) DEF IsInjective
    <3>3. ASSUME NEW y \in ToSet(s), y # e PROVE y \in ToSet(t)
      <4>1. PICK j \in 1 .. Len(s) : y = s[j]
        BY <1>1 DEF ToSet
      <4>2. j # x
        BY <2>2, <3>3, <4>1
      <4>3. \E i \in 1 .. Len(s) - 1 : t[i] = y
        <5>1. CASE j < x
          BY <1>1, <2>2, <2>6, <4>1, <5>1
        <5>2. CASE j > x
          <6>1. j - 1 \in 1 .. Len(s) - 1 /\ ~(j - 1 < x) /\ (j - 1) + 1 = j
            BY <1>1, <2>2, <5>2
          <6>2. QED
            BY <6>1, <2>6, <4>1
        <5>3. QED
          BY <2>2, <4>2, <5>1, <5>2
      <4>4. QED
        BY <4>3, <2>7 DEF ToSet
    <3>4. \A y \in ToSet(t) : y # e
      BY <3>2, <2>7 DEF ToSet
    <3>5. QED
      BY <3>1, <3>3, <3>4, <2>8
  <2>10. QED
    BY <1>1, <1>3, <2>3, <2>6, <2>8, <2>9
<1>4. QED
  BY <1>2, <1>3

(***************************************************************************)
(* The queues of wants.                                                    *)
(***************************************************************************)

\* firstWaiting is 0 or the index of a want that still waits; what cleanFront
\* and popWaiting leave of a queue has no other wants and no new duplicates,
\* and popWaiting really takes the found want out.
LEMMA QueueFacts ==
  ASSUME NEW q \in Seq(Wants)
  PROVE  /\ firstWaiting(q) \in 0 .. Len(q)
         /\ firstWaiting(q) # 0 => /\ waiting(q[firstWaiting(q)])
                                   /\ q[firstWaiting(q)] \in ToSet(q)
                                   /\ q[firstWaiting(q)] \in Wants
         /\ cleanFront(q) \in Seq(Wants)
         /\ ToSet(cleanFront(q)) \subseteq ToSet(q)
         /\ popWaiting(q) \in Seq(Wants)
         /\ ToSet(popWaiting(q)) \subseteq ToSet(q)
         /\ IsInjective(q) => IsInjective(cleanFront(q)) /\ IsInjective(popWaiting(q))
         /\ IsInjective(q) /\ firstWaiting(q) # 0
              => q[firstWaiting(q)] \notin ToSet(popWaiting(q))
<1> DEFINE I == {i \in 1 .. Len(q) : waiting(q[i])}
           f == firstWaiting(q)
<1>1. /\ Len(q) \in Nat /\ DOMAIN q = 1 .. Len(q)
      /\ \A i \in 1 .. Len(q) : q[i] \in Wants /\ q[i] \in ToSet(q)
  BY LenProperties, ElementOfSeq DEF ToSet
<1>2. f = IF I # {} THEN Min(I) ELSE 0
  BY DEF firstWaiting, SelectInSeq
<1>3. I # {} => Min(I) \in I
  BY <1>1, MinOfNats, SMTT(60)
<1>4. f \in 0 .. Len(q) /\ (f # 0 => f \in 1 .. Len(q) /\ waiting(q[f]))
  BY <1>1, <1>2, <1>3
<1> HIDE DEF f, I
<1>5. <<>> \in Seq(Wants) /\ ToSet(<<>>) = {} /\ IsInjective(<<>>)
  BY EmptySeq DEF ToSet, IsInjective
<1>6. CASE f = 0
  <2>1. cleanFront(q) = <<>> /\ popWaiting(q) = <<>>
    BY <1>6 DEF cleanFront, popWaiting, f
  <2>2. QED
    BY <1>4, <1>5, <1>6, <2>1 DEF f
<1>7. CASE f # 0
  <2>1. cleanFront(q) = SubSeq(q, f, Len(q))
    BY <1>7 DEF cleanFront, from, f
  <2>2. popWaiting(q) = SubSeq(q, f + 1, Len(q))
    BY <1>7 DEF popWaiting, from, f
  <2>3. f \in Int /\ f + 1 \in Int /\ 1 <= f /\ 1 <= f + 1
        /\ Len(q) \in Int /\ Len(q) <= Len(q)
    BY <1>1, <1>4, <1>7
  <2>4. /\ SubSeq(q, f, Len(q)) \in Seq(Wants)
        /\ ToSet(SubSeq(q, f, Len(q))) \subseteq ToSet(q)
        /\ IsInjective(q) => IsInjective(SubSeq(q, f, Len(q)))
    BY <2>3, SubSeqFacts
  <2>5. /\ SubSeq(q, f + 1, Len(q)) \in Seq(Wants)
        /\ ToSet(SubSeq(q, f + 1, Len(q))) = {q[i] : i \in (f + 1) .. Len(q)}
        /\ ToSet(SubSeq(q, f + 1, Len(q))) \subseteq ToSet(q)
        /\ IsInjective(q) => IsInjective(SubSeq(q, f + 1, Len(q)))
    BY <2>3, SubSeqFacts
  <2>6. ASSUME IsInjective(q), q[f] \in {q[i] : i \in (f + 1) .. Len(q)}
        PROVE  FALSE
    <3>1. PICK i \in (f + 1) .. Len(q) : q[i] = q[f]
      BY <2>6
    <3>2. i \in 1 .. Len(q) /\ f \in 1 .. Len(q) /\ i # f
      BY <1>4, <1>7, <3>1, <2>3
    <3>3. QED
      BY <1>1, <2>6, <3>1, <3>2 DEF IsInjective
  <2>7. QED
    BY <1>1, <1>4, <1>7, <2>1, <2>2, <2>4, <2>5, <2>6 DEF f
<1>8. QED
  BY <1>6, <1>7

(***************************************************************************)
(* Closing a connection.                                                   *)
(***************************************************************************)

\* What is known after decConnsPerHost: at most one want, which had no
\* dialConnFor and has left the queue, has got one.
HostStep(d) ==
  /\ connsPerHost' \in [Keys -> Int]
  /\ connsPerHostWait' \in [Keys -> Seq(Wants)]
  /\ dial' \in [Wants -> Dialers]
  /\ \A k \in Keys : /\ ToSet(connsPerHostWait'[k]) \subseteq ToSet(connsPerHostWait[k])
                     /\ IsInjective(connsPerHostWait'[k])
                     /\ \A w \in ToSet(connsPerHostWait'[k]) : dial'[w] = "none"
  /\ \A w \in Wants : \/ dial'[w] = d[w]
                      \/ /\ d[w] = "none"
                         /\ dial'[w] = "spawned"
                         /\ call[w] \notin {"start", "queueForDial"}

\* decConnsPerHost, called with the count of key k to give back.
LEMMA DecConnsPerHostFacts ==
  ASSUME TypeOK, DialInv, NEW k \in Keys, NEW d \in [Wants -> Dialers],
         \A j \in Keys : \A w \in ToSet(connsPerHostWait[j]) : d[w] = "none",
         decConnsPerHost(k, d)
  PROVE  HostStep(d)
<1> DEFINE q == connsPerHostWait[k]
           f == firstWaiting(q)
<1>1. \A j \in Keys : connsPerHostWait[j] \in Seq(Wants)
  BY DEF TypeOK
<1>2. \A j \in Keys : IsInjective(connsPerHostWait[j])
  BY DEF DialInv
<1>3. q \in Seq(Wants) /\ IsInjective(q)
  BY <1>1, <1>2
<1>4. /\ popWaiting(q) \in Seq(Wants)
      /\ ToSet(popWaiting(q)) \subseteq ToSet(q)
      /\ IsInjective(popWaiting(q))
      /\ f # 0 => /\ q[f] \in ToSet(q)
                  /\ q[f] \in Wants
                  /\ q[f] \notin ToSet(popWaiting(q))
  BY <1>3, QueueFacts
<1>5. CASE MaxConnsPerHost <= 0
  <2>1. dial' = d /\ UNCHANGED <<connsPerHost, connsPerHostWait>>
    BY <1>5, PoolAssumption DEF decConnsPerHost, hostVars
  <2>2. QED
    BY <1>1, <1>2, <2>1 DEF HostStep, TypeOK
<1>6. CASE ~(MaxConnsPerHost <= 0)
  <2>1. /\ connsPerHostWait' = [connsPerHostWait EXCEPT ![k] = popWaiting(q)]
        /\ IF f # 0
           THEN /\ dial' = [d EXCEPT ![q[f]] = "spawned"]
                /\ UNCHANGED connsPerHost
           ELSE /\ connsPerHost' = [connsPerHost EXCEPT ![k] = @ - 1]
                /\ dial' = d
    BY <1>6 DEF decConnsPerHost
  <2> HIDE DEF q, f
  <2>2. connsPerHost' \in [Keys -> Int]
    BY <2>1, SMTT(60) DEF TypeOK
  <2>3. connsPerHostWait' \in [Keys -> Seq(Wants)]
    BY <2>1, <1>4 DEF TypeOK
  <2>4. \A j \in Keys : connsPerHostWait'[j] = IF j = k THEN popWaiting(q)
                                               ELSE connsPerHostWait[j]
    BY <2>1 DEF TypeOK
  <2>5. \A j \in Keys : /\ ToSet(connsPerHostWait'[j]) \subseteq ToSet(connsPerHostWait[j])
                        /\ IsInjective(connsPerHostWait'[j])
    BY <1>2, <1>4, <2>4 DEF q
  <2>6. f # 0 => \A j \in Keys : q[f] \notin ToSet(connsPerHostWait'[j])
    <3> SUFFICES ASSUME f # 0, NEW j \in Keys, j # k
                 PROVE  q[f] \notin ToSet(connsPerHostWait[j])
      BY <1>4, <2>4
    <3>1. KeyOf[q[f]] = k
      BY <1>4 DEF DialInv, q
    <3>2. QED
      BY <3>1 DEF DialInv
  <2>7. dial' \in [Wants -> Dialers]
    BY <2>1, <1>4 DEF Dialers
  <2>8. \A j \in Keys : \A w \in ToSet(connsPerHostWait'[j]) : dial'[w] = "none"
    <3> SUFFICES ASSUME NEW j \in Keys, NEW w \in ToSet(connsPerHostWait'[j])
                 PROVE  dial'[w] = "none"
      OBVIOUS
    <3>1. d[w] = "none"
      BY <2>5
    <3>2. f # 0 => w # q[f]
      BY <2>6
    <3>3. w \in Wants
      BY <2>3, ToSetType
    <3>4. QED
      BY <2>1, <3>1, <3>2, <3>3
  <2>9. \A w \in Wants : \/ dial'[w] = d[w]
                         \/ /\ d[w] = "none"
                            /\ dial'[w] = "spawned"
                            /\ call[w] \notin {"start", "queueForDial"}
    <3>1. CASE f = 0
      BY <2>1, <3>1
    <3>2. CASE f # 0
      <4>1. d[q[f]] = "none" /\ call[q[f]] \notin {"start", "queueForDial"}
        BY <1>4, <3>2 DEF DialInv, q
      <4>2. QED
        BY <2>1, <3>2, <4>1, <1>4
    <3>3. QED
      BY <3>1, <3>2
  <2>10. QED
    BY <2>2, <2>3, <2>5, <2>7, <2>8, <2>9 DEF HostStep
<1>7. QED
  BY <1>5, <1>6

\* closeLocked: the same, and no other connection becomes closed.
LEMMA CloseLockedFacts ==
  ASSUME TypeOK, DialInv, NEW c \in Conns, closeLocked(c, dial)
  PROVE  /\ HostStep(dial)
         /\ closed' \in [Conns -> BOOLEAN]
         /\ closed'[c]
         /\ \A x \in Conns : x # c => closed'[x] = closed[x]
<1>1. dial \in [Wants -> Dialers]
      /\ \A j \in Keys : \A w \in ToSet(connsPerHostWait[j]) : dial[w] = "none"
  BY DEF TypeOK, DialInv
<1>2. KeyOf[c] \in Keys
  BY PoolAssumption DEF Conns
<1>3. CASE closed[c]
  <2>1. dial' = dial /\ UNCHANGED <<closed, connsPerHost, connsPerHostWait>>
    BY <1>3 DEF closeLocked, hostVars
  <2>2. QED
    BY <1>1, <1>3, <2>1 DEF TypeOK, DialInv, HostStep
<1>4. CASE ~closed[c]
  <2>1. closed' = [closed EXCEPT ![c] = TRUE] /\ decConnsPerHost(KeyOf[c], dial)
    BY <1>4 DEF closeLocked
  <2>2. HostStep(dial)
    BY <1>1, <1>2, <2>1, DecConnsPerHostFacts
  <2>3. QED
    BY <2>1, <2>2 DEF TypeOK
<1>5. QED
  BY <1>3, <1>4

(***************************************************************************)
(* The actions, one lemma each: PoolInv is preserved.                      *)
(***************************************************************************)

\* moveTo changes the step of one tryPutIdleConn call and nothing else.
LEMMA MoveToFacts ==
  ASSUME NEW p \in puts, NEW st \in PutSteps, puts \subseteq PutCalls,
         puts' = moveTo(p, st)
  PROVE  /\ puts' \subseteq PutCalls
         /\ \A r \in puts' : \E s \in puts : r.pc = s.pc
         /\ (\A r, s \in puts : r.pc = s.pc => r = s)
              => \A r, s \in puts' : r.pc = s.pc => r = s
<1> DEFINE n == [p EXCEPT !.step = st]
<1>1. n \in PutCalls /\ n.pc = p.pc
  BY DEF PutCalls
<1>2. puts' = (puts \ {p}) \cup {n}
  BY DEF moveTo
<1> HIDE DEF n
<1>3. QED
  BY <1>1, <1>2

\* The test of isBroken only moves the call on.
LEMMA TryPutIsBrokenInv ==
  ASSUME PoolInv, NEW p \in puts, TryPutIsBroken(p)
  PROVE  PoolInv'
<1> USE DEF TryPutIsBroken, moveTo, PutCalls, PutSteps, idleVars, hostVars, wantVars
<1>1. TypeOK'
  <2> DEFINE st == IF DisableKeepAlives \/ MaxIdleConnsPerHost < 0 \/ closed[p.pc]
                   THEN "close" ELSE "locked"
  <2>1. puts' = moveTo(p, st) /\ st \in PutSteps /\ puts \subseteq PutCalls
    BY DEF PoolInv, TypeOK
  <2> HIDE DEF st
  <2>2. puts' \subseteq PutCalls
    BY <2>1, MoveToFacts
  <2>3. QED
    BY <2>2 DEF PoolInv, TypeOK
<1>2. KeyInv'
  BY PoolAssumption DEF PoolInv, TypeOK, KeyInv, RightHost, Conns
<1>3. IdleInv'
  BY DEF PoolInv, IdleInv
<1>4. OwnerInv'
  <2> DEFINE st == IF DisableKeepAlives \/ MaxIdleConnsPerHost < 0 \/ closed[p.pc]
                   THEN "close" ELSE "locked"
  <2>1. /\ puts' = moveTo(p, st) /\ st \in PutSteps /\ puts \subseteq PutCalls
    BY DEF PoolInv, TypeOK
  <2> HIDE DEF st
  <2>2. /\ \A r \in puts' : \E s \in puts : r.pc = s.pc
        /\ (\A r, s \in puts : r.pc = s.pc => r = s)
             => \A r, s \in puts' : r.pc = s.pc => r = s
    BY <2>1, MoveToFacts
  <2>3. UserInv'
    BY <2>2 DEF PoolInv, OwnerInv, UserInv, Uses, Born
  <2>4. PutInv'
    BY <2>2 DEF PoolInv, OwnerInv, PutInv, Born
  <2>5. ParkedInv'
    BY DEF PoolInv, OwnerInv, ParkedInv, Born
  <2>6. QED
    BY <2>3, <2>4, <2>5 DEF OwnerInv
<1>5. DialInv'
  BY PoolAssumption DEF PoolInv, TypeOK, DialInv, Conns
<1>6. QED
  BY <1>1, <1>2, <1>3, <1>4, <1>5 DEF PoolInv

\* queueForIdleConn with keep-alives disabled.
LEMMA QueueForIdleConnDisabledInv ==
  ASSUME PoolInv, NEW w \in Wants, QueueForIdleConnDisabled(w)
  PROVE  PoolInv'
<1> USE DEF QueueForIdleConnDisabled, idleVars, hostVars, wantVars
<1>1. TypeOK'
  BY PoolAssumption DEF PoolInv, TypeOK, Callers, Dialers, Loops, Conns, DialInv
<1>2. KeyInv'
  BY PoolAssumption DEF PoolInv, TypeOK, KeyInv, RightHost, Conns
<1>3. IdleInv'
  BY DEF PoolInv, IdleInv
<1>4. OwnerInv'
  BY PoolAssumption, SMTT(60) DEF PoolInv, TypeOK, OwnerInv, UserInv, PutInv, ParkedInv,
                        DialInv, Uses, Born, Conns
<1>5. DialInv'
  BY PoolAssumption DEF PoolInv, TypeOK, DialInv, Conns
<1>6. QED
  BY <1>1, <1>2, <1>3, <1>4, <1>5 DEF PoolInv

\* getConn returns what was delivered.
LEMMA SelectReadyInv ==
  ASSUME PoolInv, NEW w \in Wants, SelectReady(w)
  PROVE  PoolInv'
<1> USE DEF SelectReady, waiting, idleVars, hostVars, wantVars
<1>1. TypeOK'
  BY PoolAssumption DEF PoolInv, TypeOK, Callers, Dialers, Loops, Conns, DialInv
<1>2. KeyInv'
  BY PoolAssumption DEF PoolInv, TypeOK, KeyInv, RightHost, Conns
<1>3. IdleInv'
  BY DEF PoolInv, IdleInv
<1>4. OwnerInv'
  <2>1. UserInv'
    <3>1. \A v \in Wants : \A c \in Conns : Uses(v, c)' => Uses(v, c)
      BY DEF PoolInv, TypeOK, Uses
    <3>2. QED
      BY <3>1 DEF PoolInv, OwnerInv, UserInv, Born
  <2>2. PutInv'
    BY PoolAssumption DEF PoolInv, TypeOK, OwnerInv, UserInv, PutInv, ParkedInv,
                          DialInv, Uses, Born, Conns
  <2>3. ParkedInv'
    BY PoolAssumption DEF PoolInv, TypeOK, OwnerInv, ParkedInv, DialInv, Born, Conns
  <2>4. QED
    BY <2>1, <2>2, <2>3 DEF OwnerInv
<1>5. DialInv'
  BY PoolAssumption, SMTT(60) DEF PoolInv, TypeOK, DialInv, Conns
<1>6. QED
  BY <1>1, <1>2, <1>3, <1>4, <1>5 DEF PoolInv

\* getConn sees the cancellation.
LEMMA SelectCanceledInv ==
  ASSUME PoolInv, NEW w \in Wants, SelectCanceled(w)
  PROVE  PoolInv'
<1> USE DEF SelectCanceled, idleVars, hostVars, wantVars
<1>1. TypeOK'
  BY PoolAssumption DEF PoolInv, TypeOK, Callers, Dialers, Loops, Conns, DialInv
<1>2. KeyInv'
  BY PoolAssumption DEF PoolInv, TypeOK, KeyInv, RightHost, Conns
<1>3. IdleInv'
  BY DEF PoolInv, IdleInv
<1>4. OwnerInv'
  BY PoolAssumption, SMTT(60) DEF PoolInv, TypeOK, OwnerInv, UserInv, PutInv, ParkedInv,
                        DialInv, Uses, Born, Conns
<1>5. DialInv'
  BY PoolAssumption DEF PoolInv, TypeOK, DialInv, Conns
<1>6. QED
  BY <1>1, <1>2, <1>3, <1>4, <1>5 DEF PoolInv

\* A request hands the connection it uses to a tryPutIdleConn call n.
LEMMA GiveBack ==
  ASSUME PoolInv, NEW w \in Wants, NEW n \in PutCalls, NEW u \in Callers,
         wpc[w] = n.pc, call[w] \notin {"leaving", "done"},
         u \in {"leaving", "done"}, call' = [call EXCEPT ![w] = u],
         wpc' = wpc \/ wpc' = [wpc EXCEPT ![w] = NoConn],
         puts' = puts \cup {n}, UNCHANGED <<dial, readLoop, closing, idleLRU>>
  PROVE  OwnerInv'
<1>1. n.pc \in Conns /\ Uses(w, n.pc)
  BY DEF PutCalls, Uses
<1>2. /\ Born(n.pc) /\ n.pc \notin ToSet(idleLRU) /\ n.pc \notin closing
      /\ \A p \in puts : p.pc # n.pc
      /\ \A v \in Wants : Uses(v, n.pc) => v = w
  BY <1>1 DEF PoolInv, OwnerInv, UserInv
<1>3. \A c \in Conns : Born(c)' <=> Born(c)
  BY DEF Born
<1>4. \A v \in Wants : \A c \in Conns : wpc'[v] = c => wpc[v] = c
  BY PoolAssumption, SMTT(60) DEF PoolInv, TypeOK, Conns
<1>5. \A v \in Wants : \A c \in Conns : Uses(v, c)' => Uses(v, c) /\ v # w
  BY <1>4 DEF PoolInv, TypeOK, Uses
<1>6. UserInv'
  BY <1>2, <1>3, <1>4, <1>5 DEF PoolInv, OwnerInv, UserInv
<1>7. PutInv'
  <2>1. \A p \in puts : p.pc \in Conns
    BY DEF PoolInv, TypeOK, PutCalls
  <2>2. QED
    BY <1>1, <1>2, <1>3, <2>1 DEF PoolInv, OwnerInv, PutInv
<1>8. ParkedInv'
  BY <1>3 DEF PoolInv, TypeOK, OwnerInv, ParkedInv
<1>9. QED
  BY <1>6, <1>7, <1>8 DEF OwnerInv

\* cancel hands the delivered connection to a tryPutIdleConn call.
LEMMA WantConnCancelInv ==
  ASSUME PoolInv, NEW w \in Wants, WantConnCancel(w)
  PROVE  PoolInv'
<1> USE DEF WantConnCancel, beginPut, PutCalls, PutSteps, idleVars, hostVars, wantVars
<1>1. TypeOK'
  <2>1. puts' \subseteq PutCalls
    <3>1. wpc[w] # NoConn => beginPut("cancel", w, wpc[w]) \in PutCalls
      BY PoolAssumption DEF PoolInv, TypeOK, Conns, DialInv
    <3>2. QED
      BY <3>1 DEF PoolInv, TypeOK
  <2>2. QED
    BY <2>1, PoolAssumption DEF PoolInv, TypeOK, Callers, Dialers, Conns, waiting
<1>2. KeyInv'
  BY PoolAssumption DEF PoolInv, TypeOK, KeyInv, RightHost, Conns
<1>3. IdleInv'
  BY DEF PoolInv, IdleInv
<1>4. OwnerInv'
  <2>1. CASE wpc[w] = NoConn
    <3>1. \A v \in Wants : \A c \in Conns :
            /\ wpc'[v] = c => wpc[v] = c
            /\ Uses(v, c)' => Uses(v, c)
      BY <2>1, PoolAssumption DEF PoolInv, TypeOK, Uses, Conns
    <3>2. puts' = puts /\ UNCHANGED <<idleLRU, closing, dial, readLoop>>
      BY <2>1
    <3>3. UserInv'
      BY <3>1, <3>2 DEF PoolInv, OwnerInv, UserInv, Born
    <3>4. PutInv' /\ ParkedInv'
      BY <3>2 DEF PoolInv, OwnerInv, PutInv, ParkedInv, Born
    <3>5. QED
      BY <3>3, <3>4 DEF OwnerInv
  <2>2. CASE wpc[w] # NoConn
    <3> DEFINE n == beginPut("cancel", w, wpc[w])
    <3>1. n \in PutCalls /\ n.pc = wpc[w]
      BY <2>2 DEF PoolInv, TypeOK, Conns
    <3>2. puts' = puts \cup {n}
      BY <2>2
    <3> HIDE DEF n
    <3>3. "done" \in Callers
      BY DEF Callers
    <3>4. QED
      BY <3>1, <3>2, <3>3, GiveBack
  <2>3. QED
    BY <2>1, <2>2
<1>5. DialInv'
  BY PoolAssumption DEF PoolInv, TypeOK, DialInv, Conns
<1>6. QED
  BY <1>1, <1>2, <1>3, <1>4, <1>5 DEF PoolInv

\* dialConnFor starts or returns at once.
LEMMA DialStartInv ==
  ASSUME PoolInv, NEW w \in Wants, DialStart(w)
  PROVE  PoolInv'
<1> USE DEF DialStart, idleVars, hostVars, wantVars
<1>1. TypeOK'
  BY PoolAssumption DEF PoolInv, TypeOK, Callers, Dialers, Loops, Conns, DialInv
<1>2. KeyInv'
  BY PoolAssumption DEF PoolInv, TypeOK, KeyInv, RightHost, Conns
<1>3. IdleInv'
  BY DEF PoolInv, IdleInv
<1>4. OwnerInv'
  BY PoolAssumption, SMTT(60) DEF PoolInv, TypeOK, OwnerInv, UserInv, PutInv, ParkedInv,
                        DialInv, Uses, Born, Conns
<1>5. DialInv'
  BY PoolAssumption DEF PoolInv, TypeOK, DialInv, Conns
<1>6. QED
  BY <1>1, <1>2, <1>3, <1>4, <1>5 DEF PoolInv

\* The dial succeeds or fails.
LEMMA DialConnInv ==
  ASSUME PoolInv, NEW w \in Wants, DialConn(w)
  PROVE  PoolInv'
<1> USE DEF idleVars, hostVars, wantVars
<1>1. /\ dial[w] = "dialing" /\ readLoop[w] = "none"
      /\ UNCHANGED <<idleVars, hostVars, wantVars, call, closed, puts, closing>>
      /\ dial' \in [Wants -> Dialers] /\ readLoop' \in [Conns -> Loops]
  <2>1. CASE dial' = [dial EXCEPT ![w] = "dialed"]
             /\ readLoop' = [readLoop EXCEPT ![w] = "run"]
    BY <2>1 DEF DialConn, PoolInv, TypeOK, DialInv, Dialers, Loops
  <2>2. CASE dial' = [dial EXCEPT ![w] = "failed"] /\ UNCHANGED readLoop
    BY <2>2 DEF DialConn, PoolInv, TypeOK, DialInv, Dialers, Loops
  <2>3. QED
    BY <2>1, <2>2 DEF DialConn
<1>2. /\ \A x \in Wants : x # w => dial'[x] = dial[x] /\ readLoop'[x] = readLoop[x]
      /\ \/ dial'[w] = "dialed" /\ readLoop'[w] = "run"
         \/ dial'[w] = "failed" /\ readLoop'[w] = "none"
  BY <1>1 DEF DialConn, PoolInv, TypeOK, Conns
<1>3. \A c \in Conns : Born(c)' <=> Born(c)
  BY <1>1, <1>2 DEF Born, Conns
<1>4. TypeOK'
  BY <1>1 DEF PoolInv, TypeOK
<1>5. KeyInv' /\ IdleInv'
  BY <1>1 DEF PoolInv, KeyInv, RightHost, IdleInv
<1>6. UserInv'
  BY <1>1, <1>3 DEF PoolInv, OwnerInv, UserInv, Uses
<1>7. PutInv'
  <2>1. \A p \in puts : p.pc \in Conns
    BY DEF PoolInv, TypeOK, PutCalls
  <2>2. QED
    BY <1>1, <1>3, <2>1 DEF PoolInv, OwnerInv, PutInv
<1>8. ParkedInv'
  BY <1>1, <1>3 DEF PoolInv, TypeOK, OwnerInv, ParkedInv
<1>9. DialInv'
  <2>1. \A x \in Wants :
          /\ call'[x] \in {"start", "queueForDial"} => dial'[x] = "none"
          /\ call'[x] = "using" => wpc'[x] # NoConn
          /\ dial'[x] = "dialed" => readLoop'[x] # "none"
          /\ dial'[x] \notin {"dialed", "done"} => readLoop'[x] = "none"
          /\ closed'[x] => readLoop'[x] # "none"
    BY <1>1, <1>2 DEF PoolInv, DialInv
  <2>2. \A k \in Keys : \A x \in ToSet(connsPerHostWait[k]) :
          x \in Wants /\ x # w /\ dial'[x] = "none"
    <3> SUFFICES ASSUME NEW k \in Keys, NEW x \in ToSet(connsPerHostWait[k])
                 PROVE  x \in Wants /\ x # w /\ dial'[x] = "none"
      OBVIOUS
    <3>1. x \in Wants
      BY ToSetType DEF PoolInv, TypeOK
    <3>2. dial[x] = "none"
      BY DEF PoolInv, DialInv
    <3>3. QED
      BY <1>1, <1>2, <3>1, <3>2
  <2>3. QED
    BY <1>1, <2>1, <2>2 DEF PoolInv, DialInv
<1>10. QED
  BY <1>4, <1>5, <1>6, <1>7, <1>8, <1>9 DEF PoolInv, OwnerInv

\* dialConnFor gives the new connection to its want or to tryPutIdleConn.
LEMMA DialDeliverInv ==
  ASSUME PoolInv, NEW w \in Wants, DialDeliver(w)
  PROVE  PoolInv'
<1> USE DEF idleVars, hostVars, wantVars
<1> DEFINE n == beginPut("dialConnFor", w, w)
<1>1. /\ dial[w] = "dialed" /\ readLoop[w] # "none"
      /\ dial' = [dial EXCEPT ![w] = "done"]
      /\ UNCHANGED <<idleVars, hostVars, werr, call, readLoop, closed, closing>>
  BY DEF DialDeliver, PoolInv, DialInv
<1>2. n \in PutCalls /\ n.pc = w
  BY DEF beginPut, PutCalls, PutSteps, Conns
<1>3. /\ dial' \in [Wants -> Dialers]
      /\ dial'[w] = "done"
      /\ \A x \in Wants : x # w => dial'[x] = dial[x]
  BY <1>1 DEF PoolInv, TypeOK, Dialers
<1>4. /\ \A c \in Conns : Born(c) => Born(c)'
      /\ ~Born(w) /\ Born(w)'
  BY <1>1, <1>3 DEF Born, Conns
<1>5. \A p \in puts : p \in PutCalls /\ p.pc \in Conns /\ p.pc # w
  BY <1>4 DEF PoolInv, TypeOK, OwnerInv, PutInv, PutCalls
<1>6. w \notin ToSet(idleLRU) /\ w \notin closing
      /\ \A v \in Wants : ~Uses(v, w)
  BY <1>4 DEF PoolInv, OwnerInv, UserInv, ParkedInv, Conns
<1> HIDE DEF n
<1>7. DialInv'
  <2>1. \A k \in Keys : w \notin ToSet(connsPerHostWait[k])
    BY <1>1 DEF PoolInv, DialInv
  <2>2. \A k \in Keys : \A x \in ToSet(connsPerHostWait[k]) : x \in Wants
    BY ToSetType DEF PoolInv, TypeOK
  <2>3. \A x \in Wants : call[x] \in {"got", "using", "leaving"} => wpc'[x] # NoConn
    BY PoolAssumption DEF DialDeliver, PoolInv, TypeOK, DialInv, waiting
  <2>4. \A x \in Wants :
          /\ call[x] \in {"start", "queueForDial"} => dial'[x] = "none"
          /\ dial'[x] = "dialed" => readLoop[x] # "none"
          /\ dial'[x] \notin {"dialed", "done"} => readLoop[x] = "none"
          /\ closed[x] => readLoop[x] # "none"
    BY <1>1, <1>3 DEF PoolInv, DialInv
  <2>5. \A k \in Keys : \A x \in ToSet(connsPerHostWait[k]) : dial'[x] = "none"
    BY <1>3, <2>1, <2>2 DEF PoolInv, DialInv
  <2>6. QED
    BY <1>1, <2>3, <2>4, <2>5 DEF PoolInv, DialInv
<1>8. ParkedInv'
  BY <1>1, <1>4 DEF PoolInv, TypeOK, OwnerInv, ParkedInv
<1>9. CASE waiting(w)
  <2>1. wpc' = [wpc EXCEPT ![w] = w] /\ puts' = puts
    BY <1>9 DEF DialDeliver
  <2>2. TypeOK'
    BY <1>1, <1>3, <2>1 DEF PoolInv, TypeOK, Conns
  <2>3. /\ wpc'[w] = w
        /\ \A x \in Wants : x # w => wpc'[x] = wpc[x]
    BY <2>1 DEF PoolInv, TypeOK
  <2>4. KeyInv' /\ IdleInv'
    BY <1>1, <2>3 DEF PoolInv, KeyInv, RightHost, IdleInv
  <2>5. UserInv'
    <3>1. \A v \in Wants : \A c \in Conns : Uses(v, c)' =>
            (v = w /\ c = w) \/ (v # w /\ Uses(v, c))
      BY <1>1, <2>3 DEF Uses
    <3>2. ASSUME NEW v \in Wants, NEW c \in Conns, Uses(v, c)'
          PROVE  Born(c)' /\ c \notin ToSet(idleLRU)' /\ c \notin closing'
                 /\ \A p \in puts' : p.pc # c
      <4>1. CASE v = w /\ c = w
        BY <1>1, <1>4, <1>5, <1>6, <2>1, <4>1
      <4>2. CASE Uses(v, c)
        BY <1>1, <1>4, <2>1, <4>2 DEF PoolInv, OwnerInv, UserInv
      <4>3. QED
        BY <3>1, <3>2, <4>1, <4>2
    <3>3. \A u, v \in Wants : \A c \in Conns : Uses(u, c)' /\ Uses(v, c)' => u = v
      BY <1>6, <3>1 DEF PoolInv, OwnerInv, UserInv
    <3>4. \A v \in Wants : \A c \in Conns : wpc'[v] = c => Born(c)'
      BY <1>4, <2>3 DEF PoolInv, OwnerInv, UserInv
    <3>5. QED
      BY <3>2, <3>3, <3>4 DEF UserInv
  <2>6. PutInv'
    BY <1>1, <1>4, <1>5, <2>1 DEF PoolInv, OwnerInv, PutInv
  <2>7. QED
    BY <1>7, <1>8, <2>2, <2>4, <2>5, <2>6 DEF PoolInv, OwnerInv
<1>10. CASE ~waiting(w)
  <2>1. puts' = puts \cup {n} /\ wpc' = wpc
    BY <1>10 DEF DialDeliver, n
  <2>2. TypeOK'
    BY <1>1, <1>2, <1>3, <2>1 DEF PoolInv, TypeOK
  <2>3. KeyInv' /\ IdleInv'
    BY <1>1, <2>1 DEF PoolInv, KeyInv, RightHost, IdleInv
  <2>4. UserInv'
    <3>1. \A v \in Wants : \A c \in Conns : Uses(v, c)' => Uses(v, c) /\ c # w
      BY <1>1, <1>6, <2>1 DEF Uses
    <3>2. QED
      BY <1>1, <1>2, <1>4, <2>1, <3>1 DEF PoolInv, OwnerInv, UserInv
  <2>5. PutInv'
    BY <1>1, <1>2, <1>4, <1>5, <1>6, <2>1 DEF PoolInv, OwnerInv, PutInv
  <2>6. QED
    BY <1>7, <1>8, <2>2, <2>3, <2>4, <2>5 DEF PoolInv, OwnerInv
<1>11. QED
  BY <1>9, <1>10

\* dialConnFor delivers the error.
LEMMA DialDeliverErrInv ==
  ASSUME PoolInv, NEW w \in Wants, DialDeliverErr(w)
  PROVE  PoolInv'
<1> USE DEF DialDeliverErr, idleVars, hostVars, wantVars
<1>1. TypeOK'
  BY PoolAssumption DEF PoolInv, TypeOK, Callers, Dialers, Loops, Conns, DialInv
<1>2. KeyInv'
  BY PoolAssumption DEF PoolInv, TypeOK, KeyInv, RightHost, Conns
<1>3. IdleInv'
  BY DEF PoolInv, IdleInv
<1>4. OwnerInv'
  BY PoolAssumption, SMTT(60) DEF PoolInv, TypeOK, OwnerInv, UserInv, PutInv, ParkedInv,
                        DialInv, Uses, Born, Conns
<1>5. DialInv'
  BY PoolAssumption DEF PoolInv, TypeOK, DialInv, Conns
<1>6. QED
  BY <1>1, <1>2, <1>3, <1>4, <1>5 DEF PoolInv

\* readLoop takes the connection over from the request.
LEMMA FinishReuseInv ==
  ASSUME PoolInv, NEW w \in Wants, FinishReuse(w)
  PROVE  PoolInv'
<1> USE DEF FinishReuse, beginPut, PutCalls, PutSteps, idleVars, hostVars, wantVars
<1>1. TypeOK'
  <2>1. puts' \subseteq PutCalls
    <3>1. beginPut("readLoop", wpc[w], wpc[w]) \in PutCalls
      BY PoolAssumption DEF PoolInv, TypeOK, Conns, DialInv
    <3>2. QED
      BY <3>1 DEF PoolInv, TypeOK
  <2>2. QED
    BY <2>1, PoolAssumption DEF PoolInv, TypeOK, Callers, Dialers, Conns, waiting
<1>2. KeyInv'
  BY PoolAssumption DEF PoolInv, TypeOK, KeyInv, RightHost, Conns
<1>3. IdleInv'
  BY DEF PoolInv, IdleInv
<1>4. OwnerInv'
  <2> DEFINE n == beginPut("readLoop", wpc[w], wpc[w])
  <2>1. n \in PutCalls /\ n.pc = wpc[w]
    BY DEF PoolInv, TypeOK, DialInv, Conns
  <2>2. puts' = puts \cup {n}
    OBVIOUS
  <2> HIDE DEF n
  <2>3. "leaving" \in Callers
    BY DEF Callers
  <2>4. QED
    BY <2>1, <2>2, <2>3, GiveBack
<1>5. DialInv'
  BY PoolAssumption, SMTT(60) DEF PoolInv, TypeOK, DialInv, Conns
<1>6. QED
  BY <1>1, <1>2, <1>3, <1>4, <1>5 DEF PoolInv

\* roundTrip returns its connection unused.
LEMMA RoundTripCanceledInv ==
  ASSUME PoolInv, NEW w \in Wants, RoundTripCanceled(w)
  PROVE  PoolInv'
<1> USE DEF RoundTripCanceled, beginPut, PutCalls, PutSteps, idleVars, hostVars, wantVars
<1>1. TypeOK'
  <2>1. puts' \subseteq PutCalls
    <3>1. beginPut("roundTrip", w, wpc[w]) \in PutCalls
      BY PoolAssumption DEF PoolInv, TypeOK, Conns, DialInv
    <3>2. QED
      BY <3>1 DEF PoolInv, TypeOK
  <2>2. QED
    BY <2>1, PoolAssumption DEF PoolInv, TypeOK, Callers, Dialers, Conns, waiting
<1>2. KeyInv'
  BY PoolAssumption DEF PoolInv, TypeOK, KeyInv, RightHost, Conns
<1>3. IdleInv'
  BY DEF PoolInv, IdleInv
<1>4. OwnerInv'
  <2> DEFINE n == beginPut("roundTrip", w, wpc[w])
  <2>1. n \in PutCalls /\ n.pc = wpc[w]
    BY DEF PoolInv, TypeOK, DialInv, Conns
  <2>2. puts' = puts \cup {n}
    OBVIOUS
  <2> HIDE DEF n
  <2>3. "done" \in Callers
    BY DEF Callers
  <2>4. QED
    BY <2>1, <2>2, <2>3, GiveBack
<1>5. DialInv'
  BY PoolAssumption, SMTT(60) DEF PoolInv, TypeOK, DialInv, Conns
<1>6. QED
  BY <1>1, <1>2, <1>3, <1>4, <1>5 DEF PoolInv

\* The request ends on a closed connection.
LEMMA FinishBrokenInv ==
  ASSUME PoolInv, NEW w \in Wants, FinishBroken(w)
  PROVE  PoolInv'
<1> USE DEF FinishBroken, idleVars, hostVars, wantVars
<1>1. TypeOK'
  BY PoolAssumption DEF PoolInv, TypeOK, Callers, Dialers, Loops, Conns, DialInv
<1>2. KeyInv'
  BY PoolAssumption DEF PoolInv, TypeOK, KeyInv, RightHost, Conns
<1>3. IdleInv'
  BY DEF PoolInv, IdleInv
<1>4. OwnerInv'
  BY PoolAssumption DEF PoolInv, TypeOK, OwnerInv, UserInv, PutInv, ParkedInv,
                        DialInv, Uses, Born, Conns
<1>5. DialInv'
  BY PoolAssumption, SMTT(60) DEF PoolInv, TypeOK, DialInv, Conns
<1>6. QED
  BY <1>1, <1>2, <1>3, <1>4, <1>5 DEF PoolInv

\* roundTrip sends the request.
LEMMA RoundTripStartInv ==
  ASSUME PoolInv, NEW w \in Wants, RoundTripStart(w)
  PROVE  PoolInv'
<1> USE DEF RoundTripStart, idleVars, hostVars, wantVars
<1>1. TypeOK'
  BY PoolAssumption DEF PoolInv, TypeOK, Callers, Dialers, Loops, Conns, DialInv
<1>2. KeyInv'
  BY PoolAssumption DEF PoolInv, TypeOK, KeyInv, RightHost, Conns
<1>3. IdleInv'
  BY DEF PoolInv, IdleInv
<1>4. OwnerInv'
  <2>1. \A v \in Wants : \A c \in Conns : Uses(v, c)' <=> Uses(v, c)
    BY DEF PoolInv, TypeOK, Uses
  <2>2. UserInv'
    BY <2>1 DEF PoolInv, OwnerInv, UserInv, Born
  <2>3. PutInv' /\ ParkedInv'
    BY DEF PoolInv, OwnerInv, PutInv, ParkedInv, Born
  <2>4. QED
    BY <2>2, <2>3 DEF OwnerInv
<1>5. DialInv'
  BY PoolAssumption, SMTT(60) DEF PoolInv, TypeOK, DialInv, Conns
<1>6. QED
  BY <1>1, <1>2, <1>3, <1>4, <1>5 DEF PoolInv

\* roundTrip returns the response.
LEMMA RoundTripReturnsInv ==
  ASSUME PoolInv, NEW w \in Wants, RoundTripReturns(w)
  PROVE  PoolInv'
<1> USE DEF RoundTripReturns, idleVars, hostVars, wantVars
<1>1. TypeOK'
  BY PoolAssumption DEF PoolInv, TypeOK, Callers, Dialers, Loops, Conns, DialInv
<1>2. KeyInv'
  BY PoolAssumption DEF PoolInv, TypeOK, KeyInv, RightHost, Conns
<1>3. IdleInv'
  BY DEF PoolInv, IdleInv
<1>4. OwnerInv'
  BY PoolAssumption DEF PoolInv, TypeOK, OwnerInv, UserInv, PutInv, ParkedInv,
                        DialInv, Uses, Born, Conns
<1>5. DialInv'
  BY PoolAssumption, SMTT(60) DEF PoolInv, TypeOK, DialInv, Conns
<1>6. QED
  BY <1>1, <1>2, <1>3, <1>4, <1>5 DEF PoolInv

(***************************************************************************)
(* Actions that close a connection or take one out of the pool.            *)
(***************************************************************************)

\* Owners stay apart when nobody gets a connection.
LEMMA OwnersShrink ==
  ASSUME PoolInv, UNCHANGED wpc, puts' \subseteq puts,
         \A v \in Wants : call'[v] \notin {"leaving", "done"}
                            => call[v] \notin {"leaving", "done"},
         closing' \subseteq closing,
         ToSet(idleLRU') \subseteq ToSet(idleLRU),
         \A x \in Conns : Born(x) => Born(x)'
  PROVE  OwnerInv'
<1>1. \A p \in puts : p.pc \in Conns
  BY DEF PoolInv, TypeOK, PutCalls
<1>2. UserInv'
  <2>1. \A v \in Wants : \A c \in Conns : Uses(v, c)' => Uses(v, c)
    BY DEF Uses
  <2>2. QED
    BY <2>1 DEF PoolInv, OwnerInv, UserInv
<1>3. PutInv'
  BY <1>1 DEF PoolInv, OwnerInv, PutInv
<1>4. ParkedInv'
  BY DEF PoolInv, TypeOK, OwnerInv, ParkedInv
<1>5. QED
  BY <1>2, <1>3, <1>4 DEF OwnerInv

\* A step that closes c and moves no request forward.
LEMMA CloseStep ==
  ASSUME PoolInv, NEW c \in Conns, readLoop[c] # "none", closeLocked(c, dial),
         UNCHANGED wpc, readLoop' \in [Conns -> Loops],
         \A v \in Wants :
           /\ call'[v] \in {"start", "queueForDial"}
                 <=> call[v] \in {"start", "queueForDial"}
           /\ call'[v] \in {"got", "using", "leaving"}
                 => call[v] \in {"got", "using", "leaving"},
         \A x \in Conns : readLoop'[x] = "none" <=> readLoop[x] = "none"
  PROVE  /\ DialInv'
         /\ \A x \in Conns : Born(x) => Born(x)'
         /\ closed' \in [Conns -> BOOLEAN]
         /\ connsPerHost' \in [Keys -> Int]
         /\ connsPerHostWait' \in [Keys -> Seq(Wants)]
         /\ dial' \in [Wants -> Dialers]
<1>1. /\ HostStep(dial)
      /\ closed' \in [Conns -> BOOLEAN]
      /\ \A x \in Conns : x # c => closed'[x] = closed[x]
  BY CloseLockedFacts DEF PoolInv
<1>2. /\ \A k \in Keys :
           /\ ToSet(connsPerHostWait'[k]) \subseteq ToSet(connsPerHostWait[k])
           /\ IsInjective(connsPerHostWait'[k])
           /\ \A w \in ToSet(connsPerHostWait'[k]) : dial'[w] = "none"
      /\ \A w \in Wants : \/ dial'[w] = dial[w]
                          \/ /\ dial[w] = "none"
                             /\ dial'[w] = "spawned"
                             /\ call[w] \notin {"start", "queueForDial"}
  BY <1>1 DEF HostStep
<1>3. \A x \in Conns : Born(x) => Born(x)'
  BY <1>2 DEF Born, Conns
<1>4. DialInv'
  <2>1. ASSUME NEW w \in Wants
        PROVE  /\ call'[w] \in {"start", "queueForDial"} => dial'[w] = "none"
               /\ call'[w] \in {"got", "using", "leaving"} => wpc'[w] # NoConn
               /\ dial'[w] = "dialed" => readLoop'[w] # "none"
               /\ dial'[w] \notin {"dialed", "done"} => readLoop'[w] = "none"
               /\ closed'[w] => readLoop'[w] # "none"
    <3>1. /\ call[w] \in {"start", "queueForDial"} => dial[w] = "none"
          /\ call[w] \in {"got", "using", "leaving"} => wpc[w] # NoConn
          /\ dial[w] = "dialed" => readLoop[w] # "none"
          /\ dial[w] \notin {"dialed", "done"} => readLoop[w] = "none"
          /\ closed[w] => readLoop[w] # "none"
      BY DEF PoolInv, DialInv
    <3>2. readLoop'[w] = "none" <=> readLoop[w] = "none"
      BY DEF Conns
    <3>3. closed'[w] => w = c \/ closed[w]
      BY <1>1 DEF Conns
    <3>4. QED
      BY <1>2, <3>1, <3>2, <3>3
  <2>2. \A k \in Keys : \A w \in ToSet(connsPerHostWait'[k]) :
          KeyOf[w] = k /\ call'[w] \notin {"start", "queueForDial"}
    <3>1. \A k \in Keys : \A w \in ToSet(connsPerHostWait[k]) : w \in Wants
      BY ToSetType DEF PoolInv, TypeOK
    <3>2. QED
      BY <1>2, <3>1 DEF PoolInv, DialInv
  <2>3. QED
    BY <1>2, <2>1, <2>2 DEF DialInv
<1>5. QED
  BY <1>1, <1>3, <1>4 DEF HostStep

\* putOrCloseIdleConn closes what tryPutIdleConn did not take.
LEMMA PutOrCloseInv ==
  ASSUME PoolInv, NEW p \in puts, PutOrClose(p)
  PROVE  PoolInv'
<1> USE DEF idleVars, wantVars
<1>1. p.pc \in Conns /\ Born(p.pc)
  BY DEF PoolInv, TypeOK, PutCalls, OwnerInv, PutInv
<1>2. /\ closeLocked(p.pc, dial) /\ puts' = puts \ {p}
      /\ UNCHANGED <<idleVars, wantVars, call, readLoop, closing>>
  BY DEF PutOrClose
<1>3. readLoop \in [Conns -> Loops]
  BY DEF PoolInv, TypeOK
<1>4. /\ DialInv' /\ \A x \in Conns : Born(x) => Born(x)'
      /\ closed' \in [Conns -> BOOLEAN] /\ connsPerHost' \in [Keys -> Int]
      /\ connsPerHostWait' \in [Keys -> Seq(Wants)] /\ dial' \in [Wants -> Dialers]
  BY <1>1, <1>2, <1>3, CloseStep DEF Born
<1>5. TypeOK'
  BY <1>2, <1>4 DEF PoolInv, TypeOK
<1>6. OwnerInv'
  BY <1>2, <1>4, OwnersShrink
<1>7. KeyInv' /\ IdleInv'
  BY <1>2 DEF PoolInv, KeyInv, RightHost, IdleInv
<1>8. QED
  BY <1>4, <1>5, <1>6, <1>7 DEF PoolInv

\* A request closes the connection it uses.
LEMMA AbortInUseInv ==
  ASSUME PoolInv, NEW w \in Wants, AbortInUse(w)
  PROVE  PoolInv'
<1> USE DEF idleVars, wantVars
<1>1. wpc[w] \in Conns /\ Born(wpc[w])
  BY DEF AbortInUse, PoolInv, TypeOK, DialInv, OwnerInv, UserInv, Uses
<1>2. /\ closeLocked(wpc[w], dial)
      /\ UNCHANGED <<idleVars, wantVars, call, readLoop, puts, closing>>
  BY DEF AbortInUse
<1>3. readLoop \in [Conns -> Loops]
  BY DEF PoolInv, TypeOK
<1>4. /\ DialInv' /\ \A x \in Conns : Born(x) => Born(x)'
      /\ closed' \in [Conns -> BOOLEAN] /\ connsPerHost' \in [Keys -> Int]
      /\ connsPerHostWait' \in [Keys -> Seq(Wants)] /\ dial' \in [Wants -> Dialers]
  BY <1>1, <1>2, <1>3, CloseStep DEF Born
<1>5. TypeOK'
  BY <1>2, <1>4 DEF PoolInv, TypeOK
<1>6. OwnerInv'
  BY <1>2, <1>4, OwnersShrink
<1>7. KeyInv' /\ IdleInv'
  BY <1>2 DEF PoolInv, KeyInv, RightHost, IdleInv
<1>8. QED
  BY <1>4, <1>5, <1>6, <1>7 DEF PoolInv

\* roundTrip closes the connection it has just lost.
LEMMA RoundTripLateCloseInv ==
  ASSUME PoolInv, NEW w \in Wants, RoundTripLateClose(w)
  PROVE  PoolInv'
<1> USE DEF idleVars, wantVars
<1>1. wpc[w] \in Conns /\ Born(wpc[w])
  BY DEF RoundTripLateClose, PoolInv, TypeOK, DialInv, OwnerInv, UserInv
<1>2. /\ call[w] = "leaving" /\ call' = [call EXCEPT ![w] = "done"]
      /\ closeLocked(wpc[w], dial)
      /\ UNCHANGED <<idleVars, wantVars, readLoop, puts, closing>>
  BY DEF RoundTripLateClose
<1>3. readLoop \in [Conns -> Loops]
  BY DEF PoolInv, TypeOK
<1>4. \A v \in Wants :
        /\ call'[v] \in {"start", "queueForDial"}
              <=> call[v] \in {"start", "queueForDial"}
        /\ call'[v] \in {"got", "using", "leaving"}
              => call[v] \in {"got", "using", "leaving"}
        /\ call'[v] \notin {"leaving", "done"} => call[v] \notin {"leaving", "done"}
  BY <1>2 DEF PoolInv, TypeOK
<1>5. /\ DialInv' /\ \A x \in Conns : Born(x) => Born(x)'
      /\ closed' \in [Conns -> BOOLEAN] /\ connsPerHost' \in [Keys -> Int]
      /\ connsPerHostWait' \in [Keys -> Seq(Wants)] /\ dial' \in [Wants -> Dialers]
  BY <1>1, <1>2, <1>3, <1>4, CloseStep DEF Born
<1>6. TypeOK'
  BY <1>2, <1>5 DEF PoolInv, TypeOK, Callers
<1>7. OwnerInv'
  BY <1>2, <1>4, <1>5, OwnersShrink
<1>8. KeyInv' /\ IdleInv'
  BY <1>2 DEF PoolInv, KeyInv, RightHost, IdleInv
<1>9. QED
  BY <1>5, <1>6, <1>7, <1>8 DEF PoolInv

\* CloseIdleConnections closes one of the connections it took out.
LEMMA CloseIdleConnectionsCloseInv ==
  ASSUME PoolInv, NEW c \in Conns, CloseIdleConnectionsClose(c)
  PROVE  PoolInv'
<1> USE DEF idleVars, wantVars
<1>1. Born(c)
  BY DEF CloseIdleConnectionsClose, PoolInv, OwnerInv, ParkedInv
<1>2. /\ closeLocked(c, dial) /\ closing' = closing \ {c}
      /\ UNCHANGED <<idleVars, wantVars, call, readLoop, puts>>
  BY DEF CloseIdleConnectionsClose
<1>3. readLoop \in [Conns -> Loops]
  BY DEF PoolInv, TypeOK
<1>4. /\ DialInv' /\ \A x \in Conns : Born(x) => Born(x)'
      /\ closed' \in [Conns -> BOOLEAN] /\ connsPerHost' \in [Keys -> Int]
      /\ connsPerHostWait' \in [Keys -> Seq(Wants)] /\ dial' \in [Wants -> Dialers]
  BY <1>1, <1>2, <1>3, CloseStep DEF Born
<1>5. TypeOK'
  BY <1>2, <1>4 DEF PoolInv, TypeOK
<1>6. OwnerInv'
  BY <1>2, <1>4, OwnersShrink
<1>7. KeyInv' /\ IdleInv'
  BY <1>2 DEF PoolInv, KeyInv, RightHost, IdleInv
<1>8. QED
  BY <1>4, <1>5, <1>6, <1>7 DEF PoolInv

\* readLoop ends and closes its connection, wherever that is.
LEMMA ReadLoopExitInv ==
  ASSUME PoolInv, NEW c \in Conns, ReadLoopExit(c)
  PROVE  PoolInv'
<1> USE DEF idleVars, wantVars
<1>1. /\ closeLocked(c, dial) /\ readLoop[c] # "none"
      /\ readLoop' = [readLoop EXCEPT ![c] = "exit"]
      /\ UNCHANGED <<idleVars, wantVars, call, puts, closing>>
  BY DEF ReadLoopExit
<1>2. /\ readLoop' \in [Conns -> Loops]
      /\ \A x \in Conns : readLoop'[x] = "none" <=> readLoop[x] = "none"
  BY <1>1 DEF PoolInv, TypeOK, Loops
<1>3. /\ DialInv' /\ \A x \in Conns : Born(x) => Born(x)'
      /\ closed' \in [Conns -> BOOLEAN] /\ connsPerHost' \in [Keys -> Int]
      /\ connsPerHostWait' \in [Keys -> Seq(Wants)] /\ dial' \in [Wants -> Dialers]
  BY <1>1, <1>2, CloseStep
<1>4. TypeOK'
  BY <1>1, <1>2, <1>3 DEF PoolInv, TypeOK
<1>5. OwnerInv'
  BY <1>1, <1>3, OwnersShrink
<1>6. KeyInv' /\ IdleInv'
  BY <1>1 DEF PoolInv, KeyInv, RightHost, IdleInv
<1>7. QED
  BY <1>3, <1>4, <1>5, <1>6 DEF PoolInv

\* The two idle lists without c: ic loses c, lru2 is lru without c.
IdleShape(ic, lru) ==
  /\ ic \in [Keys -> Seq(Conns)]
  /\ lru \in Seq(Conns)
  /\ IsInjective(lru)
  /\ \A k \in Keys : /\ IsInjective(ic[k])
                     /\ ToSet(ic[k]) \subseteq ToSet(lru)
                     /\ \A c \in ToSet(ic[k]) : KeyOf[c] = k

\* Taking c out of both lists keeps their shape.
LEMMA WithoutIdleFacts ==
  ASSUME NEW ic, NEW lru, NEW lru2 \in Seq(Conns), NEW c \in Conns,
         IdleShape(ic, lru), IsInjective(lru2),
         ToSet(lru2) = ToSet(lru) \ {c}
  PROVE  IdleShape(withoutIdle(ic, c), lru2)
<1> DEFINE h == KeyOf[c]
           ic2 == withoutIdle(ic, c)
<1>1. h \in Keys
  BY PoolAssumption DEF Conns
<1>2. ic \in [Keys -> Seq(Conns)] /\ IsInjective(ic[h]) /\ ic[h] \in Seq(Conns)
  BY <1>1 DEF IdleShape
<1>3. /\ RemoveFirst(ic[h], c) \in Seq(Conns)
      /\ IsInjective(RemoveFirst(ic[h], c))
      /\ ToSet(RemoveFirst(ic[h], c)) = ToSet(ic[h]) \ {c}
  BY <1>2, RemoveFirstFacts
<1>4. ic2 = [ic EXCEPT ![h] = RemoveFirst(ic[h], c)]
  BY DEF withoutIdle
<1> HIDE DEF ic2, h
<1>5. ic2 \in [Keys -> Seq(Conns)]
  BY <1>2, <1>3, <1>4
<1>6. ASSUME NEW k \in Keys
      PROVE  /\ IsInjective(ic2[k])
             /\ ToSet(ic2[k]) \subseteq ToSet(lru2)
             /\ \A x \in ToSet(ic2[k]) : KeyOf[x] = k
  <2>1. CASE k = h
    <3>1. ic2[k] = RemoveFirst(ic[h], c)
      BY <1>1, <1>2, <1>4, <2>1
    <3>2. QED
      BY <1>1, <1>3, <2>1, <3>1 DEF IdleShape
  <2>2. CASE k # h
    <3>1. ic2[k] = ic[k]
      BY <1>1, <1>2, <1>4, <2>2
    <3>2. c \notin ToSet(ic[k])
      BY <2>2 DEF IdleShape, h
    <3>3. QED
      BY <3>1, <3>2 DEF IdleShape
  <2>3. QED
    BY <2>1, <2>2
<1>7. QED
  BY <1>5, <1>6 DEF IdleShape, ic2

\* The lists of the pool have that shape.
LEMMA PoolShape ==
  ASSUME PoolInv
  PROVE  IdleShape(idleConn, idleLRU)
BY DEF PoolInv, TypeOK, IdleInv, KeyInv, IdleShape

\* readLoop takes its connection out of the pool.
LEMMA ReadLoopRemoveIdleInv ==
  ASSUME PoolInv, NEW c \in Conns, ReadLoopRemoveIdle(c)
  PROVE  PoolInv'
<1> USE DEF hostVars, wantVars
<1>1. /\ readLoop[c] = "exit" /\ readLoop' = [readLoop EXCEPT ![c] = "gone"]
      /\ idleConn' = withoutIdle(idleConn, c)
      /\ idleLRU' = RemoveFirst(idleLRU, c)
      /\ UNCHANGED <<idleConnWait, closeIdle, hostVars, wantVars, call, dial,
                     closed, puts, closing>>
  BY DEF ReadLoopRemoveIdle, withoutLRU
<1>2. /\ idleLRU' \in Seq(Conns) /\ IsInjective(idleLRU')
      /\ ToSet(idleLRU') = ToSet(idleLRU) \ {c}
  BY <1>1, RemoveFirstFacts DEF PoolInv, TypeOK, IdleInv
<1>3. IdleShape(idleConn', idleLRU')
  BY <1>1, <1>2, PoolShape, WithoutIdleFacts
<1>4. /\ readLoop' \in [Conns -> Loops]
      /\ \A x \in Conns : readLoop'[x] = "none" <=> readLoop[x] = "none"
  BY <1>1 DEF PoolInv, TypeOK, Loops
<1>5. TypeOK'
  BY <1>1, <1>3, <1>4 DEF PoolInv, TypeOK, IdleShape
<1>6. KeyInv' /\ IdleInv'
  BY <1>1, <1>3 DEF PoolInv, KeyInv, RightHost, IdleInv, IdleShape
<1>7. \A x \in Conns : Born(x) => Born(x)'
  BY <1>1, <1>4 DEF Born
<1>8. OwnerInv'
  BY <1>1, <1>2, <1>7, OwnersShrink
<1>9. DialInv'
  BY <1>1, <1>4 DEF PoolInv, DialInv, Conns
<1>10. QED
  BY <1>5, <1>6, <1>8, <1>9 DEF PoolInv

\* An idle connection times out.
LEMMA CloseConnIfStillIdleInv ==
  ASSUME PoolInv, NEW c \in Conns, CloseConnIfStillIdle(c)
  PROVE  PoolInv'
<1> USE DEF wantVars
<1>1. /\ c \in ToSet(idleLRU)
      /\ closeLocked(c, dial)
      /\ idleConn' = withoutIdle(idleConn, c)
      /\ idleLRU' = RemoveFirst(idleLRU, c)
      /\ UNCHANGED <<idleConnWait, closeIdle, wantVars, call, readLoop, puts,
                     closing>>
  BY DEF CloseConnIfStillIdle, withoutLRU
<1>2. /\ idleLRU' \in Seq(Conns) /\ IsInjective(idleLRU')
      /\ ToSet(idleLRU') = ToSet(idleLRU) \ {c}
  BY <1>1, RemoveFirstFacts DEF PoolInv, TypeOK, IdleInv
<1>3. IdleShape(idleConn', idleLRU')
  BY <1>1, <1>2, PoolShape, WithoutIdleFacts
<1>4. readLoop[c] # "none" /\ readLoop \in [Conns -> Loops]
  BY <1>1 DEF PoolInv, TypeOK, OwnerInv, ParkedInv, Born
<1>5. /\ DialInv' /\ \A x \in Conns : Born(x) => Born(x)'
      /\ closed' \in [Conns -> BOOLEAN] /\ connsPerHost' \in [Keys -> Int]
      /\ connsPerHostWait' \in [Keys -> Seq(Wants)] /\ dial' \in [Wants -> Dialers]
  BY <1>1, <1>4, CloseStep
<1>6. TypeOK'
  BY <1>1, <1>3, <1>5 DEF PoolInv, TypeOK, IdleShape
<1>7. KeyInv' /\ IdleInv'
  BY <1>1, <1>3 DEF PoolInv, KeyInv, RightHost, IdleInv, IdleShape
<1>8. OwnerInv'
  BY <1>1, <1>2, <1>5, OwnersShrink
<1>9. QED
  BY <1>5, <1>6, <1>7, <1>8 DEF PoolInv

\* CloseIdleConnections moves the idle connections to the ones to be closed.
LEMMA CloseIdleConnectionsInv ==
  ASSUME PoolInv, CloseIdleConnections
  PROVE  PoolInv'
<1> USE DEF hostVars, wantVars
<1>1. /\ closing' = closing \cup UNION {ToSet(idleConn[k]) : k \in Keys}
      /\ idleConn' = [k \in Keys |-> <<>>]
      /\ idleLRU' = <<>>
      /\ closeIdle' = TRUE
      /\ UNCHANGED <<idleConnWait, hostVars, wantVars, call, dial, readLoop,
                     closed, puts>>
  BY DEF CloseIdleConnections
<1>2. <<>> \in Seq(Conns) /\ ToSet(<<>>) = {} /\ IsInjective(<<>>)
  BY EmptySeq DEF ToSet, IsInjective
<1>3. \A k \in Keys : ToSet(idleConn[k]) \subseteq ToSet(idleLRU)
  BY DEF PoolInv, IdleInv
<1>4. ToSet(idleLRU) \subseteq Conns
  BY ToSetType DEF PoolInv, TypeOK
<1>5. closing' \subseteq closing \cup ToSet(idleLRU) /\ closing' \subseteq Conns
  BY <1>1, <1>3, <1>4 DEF PoolInv, TypeOK
<1>6. TypeOK'
  BY <1>1, <1>2, <1>5 DEF PoolInv, TypeOK
<1>7. KeyInv' /\ IdleInv'
  BY <1>1, <1>2 DEF PoolInv, KeyInv, RightHost, IdleInv
<1>8. DialInv'
  BY <1>1 DEF PoolInv, DialInv
<1>9. \A x \in Conns : Born(x)' <=> Born(x)
  BY <1>1 DEF Born
<1>10. UserInv'
  <2>1. \A v \in Wants : \A c \in Conns : Uses(v, c)' <=> Uses(v, c)
    BY <1>1 DEF Uses
  <2>2. QED
    BY <1>1, <1>2, <1>5, <1>9, <2>1 DEF PoolInv, OwnerInv, UserInv
<1>11. PutInv'
  <2>1. \A p \in puts : p.pc \in Conns
    BY DEF PoolInv, TypeOK, PutCalls
  <2>2. QED
    BY <1>1, <1>2, <1>5, <1>9, <2>1 DEF PoolInv, OwnerInv, PutInv
<1>12. ParkedInv'
  BY <1>1, <1>2, <1>4, <1>5, <1>9 DEF PoolInv, TypeOK, OwnerInv, ParkedInv
<1>13. QED
  BY <1>6, <1>7, <1>8, <1>10, <1>11, <1>12 DEF PoolInv, OwnerInv

\* A failed dial gives its count back.
LEMMA DialDecInv ==
  ASSUME PoolInv, NEW w \in Wants, DialDec(w)
  PROVE  PoolInv'
<1> DEFINE d == [dial EXCEPT ![w] = "done"]
<1> USE DEF idleVars, wantVars
<1>1. /\ dial[w] = "dec" /\ decConnsPerHost(KeyOf[w], d)
      /\ UNCHANGED <<idleVars, wantVars, call, readLoop, closed, puts, closing>>
  BY DEF DialDec
<1>2. KeyOf[w] \in Keys
  BY PoolAssumption
<1>3. d \in [Wants -> Dialers] /\ \A v \in Wants : v # w => d[v] = dial[v]
  BY DEF PoolInv, TypeOK, Dialers
<1>4. d[w] = "done"
  BY DEF PoolInv, TypeOK
<1> HIDE DEF d
<1>5. \A j \in Keys : \A v \in ToSet(connsPerHostWait[j]) : d[v] = "none"
  <2> SUFFICES ASSUME NEW j \in Keys, NEW v \in ToSet(connsPerHostWait[j])
               PROVE  d[v] = "none"
    OBVIOUS
  <2>1. dial[v] = "none"
    BY DEF PoolInv, DialInv
  <2>2. v \in Wants
    BY ToSetType DEF PoolInv, TypeOK
  <2>3. QED
    BY <1>1, <1>3, <2>1, <2>2
<1>6. HostStep(d)
  BY <1>1, <1>2, <1>3, <1>5, DecConnsPerHostFacts DEF PoolInv
<1>7. \A v \in Wants : dial[v] # "done" \/ dial'[v] = "done"
  BY <1>3, <1>4, <1>6 DEF HostStep
<1>8. \A x \in Conns : Born(x) => Born(x)'
  BY <1>1, <1>7 DEF Born, Conns
<1>9. TypeOK'
  BY <1>1, <1>6 DEF PoolInv, TypeOK, HostStep
<1>10. OwnerInv'
  BY <1>1, <1>8, OwnersShrink
<1>11. KeyInv' /\ IdleInv'
  BY <1>1 DEF PoolInv, KeyInv, RightHost, IdleInv
<1>12. DialInv'
  <2>1. ASSUME NEW v \in Wants
        PROVE  /\ call'[v] \in {"start", "queueForDial"} => dial'[v] = "none"
               /\ call'[v] \in {"got", "using", "leaving"} => wpc'[v] # NoConn
               /\ dial'[v] = "dialed" => readLoop'[v] # "none"
               /\ dial'[v] \notin {"dialed", "done"} => readLoop'[v] = "none"
               /\ closed'[v] => readLoop'[v] # "none"
    <3>1. /\ call[v] \in {"start", "queueForDial"} => dial[v] = "none"
          /\ call[v] \in {"got", "using", "leaving"} => wpc[v] # NoConn
          /\ dial[v] = "dialed" => readLoop[v] # "none"
          /\ dial[v] \notin {"dialed", "done"} => readLoop[v] = "none"
          /\ closed[v] => readLoop[v] # "none"
      BY DEF PoolInv, DialInv
    <3>2. \/ dial'[v] = d[v]
          \/ /\ d[v] = "none" /\ dial'[v] = "spawned"
             /\ call[v] \notin {"start", "queueForDial"}
      BY <1>6 DEF HostStep
    <3>3. QED
      BY <1>1, <1>3, <1>4, <3>1, <3>2
  <2>2. \A k \in Keys :
          /\ ToSet(connsPerHostWait'[k]) \subseteq ToSet(connsPerHostWait[k])
          /\ IsInjective(connsPerHostWait'[k])
          /\ \A v \in ToSet(connsPerHostWait'[k]) : dial'[v] = "none"
    BY <1>6 DEF HostStep
  <2>3. \A k \in Keys : \A v \in ToSet(connsPerHostWait'[k]) :
          KeyOf[v] = k /\ call'[v] \notin {"start", "queueForDial"}
    BY <1>1, <2>2 DEF PoolInv, DialInv
  <2>4. QED
    BY <2>1, <2>2, <2>3 DEF DialInv
<1>13. QED
  BY <1>9, <1>10, <1>11, <1>12 DEF PoolInv

(***************************************************************************)
(* tryPutIdleConn with idleMu held.                                        *)
(***************************************************************************)

\* The connection goes from the tryPutIdleConn call to a waiting want.
LEMMA TryPutDeliverInv ==
  ASSUME PoolInv, NEW p \in puts, TryPutDeliver(p)
  PROVE  PoolInv'
<1> DEFINE k == KeyOf[p.pc]
           q == idleConnWait[k]
           v == q[firstWaiting(q)]
<1> USE DEF hostVars
<1>1. p.pc \in Conns /\ Born(p.pc) /\ p.pc \notin ToSet(idleLRU) /\ p.pc \notin closing
  BY DEF PoolInv, TypeOK, PutCalls, OwnerInv, PutInv
<1>2. k \in Keys
  BY <1>1, PoolAssumption DEF Conns
<1>3. q \in Seq(Wants)
  BY <1>2 DEF PoolInv, TypeOK
<1>4. /\ firstWaiting(q) # 0
      /\ wpc' = [wpc EXCEPT ![v] = p.pc]
      /\ idleConnWait' = [idleConnWait EXCEPT ![k] = popWaiting(q)]
      /\ puts' = puts \ {p}
      /\ UNCHANGED <<idleConn, idleLRU, closeIdle, hostVars, werr, call, dial,
                     readLoop, closed, closing>>
  BY DEF TryPutDeliver
<1>5. v \in Wants /\ v \in ToSet(q) /\ waiting(v)
  BY <1>3, <1>4, QueueFacts
<1>6. popWaiting(q) \in Seq(Wants) /\ ToSet(popWaiting(q)) \subseteq ToSet(q)
  BY <1>3, QueueFacts
<1>7. KeyOf[v] = k
  BY <1>2, <1>5 DEF PoolInv, KeyInv
<1> HIDE DEF v, q
<1>8. TypeOK'
  BY <1>1, <1>2, <1>4, <1>5, <1>6 DEF PoolInv, TypeOK
<1>9. KeyInv'
  <2>1. RightHost'
    BY <1>4, <1>5, <1>7 DEF PoolInv, KeyInv, RightHost, TypeOK
  <2>2. \A j \in Keys : idleConnWait'[j] = IF j = k THEN popWaiting(q)
                                           ELSE idleConnWait[j]
    BY <1>4 DEF PoolInv, TypeOK
  <2>3. \A j \in Keys : ToSet(idleConnWait'[j]) \subseteq ToSet(idleConnWait[j])
    BY <1>6, <2>2 DEF q
  <2>4. QED
    BY <1>4, <2>1, <2>3 DEF PoolInv, KeyInv
<1>10. IdleInv' /\ DialInv'
  <2>1. \A w \in Wants : wpc[w] # NoConn => wpc'[w] # NoConn
    BY <1>1, <1>4, PoolAssumption DEF PoolInv, TypeOK, Conns
  <2>2. QED
    BY <1>4, <2>1 DEF PoolInv, IdleInv, DialInv
<1>11. \A x \in Conns : Born(x)' <=> Born(x)
  BY <1>4 DEF Born
<1>12. UserInv'
  <2>1. \A w \in Wants : \A c \in Conns :
          Uses(w, c)' => Uses(w, c) \/ (w = v /\ c = p.pc)
    BY <1>4, <1>5 DEF Uses, PoolInv, TypeOK
  <2>2. \A w \in Wants : ~Uses(w, p.pc)
    BY <1>1 DEF PoolInv, OwnerInv, UserInv
  <2>3. \A r \in puts' : r \in puts /\ r.pc # p.pc
    BY <1>4 DEF PoolInv, OwnerInv, PutInv
  <2>4. QED
    BY <1>1, <1>4, <1>11, <2>1, <2>2, <2>3 DEF PoolInv, OwnerInv, UserInv
<1>13. PutInv'
  <2>1. \A r \in puts : r.pc \in Conns
    BY DEF PoolInv, TypeOK, PutCalls
  <2>2. QED
    BY <1>4, <1>11, <2>1 DEF PoolInv, OwnerInv, PutInv
<1>14. ParkedInv'
  BY <1>4, <1>11 DEF PoolInv, TypeOK, OwnerInv, ParkedInv
<1>15. QED
  BY <1>8, <1>9, <1>10, <1>12, <1>13, <1>14 DEF PoolInv, OwnerInv

\* The pool refuses the connection; its waiting queue has nobody left.
LEMMA TryPutRejectInv ==
  ASSUME PoolInv, NEW p \in puts, TryPutReject(p)
  PROVE  PoolInv'
<1> DEFINE k == KeyOf[p.pc]
<1> USE DEF hostVars, wantVars
<1>1. /\ idleConnWait' = [idleConnWait EXCEPT ![k] = <<>>]
      /\ puts' = moveTo(p, "close")
      /\ UNCHANGED <<idleConn, idleLRU, closeIdle, hostVars, wantVars, call,
                     dial, readLoop, closed, closing>>
  BY DEF TryPutReject
<1>2. <<>> \in Seq(Wants) /\ ToSet(<<>>) = {}
  BY EmptySeq DEF ToSet
<1>3. /\ puts' \subseteq PutCalls
      /\ \A r \in puts' : \E s \in puts : r.pc = s.pc
      /\ (\A r, s \in puts : r.pc = s.pc => r = s)
           => \A r, s \in puts' : r.pc = s.pc => r = s
  <2>1. "close" \in PutSteps /\ puts \subseteq PutCalls
    BY DEF PutSteps, PoolInv, TypeOK
  <2>2. QED
    BY <1>1, <2>1, MoveToFacts
<1>4. idleConnWait' \in [Keys -> Seq(Wants)]
      /\ \A j \in Keys : idleConnWait'[j] = idleConnWait[j] \/ idleConnWait'[j] = <<>>
  BY <1>1, <1>2 DEF PoolInv, TypeOK
<1>5. TypeOK'
  BY <1>1, <1>3, <1>4 DEF PoolInv, TypeOK
<1>6. KeyInv' /\ IdleInv' /\ DialInv'
  <2>1. \A j \in Keys : ToSet(idleConnWait'[j]) \subseteq ToSet(idleConnWait[j])
    BY <1>2, <1>4
  <2>2. QED
    BY <1>1, <2>1 DEF PoolInv, KeyInv, RightHost, IdleInv, DialInv
<1>7. UserInv'
  BY <1>1, <1>3 DEF PoolInv, OwnerInv, UserInv, Uses, Born
<1>8. PutInv'
  BY <1>1, <1>3 DEF PoolInv, OwnerInv, PutInv, Born
<1>9. ParkedInv'
  BY <1>1 DEF PoolInv, OwnerInv, ParkedInv, Born
<1>10. QED
  BY <1>5, <1>6, <1>7, <1>8, <1>9 DEF PoolInv, OwnerInv

\* The connection goes idle, and the oldest idle one may be evicted.
LEMMA TryPutStoreInv ==
  ASSUME PoolInv, NEW p \in puts, TryPutStore(p)
  PROVE  PoolInv'
<1> DEFINE k   == KeyOf[p.pc]
           ic  == [idleConn EXCEPT ![k] = Append(@, p.pc)]
           lru == Append(idleLRU, p.pc)
<1> USE DEF wantVars
<1>1. /\ p.pc \in Conns /\ Born(p.pc) /\ p.pc \notin ToSet(idleLRU)
      /\ p.pc \notin closing
  BY DEF PoolInv, TypeOK, PutCalls, OwnerInv, PutInv
<1>2. k \in Keys
  BY <1>1, PoolAssumption, SMTT(60) DEF Conns
<1>3. /\ idleConnWait' = [idleConnWait EXCEPT ![k] = <<>>]
      /\ IF tooManyIdle(lru)
         THEN /\ idleConn' = withoutIdle(ic, Head(lru))
              /\ idleLRU' = Tail(lru)
              /\ closeLocked(Head(lru), dial)
         ELSE /\ idleConn' = ic
              /\ idleLRU' = lru
              /\ UNCHANGED <<closed, hostVars, dial>>
      /\ puts' = puts \ {p}
      /\ UNCHANGED <<closeIdle, wantVars, call, readLoop, closing>>
  BY DEF TryPutStore
<1>4. /\ lru \in Seq(Conns) /\ IsInjective(lru) /\ Len(lru) = Len(idleLRU) + 1
      /\ ToSet(lru) = ToSet(idleLRU) \cup {p.pc}
  BY <1>1, AppendFacts DEF PoolInv, TypeOK, IdleInv
<1>5. IdleShape(ic, lru)
  <2>1. /\ idleConn[k] \in Seq(Conns) /\ IsInjective(idleConn[k])
        /\ p.pc \notin ToSet(idleConn[k])
    BY <1>1, <1>2 DEF PoolInv, TypeOK, IdleInv
  <2>2. /\ Append(idleConn[k], p.pc) \in Seq(Conns)
        /\ IsInjective(Append(idleConn[k], p.pc))
        /\ ToSet(Append(idleConn[k], p.pc)) = ToSet(idleConn[k]) \cup {p.pc}
    BY <1>1, <2>1, AppendFacts
  <2>3. /\ ic \in [Keys -> Seq(Conns)]
        /\ \A j \in Keys : ic[j] = IF j = k THEN Append(idleConn[k], p.pc)
                                   ELSE idleConn[j]
    BY <1>2, <2>2 DEF PoolInv, TypeOK
  <2> HIDE DEF ic, lru
  <2>4. ASSUME NEW j \in Keys
        PROVE  /\ IsInjective(ic[j])
               /\ ToSet(ic[j]) \subseteq ToSet(lru)
               /\ \A c \in ToSet(ic[j]) : KeyOf[c] = j
    <3>1. /\ IsInjective(idleConn[j])
          /\ ToSet(idleConn[j]) \subseteq ToSet(idleLRU)
          /\ \A c \in ToSet(idleConn[j]) : KeyOf[c] = j
      BY DEF PoolInv, IdleInv, KeyInv
    <3>2. QED
      BY <1>4, <2>2, <2>3, <3>1, ZenonT(60)
  <2>5. QED
    BY <1>4, <2>3, <2>4 DEF IdleShape
<1>6. <<>> \in Seq(Wants) /\ ToSet(<<>>) = {}
  BY EmptySeq DEF ToSet
<1> HIDE DEF ic, lru
<1>7. /\ IdleShape(idleConn', idleLRU')
      /\ ToSet(idleLRU') \subseteq ToSet(idleLRU) \cup {p.pc}
      /\ DialInv' /\ \A x \in Conns : Born(x) => Born(x)'
      /\ closed' \in [Conns -> BOOLEAN] /\ connsPerHost' \in [Keys -> Int]
      /\ connsPerHostWait' \in [Keys -> Seq(Wants)] /\ dial' \in [Wants -> Dialers]
  <2>1. CASE tooManyIdle(lru)
    <3> DEFINE h == Head(lru)
    <3>1. /\ idleConn' = withoutIdle(ic, h) /\ idleLRU' = Tail(lru)
          /\ closeLocked(h, dial)
      BY <1>3, <2>1
    <3>2. Len(lru) > 0
      BY <1>4, LenProperties DEF PoolInv, TypeOK
    <3>3. /\ h \in ToSet(lru) /\ Tail(lru) \in Seq(Conns) /\ IsInjective(Tail(lru))
          /\ ToSet(lru) = ToSet(Tail(lru)) \cup {h} /\ h \notin ToSet(Tail(lru))
      BY <1>4, <3>2, TailFacts
    <3>4. h \in Conns /\ Born(h)
      BY <1>1, <1>4, <3>3, ToSetType DEF PoolInv, OwnerInv, ParkedInv
    <3> HIDE DEF h
    <3>5. IdleShape(idleConn', idleLRU')
      <4>1. ToSet(Tail(lru)) = ToSet(lru) \ {h}
        BY <3>3
      <4>2. QED
        BY <1>5, <3>1, <3>3, <3>4, <4>1, WithoutIdleFacts
    <3>6. readLoop[h] # "none" /\ readLoop \in [Conns -> Loops]
      BY <3>4 DEF PoolInv, TypeOK, Born
    <3>7. /\ DialInv' /\ \A x \in Conns : Born(x) => Born(x)'
          /\ closed' \in [Conns -> BOOLEAN] /\ connsPerHost' \in [Keys -> Int]
          /\ connsPerHostWait' \in [Keys -> Seq(Wants)]
          /\ dial' \in [Wants -> Dialers]
      BY <1>3, <3>1, <3>4, <3>6, CloseStep
    <3>8. QED
      BY <1>4, <3>1, <3>3, <3>5, <3>7
  <2>2. CASE ~tooManyIdle(lru)
    <3>1. /\ idleConn' = ic /\ idleLRU' = lru
          /\ UNCHANGED <<closed, hostVars, dial>>
      BY <1>3, <2>2
    <3>2. DialInv'
      BY <1>3, <3>1 DEF PoolInv, DialInv, hostVars
    <3>3. \A x \in Conns : Born(x) => Born(x)'
      BY <1>3, <3>1 DEF Born
    <3>4. QED
      BY <1>4, <1>5, <3>1, <3>2, <3>3 DEF PoolInv, TypeOK, hostVars
  <2>3. QED
    BY <2>1, <2>2
<1>8. idleConnWait' \in [Keys -> Seq(Wants)]
      /\ \A j \in Keys : idleConnWait'[j] = idleConnWait[j] \/ idleConnWait'[j] = <<>>
  BY <1>3, <1>6 DEF PoolInv, TypeOK
<1>9. TypeOK'
  BY <1>3, <1>7, <1>8 DEF PoolInv, TypeOK, IdleShape
<1>10. KeyInv' /\ IdleInv'
  <2>1. \A j \in Keys : ToSet(idleConnWait'[j]) \subseteq ToSet(idleConnWait[j])
    BY <1>6, <1>8
  <2>2. QED
    BY <1>3, <1>7, <2>1 DEF PoolInv, KeyInv, RightHost, IdleInv, IdleShape
<1>11. UserInv'
  <2>1. \A w \in Wants : \A c \in Conns : Uses(w, c)' <=> Uses(w, c)
    BY <1>3 DEF Uses
  <2>2. \A w \in Wants : ~Uses(w, p.pc)
    BY <1>1 DEF PoolInv, OwnerInv, UserInv
  <2>3. QED
    BY <1>3, <1>7, <2>1, <2>2 DEF PoolInv, OwnerInv, UserInv
<1>12. PutInv'
  <2>1. \A r \in puts' : r \in puts /\ r.pc \in Conns /\ r.pc # p.pc
    BY <1>3 DEF PoolInv, TypeOK, PutCalls, OwnerInv, PutInv
  <2>2. QED
    BY <1>3, <1>7, <2>1 DEF PoolInv, OwnerInv, PutInv
<1>13. ParkedInv'
  BY <1>1, <1>3, <1>7 DEF PoolInv, TypeOK, OwnerInv, ParkedInv
<1>14. QED
  BY <1>7, <1>9, <1>10, <1>11, <1>12, <1>13 DEF PoolInv, OwnerInv

(***************************************************************************)
(* The steps of getConn that search, and join the queues.                  *)
(***************************************************************************)

\* queueForIdleConn takes a connection out of the pool for w.
LEMMA QueueForIdleConnDeliverInv ==
  ASSUME PoolInv, NEW w \in Wants, QueueForIdleConnDeliver(w)
  PROVE  PoolInv'
<1> DEFINE k == KeyOf[w]
           list == idleConn[k]
<1> USE DEF hostVars
<1>1. k \in Keys /\ list \in Seq(Conns) /\ IsInjective(list)
      /\ ToSet(list) \subseteq ToSet(idleLRU)
      /\ \A c \in ToSet(list) : KeyOf[c] = k
  BY PoolAssumption DEF PoolInv, TypeOK, IdleInv, KeyInv
<1>2. Len(list) \in Nat /\ DOMAIN list = 1 .. Len(list)
  BY <1>1, LenProperties
<1>3. PICK old \in ages(list) :
        LET i == Max(usable(list, old))
        IN  /\ usable(list, old) # {}
            /\ wpc' = [wpc EXCEPT ![w] = list[i]]
            /\ idleLRU' = withoutLRU(idleLRU, list[i])
            /\ idleConn' = [idleConn EXCEPT ![k] = SubSeq(list, 1, i - 1)]
  BY DEF QueueForIdleConnDeliver
<1> DEFINE i == Max(usable(list, old))
           c == list[i]
<1>4. i \in 1 .. Len(list)
  <2>1. old \in Nat
    BY <1>2 DEF ages
  <2>2. usable(list, old) \subseteq 1 .. Len(list)
    BY <1>2, <2>1 DEF usable
  <2>3. usable(list, old) \subseteq 0 .. Len(list)
    BY <1>2, <2>2
  <2>4. i \in usable(list, old)
    BY <1>2, <1>3, <2>3, MaxOfNats
  <2>5. QED
    BY <2>2, <2>4
<1>5. /\ wpc' = [wpc EXCEPT ![w] = c]
      /\ idleLRU' = RemoveFirst(idleLRU, c)
      /\ idleConn' = [idleConn EXCEPT ![k] = SubSeq(list, 1, i - 1)]
  BY <1>3 DEF withoutLRU
<1>6. /\ call[w] = "start"
      /\ closeIdle' = FALSE
      /\ call' = [call EXCEPT ![w] = "got"]
      /\ UNCHANGED <<idleConnWait, hostVars, werr, dial, readLoop, closed,
                     puts, closing>>
  BY DEF QueueForIdleConnDeliver
<1> HIDE DEF i
<1>7. /\ c \in ToSet(list) /\ c \in Conns /\ c \in ToSet(idleLRU)
      /\ KeyOf[c] = k /\ Born(c) /\ c \notin closing
  <2>1. c \in ToSet(list)
    BY <1>2, <1>4 DEF ToSet
  <2>2. c \in Conns
    BY <1>1, <2>1, ToSetType
  <2>3. QED
    BY <1>1, <2>1, <2>2 DEF PoolInv, OwnerInv, ParkedInv
<1>8. /\ idleLRU' \in Seq(Conns) /\ IsInjective(idleLRU')
      /\ ToSet(idleLRU') = ToSet(idleLRU) \ {c}
  BY <1>5, RemoveFirstFacts, SMTT(60) DEF PoolInv, TypeOK, IdleInv
<1>9. /\ SubSeq(list, 1, i - 1) \in Seq(Conns)
      /\ IsInjective(SubSeq(list, 1, i - 1))
      /\ ToSet(SubSeq(list, 1, i - 1)) \subseteq ToSet(list)
      /\ c \notin ToSet(SubSeq(list, 1, i - 1))
  <2>1. i - 1 \in Int /\ i - 1 <= Len(list) /\ 1 \in Int /\ 1 <= 1
    BY <1>2, <1>4
  <2>2. /\ SubSeq(list, 1, i - 1) \in Seq(Conns)
        /\ IsInjective(SubSeq(list, 1, i - 1))
        /\ ToSet(SubSeq(list, 1, i - 1)) \subseteq ToSet(list)
        /\ ToSet(SubSeq(list, 1, i - 1)) = {list[j] : j \in 1 .. i - 1}
    BY <1>1, <2>1, SubSeqFacts
  <2>3. \A j \in 1 .. i - 1 : list[j] # c
    BY <1>1, <1>2, <1>4 DEF IsInjective
  <2>4. QED
    BY <2>2, <2>3
<1>10. IdleShape(idleConn', idleLRU')
  <2>1. /\ idleConn' \in [Keys -> Seq(Conns)]
        /\ \A j \in Keys : idleConn'[j] = IF j = k THEN SubSeq(list, 1, i - 1)
                                          ELSE idleConn[j]
    BY <1>1, <1>5, <1>9 DEF PoolInv, TypeOK
  <2>2. ASSUME NEW j \in Keys
        PROVE  /\ IsInjective(idleConn'[j])
               /\ ToSet(idleConn'[j]) \subseteq ToSet(idleLRU')
               /\ \A x \in ToSet(idleConn'[j]) : KeyOf[x] = j
    <3>1. CASE j = k
      BY <1>1, <1>8, <1>9, <2>1, <3>1
    <3>2. CASE j # k
      <4>1. /\ IsInjective(idleConn[j]) /\ ToSet(idleConn[j]) \subseteq ToSet(idleLRU)
            /\ \A x \in ToSet(idleConn[j]) : KeyOf[x] = j
        BY DEF PoolInv, IdleInv, KeyInv
      <4>2. c \notin ToSet(idleConn[j])
        BY <1>7, <3>2, <4>1
      <4>3. QED
        BY <1>8, <2>1, <3>2, <4>1, <4>2
    <3>3. QED
      BY <3>1, <3>2
  <2>3. QED
    BY <1>8, <2>1, <2>2 DEF IdleShape
<1> HIDE DEF c
<1>11. TypeOK'
  BY <1>5, <1>6, <1>7, <1>10 DEF PoolInv, TypeOK, IdleShape, Callers
<1>12. KeyInv' /\ IdleInv'
  BY <1>5, <1>6, <1>7, <1>10 DEF PoolInv, TypeOK, KeyInv, RightHost, IdleInv, IdleShape
<1>13. DialInv'
  <2>1. ASSUME NEW v \in Wants
        PROVE  /\ call'[v] \in {"start", "queueForDial"}
                    => call[v] \in {"start", "queueForDial"}
               /\ call'[v] \in {"got", "using", "leaving"} => wpc'[v] # NoConn
    BY <1>5, <1>6, <1>7, PoolAssumption DEF PoolInv, TypeOK, DialInv, Conns
  <2>2. QED
    BY <1>6, <2>1 DEF PoolInv, DialInv
<1>14. \A x \in Conns : Born(x)' <=> Born(x)
  BY <1>6 DEF Born
<1>15. UserInv'
  <2>1. \A v \in Wants : \A x \in Conns :
          Uses(v, x)' => Uses(v, x) \/ (v = w /\ x = c)
    BY <1>5, <1>6 DEF Uses, PoolInv, TypeOK
  <2>2. \A v \in Wants : ~Uses(v, c)
    BY <1>7 DEF PoolInv, OwnerInv, UserInv
  <2>3. \A r \in puts : r.pc # c
    BY <1>7 DEF PoolInv, OwnerInv, PutInv
  <2>4. \A v \in Wants : \A x \in Conns : wpc'[v] = x => wpc[v] = x \/ x = c
    BY <1>5 DEF PoolInv, TypeOK
  <2>5. \A v \in Wants : \A x \in Conns : wpc'[v] = x => Born(x)'
    BY <1>7, <1>14, <2>4 DEF PoolInv, OwnerInv, UserInv
  <2>6. QED
    BY <1>6, <1>7, <1>8, <1>14, <2>1, <2>2, <2>3, <2>5 DEF PoolInv, OwnerInv, UserInv
<1>16. PutInv'
  <2>1. \A r \in puts : r.pc \in Conns
    BY DEF PoolInv, TypeOK, PutCalls
  <2>2. QED
    BY <1>6, <1>8, <1>14, <2>1 DEF PoolInv, OwnerInv, PutInv
<1>17. ParkedInv'
  BY <1>6, <1>8, <1>14 DEF PoolInv, TypeOK, OwnerInv, ParkedInv
<1>18. QED
  BY <1>11, <1>12, <1>13, <1>15, <1>16, <1>17 DEF PoolInv, OwnerInv

\* queueForIdleConn finds nothing: w joins idleConnWait.
LEMMA QueueForIdleConnWaitInv ==
  ASSUME PoolInv, NEW w \in Wants, QueueForIdleConnWait(w)
  PROVE  PoolInv'
<1> DEFINE k == KeyOf[w]
           q == cleanFront(idleConnWait[k])
<1> USE DEF hostVars, wantVars
<1>1. k \in Keys
  BY PoolAssumption
<1>2. /\ call[w] = "start"
      /\ idleConn' = [idleConn EXCEPT ![k] = <<>>]
      /\ idleConnWait' = [idleConnWait EXCEPT ![k] = Append(q, w)]
      /\ closeIdle' = FALSE
      /\ call' = [call EXCEPT ![w] = "queueForDial"]
      /\ UNCHANGED <<idleLRU, hostVars, wantVars, dial, readLoop, closed,
                     puts, closing>>
  BY DEF QueueForIdleConnWait
<1>3. idleConnWait[k] \in Seq(Wants)
  BY <1>1 DEF PoolInv, TypeOK
<1>4. q \in Seq(Wants) /\ ToSet(q) \subseteq ToSet(idleConnWait[k])
  BY <1>3, QueueFacts
<1>5. Append(q, w) \in Seq(Wants) /\ ToSet(Append(q, w)) = ToSet(q) \cup {w}
  BY <1>4, AppendFacts
<1>6. <<>> \in Seq(Conns) /\ ToSet(<<>>) = {} /\ IsInjective(<<>>)
  BY EmptySeq DEF ToSet, IsInjective
<1> HIDE DEF q
<1>7. /\ idleConn' \in [Keys -> Seq(Conns)]
      /\ \A j \in Keys : idleConn'[j] = idleConn[j] \/ idleConn'[j] = <<>>
  BY <1>2, <1>6 DEF PoolInv, TypeOK
<1>8. /\ idleConnWait' \in [Keys -> Seq(Wants)]
      /\ \A j \in Keys : idleConnWait'[j] = IF j = k THEN Append(q, w)
                                            ELSE idleConnWait[j]
  BY <1>1, <1>2, <1>5 DEF PoolInv, TypeOK
<1>9. TypeOK'
  BY <1>2, <1>7, <1>8 DEF PoolInv, TypeOK, Callers
<1>10. KeyInv'
  <2>1. \A j \in Keys : \A v \in ToSet(idleConnWait'[j]) : KeyOf[v] = j
    BY <1>1, <1>4, <1>5, <1>8 DEF PoolInv, KeyInv
  <2>2. \A j \in Keys : \A c \in ToSet(idleConn'[j]) : KeyOf[c] = j
    BY <1>6, <1>7 DEF PoolInv, KeyInv
  <2>3. QED
    BY <1>2, <2>1, <2>2 DEF PoolInv, KeyInv, RightHost
<1>11. IdleInv'
  BY <1>2, <1>6, <1>7 DEF PoolInv, IdleInv
<1>12. DialInv'
  <2>1. ASSUME NEW v \in Wants
        PROVE  /\ call'[v] \in {"start", "queueForDial"}
                    <=> call[v] \in {"start", "queueForDial"}
               /\ call'[v] \in {"got", "using", "leaving"}
                    => call[v] \in {"got", "using", "leaving"}
    BY <1>2 DEF PoolInv, TypeOK
  <2>2. \A j \in Keys : \A v \in ToSet(connsPerHostWait[j]) : v \in Wants
    BY ToSetType DEF PoolInv, TypeOK
  <2>3. QED
    BY <1>2, <2>1, <2>2 DEF PoolInv, DialInv
<1>13. \A v \in Wants : \A x \in Conns : Uses(v, x)' <=> Uses(v, x)
  BY <1>2 DEF PoolInv, TypeOK, Uses
<1>14. \A x \in Conns : Born(x)' <=> Born(x)
  BY <1>2 DEF Born
<1>15. UserInv'
  BY <1>2, <1>13, <1>14 DEF PoolInv, OwnerInv, UserInv
<1>16. PutInv'
  <2>1. \A r \in puts : r.pc \in Conns
    BY DEF PoolInv, TypeOK, PutCalls
  <2>2. QED
    BY <1>2, <1>14, <2>1 DEF PoolInv, OwnerInv, PutInv
<1>17. ParkedInv'
  BY <1>2, <1>14 DEF PoolInv, TypeOK, OwnerInv, ParkedInv
<1>18. QED
  BY <1>9, <1>10, <1>11, <1>12, <1>15, <1>16, <1>17 DEF PoolInv, OwnerInv

\* queueForDial starts w's only dialConnFor, or queues w.
LEMMA QueueForDialInv ==
  ASSUME PoolInv, NEW w \in Wants, QueueForDial(w)
  PROVE  PoolInv'
<1> DEFINE k == KeyOf[w]
           q == cleanFront(connsPerHostWait[k])
<1> USE DEF idleVars, wantVars
<1>1. k \in Keys
  BY PoolAssumption
<1>2. /\ call[w] = "queueForDial" /\ dial[w] = "none" /\ readLoop[w] = "none"
      /\ call' = [call EXCEPT ![w] = "select"]
      /\ UNCHANGED <<idleVars, wantVars, readLoop, closed, puts, closing>>
  BY DEF QueueForDial, PoolInv, DialInv
<1>3. connsPerHostWait[k] \in Seq(Wants) /\ IsInjective(connsPerHostWait[k])
  BY <1>1 DEF PoolInv, TypeOK, DialInv
<1>4. /\ q \in Seq(Wants) /\ IsInjective(q)
      /\ ToSet(q) \subseteq ToSet(connsPerHostWait[k])
  BY <1>3, QueueFacts
<1>5. \A j \in Keys : w \notin ToSet(connsPerHostWait[j])
  BY <1>2 DEF PoolInv, DialInv
<1>6. /\ Append(q, w) \in Seq(Wants) /\ IsInjective(Append(q, w))
      /\ ToSet(Append(q, w)) = ToSet(q) \cup {w}
  BY <1>1, <1>4, <1>5, AppendFacts
<1> HIDE DEF q
<1>7. \/ /\ dial' = [dial EXCEPT ![w] = "spawned"]
         /\ connsPerHost' \in [Keys -> Int]
         /\ UNCHANGED connsPerHostWait
      \/ /\ connsPerHostWait' = [connsPerHostWait EXCEPT ![k] = Append(q, w)]
         /\ UNCHANGED <<connsPerHost, dial>>
  BY <1>1, SMTT(60) DEF QueueForDial, hostVars, PoolInv, TypeOK, q
<1>8. /\ connsPerHost' \in [Keys -> Int]
      /\ dial' \in [Wants -> Dialers]
      /\ connsPerHostWait' \in [Keys -> Seq(Wants)]
      /\ dial'[w] \in {"none", "spawned"}
      /\ \A v \in Wants : v # w => dial'[v] = dial[v]
  BY <1>1, <1>2, <1>6, <1>7, ZenonT(60) DEF PoolInv, TypeOK, Dialers
<1>9. TypeOK'
  BY <1>2, <1>8 DEF PoolInv, TypeOK, Callers
<1>10. KeyInv' /\ IdleInv'
  BY <1>2 DEF PoolInv, KeyInv, RightHost, IdleInv
<1>11. \A x \in Conns : Born(x) => Born(x)'
  BY <1>2, <1>8 DEF Born, Conns
<1>12. \A v \in Wants : \A x \in Conns : Uses(v, x)' <=> Uses(v, x)
  BY <1>2 DEF PoolInv, TypeOK, Uses
<1>13. UserInv'
  BY <1>2, <1>11, <1>12 DEF PoolInv, OwnerInv, UserInv
<1>14. PutInv'
  <2>1. \A r \in puts : r.pc \in Conns
    BY DEF PoolInv, TypeOK, PutCalls
  <2>2. QED
    BY <1>2, <1>11, <2>1 DEF PoolInv, OwnerInv, PutInv
<1>15. ParkedInv'
  BY <1>2, <1>11 DEF PoolInv, TypeOK, OwnerInv, ParkedInv
<1>16. DialInv'
  <2>1. ASSUME NEW v \in Wants
        PROVE  /\ call'[v] \in {"start", "queueForDial"} => dial'[v] = "none"
               /\ call'[v] \in {"got", "using", "leaving"} => wpc'[v] # NoConn
               /\ dial'[v] = "dialed" => readLoop'[v] # "none"
               /\ dial'[v] \notin {"dialed", "done"} => readLoop'[v] = "none"
               /\ closed'[v] => readLoop'[v] # "none"
    <3>1. /\ call[v] \in {"start", "queueForDial"} => dial[v] = "none"
          /\ call[v] \in {"got", "using", "leaving"} => wpc[v] # NoConn
          /\ dial[v] = "dialed" => readLoop[v] # "none"
          /\ dial[v] \notin {"dialed", "done"} => readLoop[v] = "none"
          /\ closed[v] => readLoop[v] # "none"
      BY DEF PoolInv, DialInv
    <3>2. IF v = w THEN call'[v] = "select" ELSE call'[v] = call[v]
      BY <1>2 DEF PoolInv, TypeOK
    <3>3. QED
      BY <1>2, <1>8, <3>1, <3>2
  <2>2. ASSUME NEW j \in Keys
        PROVE  /\ IsInjective(connsPerHostWait'[j])
               /\ \A v \in ToSet(connsPerHostWait'[j]) :
                    /\ KeyOf[v] = j
                    /\ dial'[v] = "none"
                    /\ call'[v] \notin {"start", "queueForDial"}
    <3>1. /\ IsInjective(connsPerHostWait[j])
          /\ \A v \in ToSet(connsPerHostWait[j]) :
               /\ v \in Wants /\ v # w
               /\ KeyOf[v] = j
               /\ dial[v] = "none"
               /\ call[v] \notin {"start", "queueForDial"}
      BY <1>5, ToSetType DEF PoolInv, TypeOK, DialInv
    <3>2. /\ call'[w] = "select"
          /\ \A v \in Wants : v # w => call'[v] = call[v]
      BY <1>2 DEF PoolInv, TypeOK
    <3>3. CASE connsPerHostWait'[j] = connsPerHostWait[j]
      BY <1>8, <3>1, <3>2, <3>3
    <3>4. CASE connsPerHostWait'[j] # connsPerHostWait[j]
      <4>1. j = k /\ connsPerHostWait'[j] = Append(q, w) /\ dial' = dial
        BY <1>1, <1>7, <3>4 DEF PoolInv, TypeOK
      <4>2. QED
        BY <1>2, <1>4, <1>6, <3>1, <3>2, <4>1
    <3>5. QED
      BY <3>3, <3>4
  <2>3. QED
    BY <2>1, <2>2 DEF DialInv
<1>17. QED
  BY <1>9, <1>10, <1>13, <1>14, <1>15, <1>16 DEF PoolInv, OwnerInv

(***************************************************************************)
(* The invariant and what follows from it.                                 *)
(***************************************************************************)

\* PoolInv holds of a new Transport.
LEMMA InitInv == Init => PoolInv
<1> SUFFICES ASSUME Init PROVE PoolInv
  OBVIOUS
<1>1. /\ <<>> \in Seq(Conns) /\ <<>> \in Seq(Wants)
      /\ ToSet(<<>>) = {} /\ IsInjective(<<>>)
  BY EmptySeq DEF ToSet, IsInjective
<1>2. TypeOK
  <2>1. /\ idleConn \in [Keys -> Seq(Conns)] /\ idleLRU \in Seq(Conns)
        /\ idleConnWait \in [Keys -> Seq(Wants)]
        /\ connsPerHostWait \in [Keys -> Seq(Wants)]
    BY <1>1 DEF Init
  <2>2. /\ wpc \in [Wants -> Conns \cup {NoConn}]
        /\ werr \in [Wants -> BOOLEAN]
        /\ closed \in [Conns -> BOOLEAN]
        /\ connsPerHost \in [Keys -> Int]
    BY DEF Init
  <2>3. /\ call \in [Wants -> Callers]
        /\ dial \in [Wants -> Dialers]
        /\ readLoop \in [Conns -> Loops]
    BY DEF Init, Callers, Dialers, Loops
  <2>4. closeIdle \in BOOLEAN /\ puts \subseteq PutCalls /\ closing \subseteq Conns
    BY DEF Init
  <2>5. QED
    BY <2>1, <2>2, <2>3, <2>4 DEF TypeOK
<1>3. KeyInv /\ IdleInv
  BY <1>1 DEF Init, KeyInv, RightHost, IdleInv
<1>4. OwnerInv
  <2>1. \A w \in Wants, c \in Conns : wpc[w] # c /\ ~Uses(w, c)
    BY PoolAssumption DEF Init, Uses, Conns
  <2>2. QED
    BY <1>1, <2>1 DEF Init, OwnerInv, UserInv, PutInv, ParkedInv
<1>5. DialInv
  BY <1>1 DEF Init, DialInv, Conns
<1>6. QED
  BY <1>2, <1>3, <1>4, <1>5 DEF PoolInv

\* Every step of every goroutine keeps PoolInv.
LEMMA NextInv == PoolInv /\ [Next]_vars => PoolInv'
<1> SUFFICES ASSUME PoolInv, [Next]_vars PROVE PoolInv'
  OBVIOUS
<1>1. ASSUME NEW w \in Wants, GetConn(w) PROVE PoolInv'
  BY <1>1, QueueForIdleConnDisabledInv, QueueForIdleConnDeliverInv,
     QueueForIdleConnWaitInv, QueueForDialInv, SelectReadyInv, WantConnCancelInv
     DEF GetConn, QueueForIdleConn
<1>2. ASSUME NEW w \in Wants, DialConnFor(w) PROVE PoolInv'
  BY <1>2, DialStartInv, DialConnInv, DialDeliverInv, DialDeliverErrInv, DialDecInv
     DEF DialConnFor
<1>3. ASSUME NEW w \in Wants,
             \/ SelectCanceled(w) \/ RoundTripStart(w) \/ RoundTripCanceled(w)
             \/ RoundTripReturns(w) \/ RoundTripLateClose(w)
             \/ FinishReuse(w) \/ FinishBroken(w) \/ AbortInUse(w)
      PROVE  PoolInv'
  BY <1>3, SelectCanceledInv, RoundTripStartInv, RoundTripCanceledInv,
     RoundTripReturnsInv, RoundTripLateCloseInv, FinishReuseInv, FinishBrokenInv,
     AbortInUseInv
<1>4. ASSUME NEW p \in puts, Put(p) PROVE PoolInv'
  BY <1>4, TryPutIsBrokenInv, TryPutDeliverInv, TryPutRejectInv, TryPutStoreInv,
     PutOrCloseInv DEF Put
<1>5. ASSUME NEW c \in Conns,
             \/ ReadLoopExit(c) \/ ReadLoopRemoveIdle(c)
             \/ CloseConnIfStillIdle(c) \/ CloseIdleConnectionsClose(c)
      PROVE  PoolInv'
  BY <1>5, ReadLoopExitInv, ReadLoopRemoveIdleInv, CloseConnIfStillIdleInv,
     CloseIdleConnectionsCloseInv
<1>6. CASE UNCHANGED vars
  BY <1>6 DEF vars, idleVars, hostVars, wantVars, PoolInv, TypeOK, KeyInv, RightHost,
     IdleInv, OwnerInv, UserInv, PutInv, ParkedInv, DialInv, Uses, Born
<1>7. QED
  BY <1>1, <1>2, <1>3, <1>4, <1>5, <1>6, CloseIdleConnectionsInv DEF Next

\* PoolInv holds in every state the Transport reaches, whatever the number of
\* concurrent getConn calls and hosts and whatever the limits: the hand-overs
\* between getConn, dialConnFor, tryPutIdleConn and readLoop keep the pool
\* consistent.
THEOREM PoolInvariant == Spec => []PoolInv
BY InitInv, NextInv, PTL DEF Spec

\* The variables of the pool keep their types.
THEOREM TypeCorrect == Spec => []TypeOK
<1>1. PoolInv => TypeOK
  BY DEF PoolInv
<1>2. QED
  BY <1>1, PoolInvariant, PTL

\* No two requests ever share an HTTP/1 connection, and none uses one that is
\* idle, on its way back to the pool, or about to be closed by
\* CloseIdleConnections.
THEOREM Exclusive == Spec => []ExclusiveUse
<1>1. PoolInv => ExclusiveUse
  <2> SUFFICES ASSUME PoolInv, NEW c \in Conns
               PROVE  /\ \A v, w \in Wants : Uses(v, c) /\ Uses(w, c) => v = w
                      /\ \A p, q \in puts : p.pc = c /\ q.pc = c => p = q
                      /\ InUse(c) => ~(BeingPut(c) \/ JustDialed(c) \/ Idle(c)
                                       \/ c \in closing)
                      /\ BeingPut(c) => ~(JustDialed(c) \/ Idle(c) \/ c \in closing)
                      /\ JustDialed(c) => ~(Idle(c) \/ c \in closing)
                      /\ Idle(c) => c \notin closing
    BY DEF ExclusiveUse
  <2>1. Idle(c) => c \in ToSet(idleLRU)
    BY PoolAssumption DEF PoolInv, IdleInv, Idle, Conns
  <2>2. InUse(c) => /\ Born(c) /\ c \notin ToSet(idleLRU) /\ c \notin closing
                    /\ ~BeingPut(c)
    BY DEF PoolInv, OwnerInv, UserInv, InUse, BeingPut
  <2>3. BeingPut(c) => Born(c) /\ c \notin ToSet(idleLRU) /\ c \notin closing
    BY DEF PoolInv, OwnerInv, PutInv, BeingPut
  <2>4. c \in ToSet(idleLRU) \/ c \in closing => Born(c)
    BY DEF PoolInv, OwnerInv, ParkedInv
  <2>5. c \in ToSet(idleLRU) => c \notin closing
    BY DEF PoolInv, OwnerInv, ParkedInv
  <2>6. Born(c) => ~JustDialed(c)
    BY DEF Born, JustDialed
  <2>7. /\ \A v, w \in Wants : Uses(v, c) /\ Uses(w, c) => v = w
        /\ \A p, q \in puts : p.pc = c /\ q.pc = c => p = q
    BY DEF PoolInv, OwnerInv, UserInv, PutInv
  <2>8. QED
    BY <2>1, <2>2, <2>3, <2>4, <2>5, <2>6, <2>7
<1>2. QED
  BY <1>1, PoolInvariant, PTL

\* A request only ever gets a connection that was dialed for its own key.
THEOREM SameHost == Spec => []RightHost
<1>1. PoolInv => RightHost
  BY DEF PoolInv, KeyInv
<1>2. QED
  BY <1>1, PoolInvariant, PTL

\* tryPutIdleConn never meets a connection that is already in the idle list
\* or in the LRU list: its log.Fatalf and the panic of connLRU.add are
\* unreachable.
THEOREM NoDuplicateIdle == Spec => []NoPoolPanic
<1>1. PoolInv => NoPoolPanic
  <2> SUFFICES ASSUME PoolInv, NEW p \in puts
               PROVE  p.pc \notin ToSet(idleLRU) /\ ~Idle(p.pc)
    BY DEF NoPoolPanic
  <2>1. p.pc \notin ToSet(idleLRU)
    BY DEF PoolInv, OwnerInv, PutInv
  <2>2. KeyOf[p.pc] \in Keys
    BY PoolAssumption DEF PoolInv, TypeOK, PutCalls, Conns
  <2>3. QED
    BY <2>1, <2>2 DEF PoolInv, IdleInv, Idle
<1>2. QED
  BY <1>1, PoolInvariant, PTL

-----------------------------------------------------------------------------
(***************************************************************************)
(* The limits: connsPerHost counts the dials and open connections of a     *)
(* host exactly, and neither it nor the idle lists exceed what is          *)
(* configured.                                                             *)
(***************************************************************************)

\* What connsPerHost counts.
counts(w) == HasPermission(w) \/ Open(w)

\* Where a dial has its permission.
Permissions == {"spawned", "dialing", "failed", "dec", "aborted"}

\* No permission is given beyond the limit.
Permitted == MaxConnsPerHost > 0 => \A k \in Keys : connsPerHost[k] <= MaxConnsPerHost

HostInv == ConnCount /\ Permitted

IdleLens ==
  /\ \A k \in Keys : Len(idleConn[k]) <= Max({0, maxIdleConnsPerHost})
  /\ MaxIdleConns # 0 => Len(idleLRU) <= Max({0, MaxIdleConns})

LimitInv == HostInv /\ IdleLens

(***************************************************************************)
(* The count per host.                                                     *)
(***************************************************************************)

\* The counted wants of a host are finitely many.
LEMMA CountedFinite ==
  ASSUME NEW k \in Keys
  PROVE  IsFiniteSet(Counted(k)) /\ Cardinality(Counted(k)) \in Nat
<1>1. Counted(k) \in SUBSET Wants /\ IsFiniteSet(Wants)
  BY PoolAssumption DEF Counted
<1> QED
  BY <1>1, FS_Subset, FS_CardinalityType

\* A step that neither gives nor takes a permission, nor opens or closes.
LEMMA SameCount ==
  ASSUME HostInv, UNCHANGED connsPerHost, \A w \in Wants : counts(w)' <=> counts(w)
  PROVE  HostInv'
<1>1. \A k \in Keys : Counted(k)' = Counted(k)
  BY DEF Counted, counts
<1> QED
  BY <1>1 DEF HostInv, ConnCount, Permitted

\* One more want of host k is counted.
LEMMA CountUp ==
  ASSUME NEW k \in Keys, NEW x \in Wants, KeyOf[x] = k, ~counts(x), counts(x)',
         \A w \in Wants : w # x => (counts(w)' <=> counts(w))
  PROVE  /\ Cardinality(Counted(k)') = Cardinality(Counted(k)) + 1
         /\ \A j \in Keys : j # k => Counted(j)' = Counted(j)
<1>1. Counted(k)' = Counted(k) \cup {x} /\ x \notin Counted(k)
  BY DEF Counted, counts
<1>2. \A j \in Keys : j # k => Counted(j)' = Counted(j)
  BY DEF Counted, counts
<1> QED
  BY <1>1, <1>2, CountedFinite, FS_AddElement

\* A permission is given back: the count goes down, or a waiting want takes
\* the place of x.
LEMMA Released ==
  ASSUME TypeOK, DialInv, HostInv, NEW x \in Wants, NEW d \in [Wants -> Dialers], counts(x),
         \A j \in Keys : \A w \in ToSet(connsPerHostWait[j]) :
            d[w] = "none" /\ readLoop[w] = "none" /\ ~counts(w),
         \A w \in Wants : readLoop'[w] = "none" <=> readLoop[w] = "none",
         \A w \in Wants :
            d[w] \in Permissions \/ (readLoop'[w] # "none" /\ ~closed'[w])
              <=> w # x /\ counts(w),
         decConnsPerHost(KeyOf[x], d)
  PROVE  HostInv'
<1> DEFINE k == KeyOf[x]
           q == connsPerHostWait[k]
           f == firstWaiting(q)
<1>0. k \in Keys
  BY PoolAssumption
<1>1. CASE MaxConnsPerHost <= 0
  BY <1>1, PoolAssumption DEF HostInv, ConnCount, Permitted
<1>2. CASE ~(MaxConnsPerHost <= 0)
  <2>1. /\ f # 0 => dial' = [d EXCEPT ![q[f]] = "spawned"] /\ UNCHANGED connsPerHost
        /\ f = 0 => /\ connsPerHost' = [connsPerHost EXCEPT ![k] = @ - 1]
                    /\ dial' = d
    BY <1>2 DEF decConnsPerHost
  <2>2. q \in Seq(Wants)
    BY <1>0 DEF TypeOK
  <2>3. f # 0 => q[f] \in ToSet(q) /\ q[f] \in Wants
    BY <2>2, QueueFacts
  <2>4. x \in Counted(k) /\ IsFiniteSet(Counted(k)) /\ Cardinality(Counted(k)) \in Nat
    BY <1>0, CountedFinite DEF Counted, counts
  <2>5. MaxConnsPerHost > 0 /\ connsPerHost \in [Keys -> Int]
    BY <1>2, PoolAssumption DEF TypeOK
  <2>6. /\ \A j \in Keys : connsPerHost[j] = Cardinality(Counted(j))
        /\ \A j \in Keys : connsPerHost[j] <= MaxConnsPerHost
    BY <2>5 DEF HostInv, ConnCount, Permitted
  <2>7. CASE f = 0
    <3>1. dial' = d
      BY <2>1, <2>7
    <3>2. \A w \in Wants : counts(w)' <=> w # x /\ counts(w)
      BY <3>1 DEF counts, HasPermission, Open, Permissions
    <3>3. Counted(k)' = Counted(k) \ {x}
      BY <3>2 DEF Counted, counts
    <3>4. \A j \in Keys : j # k => Counted(j)' = Counted(j)
      BY <3>2 DEF Counted, counts
    <3>5. Cardinality(Counted(k)') = Cardinality(Counted(k)) - 1
      BY <2>4, <3>3, FS_RemoveElement, ZenonT(60)
    <3>6. /\ connsPerHost'[k] = connsPerHost[k] - 1
          /\ \A j \in Keys : j # k => connsPerHost'[j] = connsPerHost[j]
      BY <1>0, <2>1, <2>5, <2>7
    <3>7. \A j \in Keys : connsPerHost'[j] = Cardinality(Counted(j)')
      BY <2>6, <3>4, <3>5, <3>6
    <3>8. \A j \in Keys : connsPerHost'[j] <= MaxConnsPerHost
      BY <2>5, <2>6, <3>6, PoolAssumption
    <3> QED
      BY <3>7, <3>8 DEF HostInv, ConnCount, Permitted
  <2>8. CASE f # 0
    <3> DEFINE y == q[f]
    <3>1. /\ y \in Wants /\ KeyOf[y] = k /\ d[y] = "none" /\ readLoop[y] = "none" /\ ~counts(y)
      BY <1>0, <2>3, <2>8 DEF DialInv
    <3>2. y # x
      BY <3>1
    <3>3. dial' = [d EXCEPT ![y] = "spawned"] /\ UNCHANGED connsPerHost
      BY <2>1, <2>8
    <3> HIDE DEF y, f, q
    <3>4. \A w \in Wants : counts(w)' <=> w = y \/ (w # x /\ counts(w))
      BY <3>1, <3>3 DEF counts, HasPermission, Open, Permissions
    <3>5. Counted(k)' = (Counted(k) \ {x}) \cup {y} /\ y \notin Counted(k) \ {x}
      BY <3>1, <3>4 DEF Counted, counts
    <3>6. \A j \in Keys : j # k => Counted(j)' = Counted(j)
      BY <3>1, <3>4 DEF Counted, counts
    <3>7. /\ IsFiniteSet(Counted(k) \ {x})
          /\ Cardinality(Counted(k) \ {x}) = Cardinality(Counted(k)) - 1
      BY <2>4, FS_RemoveElement
    <3>8. Cardinality(Counted(k)') = Cardinality(Counted(k))
      <4>1. Cardinality((Counted(k) \ {x}) \cup {y}) = Cardinality(Counted(k) \ {x}) + 1
        BY <3>5, <3>7, FS_AddElement
      <4> QED
        BY <2>4, <3>5, <3>7, <4>1
    <3>9. \A j \in Keys : connsPerHost'[j] = Cardinality(Counted(j)')
      BY <2>6, <3>3, <3>6, <3>8
    <3>10. \A j \in Keys : connsPerHost'[j] <= MaxConnsPerHost
      BY <2>6, <3>3
    <3> QED
      BY <3>9, <3>10 DEF HostInv, ConnCount, Permitted
  <2> QED
    BY <2>7, <2>8
<1> QED
  BY <1>1, <1>2

\* Who waits for leave to dial is not counted.
LEMMA WaitersUncounted ==
  ASSUME TypeOK, DialInv, NEW j \in Keys, NEW w \in ToSet(connsPerHostWait[j])
  PROVE  w \in Wants /\ dial[w] = "none" /\ readLoop[w] = "none" /\ ~counts(w)
<1>1. w \in Wants
  BY ToSetType DEF TypeOK
<1>2. dial[w] = "none" /\ readLoop[w] = "none"
  BY <1>1 DEF DialInv
<1> QED
  BY <1>1, <1>2 DEF counts, HasPermission, Open

\* A connection that is closed was counted, and is no more.
LEMMA CloseCounts ==
  ASSUME TypeOK, DialInv, HostInv, NEW c \in Conns, closeLocked(c, dial),
         dial[c] \in {"dialed", "done"}, readLoop[c] # "none",
         \A w \in Wants : readLoop'[w] = "none" <=> readLoop[w] = "none"
  PROVE  HostInv'
<1>1. CASE closed[c]
  <2>1. UNCHANGED <<dial, closed, connsPerHost>>
    BY <1>1 DEF closeLocked, hostVars
  <2>2. \A w \in Wants : counts(w)' <=> counts(w)
    BY <2>1 DEF counts, HasPermission, Open
  <2> QED
    BY <2>1, <2>2, SameCount
<1>2. CASE ~closed[c]
  <2>1. closed' = [closed EXCEPT ![c] = TRUE] /\ decConnsPerHost(KeyOf[c], dial)
    BY <1>2 DEF closeLocked
  <2>2. \A j \in Keys : \A w \in ToSet(connsPerHostWait[j]) :
           dial[w] = "none" /\ readLoop[w] = "none" /\ ~counts(w)
    BY WaitersUncounted
  <2>3. counts(c) /\ c \in Wants /\ dial \in [Wants -> Dialers] /\ closed \in [Wants -> BOOLEAN]
    BY <1>2 DEF counts, Open, Conns, TypeOK
  <2>4. \A w \in Wants : closed'[w] <=> w = c \/ closed[w]
    BY <2>1, <2>3
  <2>5. \A w \in Wants :
           dial[w] \in Permissions \/ (readLoop'[w] # "none" /\ ~closed'[w])
             <=> w # c /\ counts(w)
    BY <2>4 DEF counts, HasPermission, Open, Permissions
  <2> QED
    BY <2>1, <2>2, <2>3, <2>5, Released
<1> QED
  BY <1>1, <1>2

\* The steps of a getConn call.
LEMMA GetConnCounts ==
  ASSUME PoolInv, HostInv, NEW w \in Wants, GetConn(w) \/ SelectCanceled(w)
  PROVE  HostInv'
<1> USE DEF PoolInv
<1>1. CASE QueueForIdleConn(w) \/ SelectReady(w) \/ WantConnCancel(w) \/ SelectCanceled(w)
  <2>1. UNCHANGED <<connsPerHost, dial, readLoop, closed>>
    BY <1>1 DEF QueueForIdleConn, QueueForIdleConnDisabled, QueueForIdleConnDeliver,
                QueueForIdleConnWait, SelectReady, WantConnCancel, SelectCanceled, hostVars
  <2> QED
    BY <2>1, SameCount DEF counts, HasPermission, Open
<1>2. CASE QueueForDial(w)
  <2> DEFINE k == KeyOf[w]
  <2>1. /\ k \in Keys /\ dial[w] = "none" /\ readLoop[w] = "none"
        /\ UNCHANGED <<readLoop, closed>>
    BY <1>2, PoolAssumption DEF QueueForDial, DialInv
  <2>2. CASE MaxConnsPerHost <= 0
    BY <2>2, PoolAssumption DEF HostInv, ConnCount, Permitted
  <2>3. CASE UNCHANGED <<connsPerHost, dial>>
    BY <2>1, <2>3, SameCount DEF counts, HasPermission, Open
  <2>4. CASE /\ MaxConnsPerHost > 0 /\ mayDial(k)
             /\ connsPerHost' = [connsPerHost EXCEPT ![k] = @ + 1]
             /\ dial' = [dial EXCEPT ![w] = "spawned"]
    <3>1. ~counts(w) /\ counts(w)' /\ \A v \in Wants : v # w => (counts(v)' <=> counts(v))
      BY <2>1, <2>4 DEF TypeOK, counts, HasPermission, Open
    <3>2. /\ Cardinality(Counted(k)') = Cardinality(Counted(k)) + 1
          /\ \A j \in Keys : j # k => Counted(j)' = Counted(j)
      BY <2>1, <3>1, CountUp
    <3>3. /\ connsPerHost \in [Keys -> Int] /\ connsPerHost[k] < MaxConnsPerHost
          /\ connsPerHost'[k] = connsPerHost[k] + 1
          /\ \A j \in Keys : j # k => connsPerHost'[j] = connsPerHost[j]
      BY <2>1, <2>4 DEF TypeOK, mayDial
    <3>4. \A j \in Keys : connsPerHost'[j] = Cardinality(Counted(j)')
      BY <2>4, <3>2, <3>3 DEF HostInv, ConnCount
    <3>5. \A j \in Keys : connsPerHost'[j] <= MaxConnsPerHost
      BY <2>1, <2>4, <3>3, PoolAssumption DEF HostInv, Permitted
    <3> QED
      BY <3>4, <3>5 DEF HostInv, ConnCount, Permitted
  <2> QED
    BY <1>2, <2>2, <2>3, <2>4 DEF QueueForDial, hostVars
<1> QED
  BY <1>1, <1>2 DEF GetConn

\* The steps of dialConnFor.  The permission becomes the open connection.
LEMMA DialConnForCounts ==
  ASSUME PoolInv, HostInv, NEW w \in Wants, DialConnFor(w)
  PROVE  HostInv'
<1> USE DEF PoolInv
<1>0. dial \in [Wants -> Dialers] /\ readLoop \in [Wants -> Loops] /\ closed \in [Wants -> BOOLEAN]
  BY DEF TypeOK, Conns
<1>1. CASE DialStart(w)
  <2>1. /\ dial[w] = "spawned" /\ UNCHANGED <<connsPerHost, readLoop, closed>>
        /\ dial' \in {[dial EXCEPT ![w] = "dialing"], [dial EXCEPT ![w] = "aborted"]}
    BY <1>1 DEF DialStart, hostVars
  <2> QED
    BY <1>0, <2>1, SameCount DEF counts, HasPermission, Open
<1>2. CASE DialConn(w)
  <2>1. dial[w] = "dialing" /\ UNCHANGED <<connsPerHost, closed>> /\ ~closed[w]
    BY <1>2 DEF DialConn, DialInv, hostVars
  <2>2. \/ dial' = [dial EXCEPT ![w] = "dialed"] /\ readLoop' = [readLoop EXCEPT ![w] = "run"]
        \/ dial' = [dial EXCEPT ![w] = "failed"] /\ UNCHANGED readLoop
    BY <1>2 DEF DialConn
  <2> QED
    BY <1>0, <2>1, <2>2, SameCount DEF counts, HasPermission, Open
<1>3. CASE DialDeliver(w)
  <2>1. /\ dial[w] = "dialed" /\ dial' = [dial EXCEPT ![w] = "done"]
        /\ UNCHANGED <<connsPerHost, readLoop, closed>>
    BY <1>3 DEF DialDeliver, hostVars
  <2> QED
    BY <1>0, <2>1, SameCount DEF counts, HasPermission, Open
<1>4. CASE DialDeliverErr(w)
  <2>1. /\ dial[w] = "failed" /\ dial' = [dial EXCEPT ![w] = "dec"]
        /\ UNCHANGED <<connsPerHost, readLoop, closed>>
    BY <1>4 DEF DialDeliverErr, hostVars
  <2> QED
    BY <1>0, <2>1, SameCount DEF counts, HasPermission, Open
<1>5. CASE DialDec(w)
  <2> DEFINE d == [dial EXCEPT ![w] = "done"]
  <2>1. dial[w] = "dec" /\ UNCHANGED <<readLoop, closed>> /\ decConnsPerHost(KeyOf[w], d)
    BY <1>5 DEF DialDec
  <2>2. readLoop[w] = "none" /\ counts(w)
    BY <2>1 DEF DialInv, counts, HasPermission
  <2>3. d \in [Wants -> Dialers]
    BY <1>0 DEF Dialers
  <2>4. \A j \in Keys : \A v \in ToSet(connsPerHostWait[j]) :
           d[v] = "none" /\ readLoop[v] = "none" /\ ~counts(v)
    BY <1>0, <2>1, WaitersUncounted
  <2>5. \A v \in Wants :
           d[v] \in Permissions \/ (readLoop'[v] # "none" /\ ~closed'[v])
             <=> v # w /\ counts(v)
    BY <1>0, <2>1, <2>2 DEF counts, HasPermission, Open, Permissions
  <2>6. \A v \in Wants : readLoop'[v] = "none" <=> readLoop[v] = "none"
    BY <2>1
  <2> HIDE DEF d
  <2> QED
    BY <2>1, <2>2, <2>3, <2>4, <2>5, <2>6, Released
<1> QED
  BY <1>1, <1>2, <1>3, <1>4, <1>5 DEF DialConnFor

\* The steps of a request.
LEMMA RequestCounts ==
  ASSUME PoolInv, HostInv, NEW w \in Wants,
         \/ RoundTripStart(w) \/ RoundTripCanceled(w) \/ RoundTripReturns(w)
         \/ RoundTripLateClose(w) \/ FinishReuse(w) \/ FinishBroken(w) \/ AbortInUse(w)
  PROVE  HostInv'
<1> USE DEF PoolInv
<1>1. CASE RoundTripLateClose(w) \/ AbortInUse(w)
  <2>1. wpc[w] # NoConn /\ closeLocked(wpc[w], dial) /\ UNCHANGED readLoop
    BY <1>1 DEF RoundTripLateClose, AbortInUse, DialInv
  <2>2. wpc[w] \in Conns
    BY <2>1 DEF TypeOK
  <2>3. Born(wpc[w])
    BY <2>2 DEF OwnerInv, UserInv
  <2> QED
    BY <2>1, <2>2, <2>3, CloseCounts DEF Born
<1>2. CASE \/ RoundTripStart(w) \/ RoundTripCanceled(w) \/ RoundTripReturns(w)
           \/ FinishReuse(w) \/ FinishBroken(w)
  <2>1. UNCHANGED <<connsPerHost, dial, readLoop, closed>>
    BY <1>2 DEF RoundTripStart, RoundTripCanceled, RoundTripReturns, FinishReuse,
                FinishBroken, hostVars
  <2> QED
    BY <2>1, SameCount DEF counts, HasPermission, Open
<1> QED
  BY <1>1, <1>2

\* The steps of tryPutIdleConn; an eviction closes a connection that was born.
LEMMA PutCounts ==
  ASSUME PoolInv, HostInv, NEW p \in puts, Put(p)
  PROVE  HostInv'
<1> USE DEF PoolInv
<1>0. p.pc \in Conns /\ Born(p.pc)
  BY DEF TypeOK, PutCalls, OwnerInv, PutInv
<1>1. CASE TryPutIsBroken(p) \/ TryPutDeliver(p) \/ TryPutReject(p)
  <2>1. UNCHANGED <<connsPerHost, dial, readLoop, closed>>
    BY <1>1 DEF TryPutIsBroken, TryPutDeliver, TryPutReject, hostVars
  <2> QED
    BY <2>1, SameCount DEF counts, HasPermission, Open
<1>2. CASE PutOrClose(p)
  <2>1. closeLocked(p.pc, dial) /\ UNCHANGED readLoop
    BY <1>2 DEF PutOrClose
  <2> QED
    BY <1>0, <2>1, CloseCounts DEF Born
<1>3. CASE TryPutStore(p)
  <2> DEFINE lru == Append(idleLRU, p.pc)
  <2>1. CASE tooManyIdle(lru)
    <3>1. closeLocked(Head(lru), dial) /\ UNCHANGED readLoop
      BY <1>3, <2>1 DEF TryPutStore
    <3>2. /\ lru \in Seq(Conns) /\ Len(lru) = Len(idleLRU) + 1
          /\ ToSet(lru) = ToSet(idleLRU) \cup {p.pc}
      BY <1>0, AppendFacts DEF TypeOK
    <3>3. Len(lru) > 0
      BY <3>2, LenProperties DEF TypeOK
    <3>4. Head(lru) \in ToSet(lru) /\ Head(lru) \in Conns
      BY <3>2, <3>3, TailFacts, ToSetType
    <3>5. Born(Head(lru))
      BY <1>0, <3>2, <3>4 DEF OwnerInv, ParkedInv
    <3> QED
      BY <3>1, <3>4, <3>5, CloseCounts DEF Born
  <2>2. CASE ~tooManyIdle(lru)
    <3>1. UNCHANGED <<connsPerHost, dial, readLoop, closed>>
      BY <1>3, <2>2 DEF TryPutStore, hostVars
    <3> QED
      BY <3>1, SameCount DEF counts, HasPermission, Open
  <2> QED
    BY <2>1, <2>2
<1> QED
  BY <1>1, <1>2, <1>3 DEF Put

\* The steps of a connection and of CloseIdleConnections.
LEMMA ConnCounts ==
  ASSUME PoolInv, HostInv, NEW c \in Conns,
         \/ ReadLoopExit(c) \/ ReadLoopRemoveIdle(c) \/ CloseConnIfStillIdle(c)
         \/ CloseIdleConnectionsClose(c) \/ CloseIdleConnections
  PROVE  HostInv'
<1> USE DEF PoolInv
<1>0. readLoop \in [Wants -> Loops] /\ dial \in [Wants -> Dialers] /\ Conns = Wants
  BY DEF TypeOK, Conns
<1>1. CASE ReadLoopExit(c)
  <2>1. readLoop[c] = "run" /\ readLoop' = [readLoop EXCEPT ![c] = "exit"] /\ closeLocked(c, dial)
    BY <1>1 DEF ReadLoopExit
  <2>2. dial[c] \in {"dialed", "done"}
    BY <1>0, <2>1 DEF DialInv
  <2>3. \A w \in Wants : readLoop'[w] = "none" <=> readLoop[w] = "none"
    BY <1>0, <2>1
  <2> QED
    BY <2>1, <2>2, <2>3, CloseCounts
<1>2. CASE ReadLoopRemoveIdle(c)
  <2>1. /\ readLoop[c] = "exit" /\ readLoop' = [readLoop EXCEPT ![c] = "gone"]
        /\ UNCHANGED <<connsPerHost, dial, closed>>
    BY <1>2 DEF ReadLoopRemoveIdle, hostVars
  <2> QED
    BY <1>0, <2>1, SameCount DEF counts, HasPermission, Open
<1>3. CASE CloseConnIfStillIdle(c)
  <2>1. c \in ToSet(idleLRU) /\ closeLocked(c, dial) /\ UNCHANGED readLoop
    BY <1>3 DEF CloseConnIfStillIdle
  <2>2. Born(c)
    BY <2>1 DEF OwnerInv, ParkedInv
  <2> QED
    BY <2>1, <2>2, CloseCounts DEF Born
<1>4. CASE CloseIdleConnectionsClose(c)
  <2>1. c \in closing /\ closeLocked(c, dial) /\ UNCHANGED readLoop
    BY <1>4 DEF CloseIdleConnectionsClose
  <2>2. Born(c)
    BY <2>1 DEF OwnerInv, ParkedInv
  <2> QED
    BY <2>1, <2>2, CloseCounts DEF Born
<1>5. CASE CloseIdleConnections
  <2>1. UNCHANGED <<connsPerHost, dial, readLoop, closed>>
    BY <1>5 DEF CloseIdleConnections, hostVars
  <2> QED
    BY <2>1, SameCount DEF counts, HasPermission, Open
<1> QED
  BY <1>1, <1>2, <1>3, <1>4, <1>5

(***************************************************************************)
(* The lengths of the idle lists.                                          *)
(***************************************************************************)

\* A limit below zero admits no idle connection.
LEMMA Max0 ==
  ASSUME NEW n \in Int
  PROVE  Max({0, n}) = IF n > 0 THEN n ELSE 0
<1>1. CASE n > 0
  <2>1. n \in {0, n} /\ \A y \in {0, n} : n >= y
    BY <1>1
  <2>2. \A x \in {0, n} : (\A y \in {0, n} : x >= y) => x = n
    BY <1>1
  <2> QED
    BY <1>1, <2>1, <2>2 DEF Max
<1>2. CASE ~(n > 0)
  <2>1. 0 \in {0, n} /\ \A y \in {0, n} : 0 >= y
    BY <1>2
  <2>2. \A x \in {0, n} : (\A y \in {0, n} : x >= y) => x = 0
    BY <1>2
  <2> QED
    BY <1>2, <2>1, <2>2 DEF Max
<1> QED
  BY <1>1, <1>2

LEMMA LimitTypes ==
  /\ maxIdleConnsPerHost \in Int /\ Max({0, maxIdleConnsPerHost}) \in Nat
  /\ Max({0, MaxIdleConns}) \in Nat
<1>1. maxIdleConnsPerHost \in Int /\ MaxIdleConns \in Int
  BY PoolAssumption DEF maxIdleConnsPerHost, DefaultMaxIdleConnsPerHost
<1> QED
  BY <1>1, Max0

\* A step that makes no list longer.
LEMMA NoLonger ==
  ASSUME PoolInv, PoolInv', IdleLens,
         \A k \in Keys : Len(idleConn'[k]) <= Len(idleConn[k]),
         Len(idleLRU') <= Len(idleLRU)
  PROVE  IdleLens'
<1>1. /\ \A k \in Keys : Len(idleConn[k]) \in Nat /\ Len(idleConn'[k]) \in Nat
      /\ Len(idleLRU) \in Nat /\ Len(idleLRU') \in Nat
  BY LenProperties DEF PoolInv, TypeOK
<1> DEFINE m == Max({0, maxIdleConnsPerHost})
           n == Max({0, MaxIdleConns})
<1>2. m \in Nat /\ n \in Nat
  BY LimitTypes
<1>3. /\ \A k \in Keys : Len(idleConn[k]) <= m
      /\ MaxIdleConns # 0 => Len(idleLRU) <= n
  BY DEF IdleLens
<1> HIDE DEF m, n
<1>4. \A k \in Keys : Len(idleConn'[k]) <= m
  BY <1>1, <1>2, <1>3
<1>5. MaxIdleConns # 0 => Len(idleLRU') <= n
  BY <1>1, <1>2, <1>3
<1> QED
  BY <1>4, <1>5 DEF IdleLens, m, n

\* Taking a connection out of a list makes no list longer.
LEMMA WithoutLens ==
  ASSUME NEW ic \in [Keys -> Seq(Conns)], NEW c \in Conns, NEW k \in Keys
  PROVE  Len(withoutIdle(ic, c)[k]) <= Len(ic[k])
<1>1. ic[k] \in Seq(Conns) /\ Len(ic[k]) \in Nat
  BY LenProperties
<1>2. withoutIdle(ic, c)[k] = IF k = KeyOf[c] THEN RemoveFirst(ic[k], c) ELSE ic[k]
  BY DEF withoutIdle
<1>3. Len(RemoveFirst(ic[k], c)) <= Len(ic[k])
  BY <1>1, RemoveFirstFacts
<1> QED
  BY <1>1, <1>2, <1>3

\* Storing a connection: the two limits are tested before and after.
LEMMA StoreLens ==
  ASSUME PoolInv, PoolInv', IdleLens, NEW p \in puts, TryPutStore(p)
  PROVE  IdleLens'
<1> DEFINE k   == KeyOf[p.pc]
           ic  == [idleConn EXCEPT ![k] = Append(@, p.pc)]
           lru == Append(idleLRU, p.pc)
<1>1. p.pc \in Conns /\ k \in Keys
  BY PoolAssumption DEF PoolInv, TypeOK, PutCalls, Conns
<1>2. /\ lru \in Seq(Conns) /\ Len(lru) = Len(idleLRU) + 1 /\ Len(idleLRU) \in Nat
      /\ ToSet(lru) \subseteq Conns
  BY <1>1, AppendFacts, LenProperties, ToSetType DEF PoolInv, TypeOK
<1>3. /\ Append(idleConn[k], p.pc) \in Seq(Conns)
      /\ Len(Append(idleConn[k], p.pc)) = Len(idleConn[k]) + 1
  BY <1>1, AppendFacts DEF PoolInv, TypeOK
<1>4. /\ ic \in [Keys -> Seq(Conns)]
      /\ \A j \in Keys : ic[j] = IF j = k THEN Append(idleConn[k], p.pc) ELSE idleConn[j]
  BY <1>1, <1>3 DEF PoolInv, TypeOK
<1>5. /\ ~hostFull(k)
      /\ \/ /\ tooManyIdle(lru) /\ idleConn' = withoutIdle(ic, Head(lru))
            /\ idleLRU' = Tail(lru)
         \/ ~tooManyIdle(lru) /\ idleConn' = ic /\ idleLRU' = lru
  BY DEF TryPutStore
<1>6. /\ \A j \in Keys : /\ Len(idleConn[j]) \in Nat
                         /\ Len(idleConn[j]) <= Max({0, maxIdleConnsPerHost})
      /\ MaxIdleConns # 0 => Len(idleLRU) <= Max({0, MaxIdleConns})
  BY LenProperties DEF PoolInv, TypeOK, IdleLens
<1> HIDE DEF ic, lru, k
<1>7. \A j \in Keys : Len(ic[j]) \in Nat /\ Len(ic[j]) <= Max({0, maxIdleConnsPerHost})
  <2>1. Len(idleConn[k]) + 1 <= maxIdleConnsPerHost
    BY <1>1, <1>5, <1>6, LimitTypes DEF hostFull
  <2>2. Len(Append(idleConn[k], p.pc)) \in Nat
    BY <1>1, <1>3, <1>6
  <2>3. Len(Append(idleConn[k], p.pc)) <= Max({0, maxIdleConnsPerHost})
    BY <1>1, <1>3, <1>6, <2>1, LimitTypes, Max0
  <2> QED
    BY <1>1, <1>4, <1>6, <2>2, <2>3
<1>8. CASE ~tooManyIdle(lru) /\ idleConn' = ic /\ idleLRU' = lru
  <2>1. MaxIdleConns # 0 => Len(lru) <= MaxIdleConns
    BY <1>2, <1>8, PoolAssumption DEF tooManyIdle
  <2>2. MaxIdleConns # 0 => Len(lru) <= Max({0, MaxIdleConns})
    BY <1>2, <2>1, PoolAssumption, Max0
  <2> QED
    BY <1>7, <1>8, <2>2 DEF IdleLens
<1>9. CASE tooManyIdle(lru) /\ idleConn' = withoutIdle(ic, Head(lru)) /\ idleLRU' = Tail(lru)
  <2>1. Head(lru) \in ToSet(lru) /\ Len(Tail(lru)) = Len(idleLRU)
    BY <1>2, TailFacts
  <2>2. \A j \in Keys : Len(idleConn'[j]) <= Len(ic[j])
    BY <1>2, <1>4, <1>9, <2>1, WithoutLens
  <2>3. \A j \in Keys : Len(idleConn'[j]) \in Nat
    BY LenProperties DEF PoolInv, TypeOK
  <2>4. \A j \in Keys : Len(idleConn'[j]) <= Max({0, maxIdleConnsPerHost})
    <3> DEFINE m == Max({0, maxIdleConnsPerHost})
    <3>1. m \in Nat /\ \A j \in Keys : Len(ic[j]) \in Nat /\ Len(ic[j]) <= m
      BY <1>7, LimitTypes
    <3> HIDE DEF m
    <3>2. \A j \in Keys : Len(idleConn'[j]) <= m
      BY <2>2, <2>3, <3>1
    <3> QED
      BY <3>2 DEF m
  <2> QED
    BY <1>6, <1>9, <2>1, <2>4 DEF IdleLens
<1> QED
  BY <1>5, <1>8, <1>9

\* A search of the idle list makes no list longer.
LEMMA SearchLens ==
  ASSUME PoolInv, PoolInv', IdleLens, NEW w \in Wants, QueueForIdleConn(w)
  PROVE  IdleLens'
<1> DEFINE k == KeyOf[w]
           list == idleConn[k]
<1>1. /\ k \in Keys /\ list \in Seq(Conns) /\ Len(list) \in Nat
      /\ \A j \in Keys : Len(idleConn[j]) \in Nat
      /\ Len(idleLRU) \in Nat
  BY PoolAssumption, LenProperties DEF PoolInv, TypeOK
<1>2. CASE QueueForIdleConnDisabled(w)
  BY <1>1, <1>2, NoLonger DEF QueueForIdleConnDisabled, idleVars
<1>3. CASE QueueForIdleConnWait(w)
  <2>1. idleConn' = [idleConn EXCEPT ![k] = <<>>] /\ UNCHANGED idleLRU
    BY <1>3 DEF QueueForIdleConnWait
  <2>2. \A j \in Keys : Len(idleConn'[j]) <= Len(idleConn[j])
    BY <1>1, <2>1, EmptySeq DEF PoolInv, TypeOK
  <2> QED
    BY <1>1, <2>1, <2>2, NoLonger
<1>4. CASE QueueForIdleConnDeliver(w)
  <2>1. PICK old \in ages(list) :
          LET i == Max(usable(list, old))
          IN  /\ usable(list, old) # {}
              /\ idleLRU' = withoutLRU(idleLRU, list[i])
              /\ idleConn' = [idleConn EXCEPT ![k] = SubSeq(list, 1, i - 1)]
    BY <1>4 DEF QueueForIdleConnDeliver
  <2> DEFINE i == Max(usable(list, old))
  <2>2. i \in 1 .. Len(list)
    <3>1. old \in Nat
      BY <1>1 DEF ages
    <3>2. usable(list, old) \subseteq 1 .. Len(list)
      BY <1>1, <3>1 DEF usable
    <3>3. usable(list, old) \subseteq 0 .. Len(list)
      BY <1>1, <3>2
    <3>4. i \in usable(list, old)
      BY <1>1, <2>1, <3>3, MaxOfNats
    <3> QED
      BY <3>2, <3>4
  <2>3. /\ idleLRU' = RemoveFirst(idleLRU, list[i])
        /\ idleConn' = [idleConn EXCEPT ![k] = SubSeq(list, 1, i - 1)]
    BY <2>1 DEF withoutLRU
  <2> HIDE DEF i
  <2>4. Len(SubSeq(list, 1, i - 1)) <= Len(list)
    BY <1>1, <2>2, SubSeqFacts
  <2>5. Len(idleLRU') <= Len(idleLRU)
    BY <2>3, RemoveFirstFacts DEF PoolInv, TypeOK
  <2>6. \A j \in Keys : Len(idleConn'[j]) <= Len(idleConn[j])
    <3>1. idleConn \in [Keys -> Seq(Conns)]
      BY DEF PoolInv, TypeOK
    <3>2. \A j \in Keys : idleConn'[j] = IF j = k THEN SubSeq(list, 1, i - 1) ELSE idleConn[j]
      BY <2>3, <3>1
    <3> HIDE DEF list
    <3>3. \A j \in Keys : j # k => Len(idleConn'[j]) <= Len(idleConn[j])
      BY <1>1, <3>2
    <3>4. Len(idleConn'[k]) <= Len(idleConn[k])
      BY <1>1, <2>4, <3>2 DEF list
    <3> QED
      BY <3>3, <3>4
  <2> QED
    BY <2>5, <2>6, NoLonger
<1> QED
  BY <1>2, <1>3, <1>4 DEF QueueForIdleConn

\* A connection leaves the pool.
LEMMA RemoveLens ==
  ASSUME PoolInv, PoolInv', IdleLens, NEW c \in Conns,
         ReadLoopRemoveIdle(c) \/ CloseConnIfStillIdle(c)
  PROVE  IdleLens'
<1>1. /\ idleConn' = withoutIdle(idleConn, c)
      /\ idleLRU' = RemoveFirst(idleLRU, c)
  BY DEF ReadLoopRemoveIdle, CloseConnIfStillIdle, withoutLRU
<1>2. idleConn \in [Keys -> Seq(Conns)] /\ idleLRU \in Seq(Conns)
  BY DEF PoolInv, TypeOK
<1>3. \A k \in Keys : Len(idleConn'[k]) <= Len(idleConn[k])
  BY <1>1, <1>2, WithoutLens
<1>4. Len(idleLRU') <= Len(idleLRU)
  BY <1>1, <1>2, RemoveFirstFacts
<1> QED
  BY <1>3, <1>4, NoLonger

\* The pool is emptied.
LEMMA EmptyLens ==
  ASSUME PoolInv, PoolInv', IdleLens, CloseIdleConnections
  PROVE  IdleLens'
<1>1. idleConn' = [k \in Keys |-> <<>>] /\ idleLRU' = <<>>
  BY DEF CloseIdleConnections
<1>2. /\ \A k \in Keys : Len(idleConn[k]) \in Nat
      /\ Len(idleLRU) \in Nat /\ Len(<<>>) = 0
  BY LenProperties DEF PoolInv, TypeOK
<1>3. \A k \in Keys : Len(idleConn'[k]) <= Len(idleConn[k])
  BY <1>1, <1>2
<1>4. Len(idleLRU') <= Len(idleLRU)
  BY <1>1, <1>2
<1> QED
  BY <1>3, <1>4, NoLonger

(***************************************************************************)
(* The invariant.                                                          *)
(***************************************************************************)

\* At first nothing is counted and nothing is idle.
LEMMA LimitInit == Init => LimitInv
<1> SUFFICES ASSUME Init PROVE LimitInv
  OBVIOUS
<1>1. \A k \in Keys : Counted(k) = {}
  BY DEF Init, Counted, HasPermission, Open, Conns
<1>2. HostInv
  <2>1. Cardinality({}) = 0
    BY FS_EmptySet
  <2>2. \A k \in Keys : connsPerHost[k] = 0 /\ Cardinality(Counted(k)) = 0
    BY <1>1, <2>1 DEF Init
  <2> QED
    BY <2>2, PoolAssumption DEF HostInv, ConnCount, Permitted
<1>3. IdleLens
  <2>1. Len(<<>>) = 0
    OBVIOUS
  <2> QED
    BY <2>1, LimitTypes DEF Init, IdleLens
<1> QED
  BY <1>2, <1>3 DEF LimitInv

\* Every step keeps the count and the lengths.
LEMMA LimitNext == PoolInv /\ PoolInv' /\ LimitInv /\ [Next]_vars => LimitInv'
<1> SUFFICES ASSUME PoolInv, PoolInv', HostInv, IdleLens, [Next]_vars
             PROVE  HostInv' /\ IdleLens'
  BY DEF LimitInv
<1>1. CASE UNCHANGED <<idleConn, idleLRU>> /\ HostInv'
  BY <1>1 DEF IdleLens
<1>2. ASSUME NEW w \in Wants, GetConn(w) PROVE HostInv' /\ IdleLens'
  <2>1. HostInv'
    BY <1>2, GetConnCounts
  <2>2. CASE QueueForIdleConn(w)
    BY <2>1, <2>2, SearchLens
  <2>3. CASE QueueForDial(w) \/ SelectReady(w) \/ WantConnCancel(w)
    <3>1. UNCHANGED <<idleConn, idleLRU>>
      BY <2>3 DEF QueueForDial, SelectReady, WantConnCancel, idleVars
    <3> QED
      BY <1>1, <2>1, <3>1
  <2> QED
    BY <1>2, <2>2, <2>3 DEF GetConn
<1>3. ASSUME NEW w \in Wants, SelectCanceled(w) PROVE HostInv' /\ IdleLens'
  BY <1>1, <1>3, GetConnCounts DEF SelectCanceled, idleVars
<1>4. ASSUME NEW w \in Wants, DialConnFor(w) PROVE HostInv' /\ IdleLens'
  <2>1. UNCHANGED <<idleConn, idleLRU>>
    BY <1>4 DEF DialConnFor, DialStart, DialConn, DialDeliver, DialDeliverErr, DialDec,
                idleVars
  <2> QED
    BY <1>1, <1>4, <2>1, DialConnForCounts
<1>5. ASSUME NEW w \in Wants,
             \/ RoundTripStart(w) \/ RoundTripCanceled(w) \/ RoundTripReturns(w)
             \/ RoundTripLateClose(w) \/ FinishReuse(w) \/ FinishBroken(w) \/ AbortInUse(w)
      PROVE  HostInv' /\ IdleLens'
  <2>1. UNCHANGED <<idleConn, idleLRU>>
    BY <1>5 DEF RoundTripStart, RoundTripCanceled, RoundTripReturns, RoundTripLateClose,
                FinishReuse, FinishBroken, AbortInUse, idleVars
  <2> QED
    BY <1>1, <1>5, <2>1, RequestCounts
<1>6. ASSUME NEW p \in puts, Put(p) PROVE HostInv' /\ IdleLens'
  <2>1. HostInv'
    BY <1>6, PutCounts
  <2>2. CASE TryPutStore(p)
    BY <2>1, <2>2, StoreLens
  <2>3. CASE TryPutIsBroken(p) \/ TryPutDeliver(p) \/ TryPutReject(p) \/ PutOrClose(p)
    <3>1. UNCHANGED <<idleConn, idleLRU>>
      BY <2>3 DEF TryPutIsBroken, TryPutDeliver, TryPutReject, PutOrClose, idleVars
    <3> QED
      BY <1>1, <2>1, <3>1
  <2> QED
    BY <1>6, <2>2, <2>3 DEF Put
<1>7. ASSUME NEW c \in Conns, ReadLoopExit(c) \/ CloseIdleConnectionsClose(c)
      PROVE  HostInv' /\ IdleLens'
  <2>1. UNCHANGED <<idleConn, idleLRU>>
    BY <1>7 DEF ReadLoopExit, CloseIdleConnectionsClose, idleVars
  <2> QED
    BY <1>1, <1>7, <2>1, ConnCounts
<1>8. ASSUME NEW c \in Conns, ReadLoopRemoveIdle(c) \/ CloseConnIfStillIdle(c)
      PROVE  HostInv' /\ IdleLens'
  BY <1>8, ConnCounts, RemoveLens
<1>9. CASE CloseIdleConnections
  <2>1. UNCHANGED <<connsPerHost, dial, readLoop, closed>>
    BY <1>9 DEF CloseIdleConnections, hostVars
  <2>2. HostInv'
    BY <2>1, SameCount DEF counts, HasPermission, Open
  <2> QED
    BY <1>9, <2>2, EmptyLens
<1>10. CASE UNCHANGED vars
  <2>1. UNCHANGED <<connsPerHost, dial, readLoop, closed, idleConn, idleLRU>>
    BY <1>10 DEF vars, idleVars, hostVars
  <2>2. HostInv'
    BY <2>1, SameCount DEF counts, HasPermission, Open
  <2> QED
    BY <1>1, <2>1, <2>2
<1> QED
  BY <1>2, <1>3, <1>4, <1>5, <1>6, <1>7, <1>8, <1>9, <1>10 DEF Next

\* The count and the lengths give the three limits.
LEMMA LimitsFollow == PoolInv /\ LimitInv => PoolLimits
<1> SUFFICES ASSUME PoolInv, LimitInv PROVE IdleLimits /\ HostLimit /\ ConnCount
  BY DEF PoolLimits
<1>1. IdleLimits
  BY DEF PoolInv, LimitInv, IdleLens, IdleInv, IdleLimits
<1>2. HostLimit
  <2> SUFFICES ASSUME MaxConnsPerHost > 0, NEW k \in Keys
               PROVE  Cardinality({w \in Wants : KeyOf[w] = k
                                     /\ (dial[w] = "dialing" \/ Open(w))})
                        <= MaxConnsPerHost
    BY DEF HostLimit
  <2> DEFINE S == {w \in Wants : KeyOf[w] = k /\ (dial[w] = "dialing" \/ Open(w))}
  <2>1. S \subseteq Counted(k)
    BY DEF Counted, HasPermission
  <2>2. IsFiniteSet(Counted(k)) /\ Cardinality(Counted(k)) \in Nat
    BY CountedFinite
  <2>3. IsFiniteSet(S) /\ Cardinality(S) <= Cardinality(Counted(k))
    BY <2>1, <2>2, FS_Subset
  <2>4. Cardinality(Counted(k)) <= MaxConnsPerHost
    BY DEF LimitInv, HostInv, ConnCount, Permitted
  <2>5. Cardinality(S) \in Nat
    BY <2>3, FS_CardinalityType
  <2> HIDE DEF S
  <2>6. Cardinality(S) <= MaxConnsPerHost
    BY <2>2, <2>3, <2>4, <2>5, PoolAssumption
  <2> QED
    BY <2>6 DEF S
<1>3. ConnCount
  BY DEF LimitInv, HostInv
<1> QED
  BY <1>1, <1>2, <1>3

\* The limits of the Transport hold in every state, for any number of requests
\* and hosts and any limits: connsPerHost counts permitted dials and open
\* connections exactly (so decConnsPerHost never underflows), and neither the
\* connections of a host nor the idle lists exceed their limits.
THEOREM LimitsHold == Spec => []PoolLimits
<1>1. PoolInv /\ [Next]_vars => PoolInv'
  BY NextInv
<1>2. Spec => [](PoolInv /\ LimitInv)
  <2>1. Init => PoolInv /\ LimitInv
    BY InitInv, LimitInit
  <2>2. PoolInv /\ LimitInv /\ [Next]_vars => PoolInv' /\ LimitInv'
    BY NextInv, LimitNext
  <2> QED
    BY <2>1, <2>2, PTL DEF Spec
<1> QED
  BY <1>2, LimitsFollow, PTL
=============================================================================
