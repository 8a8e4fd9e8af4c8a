----------------------------- MODULE CuQueuesProofs -----------------------------
(***************************************************************************)
(* What TLAPS proves of the engines that keep sequences of requests, the   *)
(* polling activity of Tango, the HTTP engine and the WebSocket engine,    *)
(* and of the trend plot, which keeps sequences of points: for any number  *)
(* of sources, listeners, actions, messages and points.  What these proofs *)
(* share comes first: the elements of a sequence at some of its places,    *)
(* and what is in a sequence that is cut, joined or reversed.              *)
(***************************************************************************)
EXTENDS CuPollingActivity, CuHttp, CuWebSocket, CuPlot, FiniteSetTheorems, SequenceTheorems, TLAPS

-----------------------------------------------------------------------------
(* The places of a sequence                                                *)

\* The place of p among ps, in their order.
Rank(p, ps) == Cardinality({q \in ps : q <= p})

\* The ranks of places are 1 to their number, in their order, each that of one
\* place.
LEMMA Ranks ==
  ASSUME NEW n \in Nat, NEW ps \in SUBSET (1..n)
  PROVE  /\ IsFiniteSet(ps) /\ Cardinality(ps) \in 0..n
         /\ \A p \in ps : Rank(p, ps) \in 1..Cardinality(ps)
         /\ \A p, q \in ps : p < q => Rank(p, ps) < Rank(q, ps)
         /\ \A k \in 1..Cardinality(ps) : \E p \in ps : Rank(p, ps) = k
  <1>1. IsFiniteSet(ps) /\ Cardinality(ps) \in 0..n
    <2>1. IsFiniteSet(1..n) /\ Cardinality(1..n) = n
      BY FS_Interval
    <2>2. IsFiniteSet(ps) /\ Cardinality(ps) <= n
      BY <2>1, FS_Subset
    <2>3. Cardinality(ps) \in Nat
      BY <2>2, FS_CardinalityType
    <2>4. QED
      BY <2>2, <2>3
  <1>0. \A p \in ps : p \in Nat
    OBVIOUS
  <1>2. ASSUME NEW p \in ps
        PROVE  /\ IsFiniteSet({q \in ps : q <= p})
               /\ Rank(p, ps) \in 1..Cardinality(ps)
    <2> DEFINE below == {q \in ps : q <= p}
    <2>1. IsFiniteSet(below) /\ Cardinality(below) <= Cardinality(ps)
      BY <1>1, FS_Subset
    <2>2. Cardinality(below) \in Nat /\ Cardinality(below) # 0
      <3>1. p \in below
        OBVIOUS
      <3>2. QED
        BY <2>1, <3>1, FS_EmptySet, FS_CardinalityType
    <2>3. QED
      BY <1>1, <2>1, <2>2 DEF Rank
  <1>3. ASSUME NEW p \in ps, NEW q \in ps, p < q
        PROVE  Rank(p, ps) < Rank(q, ps)
    <2> DEFINE low == {r \in ps : r <= p}
               high == {r \in ps : r <= q}
    <2>1. low \in SUBSET high /\ q \in high /\ q \notin low
      <3>1. p \in Nat /\ q \in Nat
        BY <1>0
      <3>2. ASSUME NEW r \in ps, r <= p PROVE r <= q
        BY <1>0, <1>3, <3>1, <3>2
      <3>3. q <= q /\ ~ (q <= p)
        BY <1>3, <3>1
      <3>4. QED
        BY <3>2, <3>3
    <2>2. IsFiniteSet(high) /\ low # high
      BY <1>2, <2>1
    <2>3. Cardinality(low) <= Cardinality(high) /\ Cardinality(low) # Cardinality(high)
      BY <2>1, <2>2, FS_Subset
    <2>4. QED
      BY <1>2, <2>3 DEF Rank
  <1>4. \A k \in 1..Cardinality(ps) : \E p \in ps : Rank(p, ps) = k
    <2> DEFINE f == [p \in ps |-> Rank(p, ps)]
               ks == 1..Cardinality(ps)
    <2>1. f \in Injection(ps, ks)
      <3>1. f \in [ps -> ks]
        BY <1>2
      <3>2. \A p, q \in ps : p # q => f[p] # f[q]
        <4>1. ASSUME NEW p \in ps, NEW q \in ps, p # q PROVE f[p] # f[q]
          <5>1. p < q \/ q < p
            BY <4>1, <1>0
          <5>2. Rank(p, ps) \in 1..Cardinality(ps) /\ Rank(q, ps) \in 1..Cardinality(ps)
            BY <1>2
          <5>3. Rank(p, ps) # Rank(q, ps)
            BY <5>1, <5>2, <1>3
          <5>4. QED
            BY <5>3
        <4>2. QED
          BY <4>1
      <3>3. QED
        BY <3>1, <3>2 DEF Injection, IsInjective
    <2>2. IsFiniteSet(ks) /\ Cardinality(ks) = Cardinality(ps)
      BY <1>1, FS_Interval
    <2>3. f \in Surjection(ps, ks)
      BY <2>1, <2>2, FS_Injection
    <2>4. QED
      BY <2>3 DEF Surjection
  <1>5. QED
    BY <1>1, <1>2, <1>3, <1>4

\* PlaceOf names every place once, in their order.
LEMMA KeptPlaces ==
  ASSUME NEW n \in Nat, NEW ps \in SUBSET (1..n)
  PROVE  /\ \A k \in 1..Cardinality(ps) : PlaceOf(k, ps) \in ps
         /\ \A p \in ps : \E k \in 1..Cardinality(ps) : PlaceOf(k, ps) = p
         /\ \A j, k \in 1..Cardinality(ps) : j < k => PlaceOf(j, ps) < PlaceOf(k, ps)
  <1>0. \A p \in ps : p \in Nat /\ Rank(p, ps) \in Nat
    BY Ranks
  <1>1. ASSUME NEW k \in 1..Cardinality(ps)
        PROVE  PlaceOf(k, ps) \in ps /\ Rank(PlaceOf(k, ps), ps) = k
    <2>1. \E p \in ps : Rank(p, ps) = k
      BY Ranks
    <2>2. QED
      BY <2>1, Zenon DEF PlaceOf, Rank
  <1>2. ASSUME NEW p \in ps PROVE \E k \in 1..Cardinality(ps) : PlaceOf(k, ps) = p
    <2>1. Rank(p, ps) \in 1..Cardinality(ps)
      BY Ranks
    <2>2. PICK k \in 1..Cardinality(ps) : k = Rank(p, ps)
      BY <2>1
    <2>3. PICK q \in ps : q = PlaceOf(k, ps) /\ Rank(q, ps) = Rank(p, ps)
      BY <1>1, <2>2
    <2>4. q < p \/ q = p \/ p < q
      BY <1>0
    <2>5. ~ (q < p) /\ ~ (p < q)
      <3>1. Rank(p, ps) \in Nat /\ Rank(q, ps) \in Nat
        BY <1>0
      <3>2. /\ q < p => Rank(q, ps) < Rank(p, ps)
            /\ p < q => Rank(p, ps) < Rank(q, ps)
        BY Ranks
      <3>3. QED
        BY <2>3, <3>1, <3>2
    <2>6. QED
      BY <2>3, <2>4, <2>5
  <1>3. ASSUME NEW j \in 1..Cardinality(ps), NEW k \in 1..Cardinality(ps), j < k
        PROVE  PlaceOf(j, ps) < PlaceOf(k, ps)
    <2> DEFINE p == PlaceOf(j, ps)
               q == PlaceOf(k, ps)
    <2>1. p \in ps /\ q \in ps /\ Rank(p, ps) = j /\ Rank(q, ps) = k
      BY <1>1
    <2>2. CASE p < q
      BY <2>2
    <2>3. CASE p = q
      BY <1>3, <2>1, <2>3
    <2>4. CASE q < p
      <3>1. Rank(q, ps) < Rank(p, ps)
        BY <2>1, <2>4, Ranks
      <3>2. QED
        BY <1>3, <2>1, <3>1
    <2>5. p < q \/ p = q \/ q < p
      <3>1. p \in Nat /\ q \in Nat
        BY <1>0, <2>1
      <3> HIDE DEF p, q
      <3>2. QED
        BY <3>1
    <2>6. QED
      BY <2>2, <2>3, <2>4, <2>5
  <1>4. QED
    BY <1>1, <1>2, <1>3

\* Of some places one is the first.
LEMMA LeastPlace ==
  ASSUME NEW n \in Nat, NEW ps \in SUBSET (1..n), ps # {}
  PROVE  \E p \in ps : \A q \in ps : p <= q
  <1>1. Cardinality(ps) \in Nat /\ Cardinality(ps) # 0
    <2>1. IsFiniteSet(ps) /\ Cardinality(ps) \in 0..n
      BY Ranks
    <2>2. Cardinality(ps) # 0
      BY <2>1, FS_EmptySet
    <2>3. QED
      BY <2>1, <2>2
  <1>2. 1 \in 1..Cardinality(ps)
    BY <1>1
  <1>3. PICK p \in ps : Rank(p, ps) = 1
    BY <1>2, Ranks
  <1>4. ASSUME NEW q \in ps PROVE p <= q
    <2>1. Rank(q, ps) \in 1..Cardinality(ps)
      BY Ranks
    <2>2. q < p => Rank(q, ps) < Rank(p, ps)
      BY Ranks
    <2>3. p \in Nat /\ q \in Nat
      OBVIOUS
    <2>4. ~ (q < p)
      BY <1>3, <2>1, <2>2
    <2>5. QED
      BY <2>3, <2>4
  <1>5. QED
    BY <1>4

\* Of some natural numbers one is the least.
LEMMA LeastNatural ==
  ASSUME NEW S \in SUBSET Nat, S # {}
  PROVE  \E m \in S : \A n \in S : m <= n
  <1>1. PICK b \in S : TRUE
    OBVIOUS
  <1>2. b \in Nat
    OBVIOUS
  <1> DEFINE ps == {k \in 1..(b + 1) : k - 1 \in S}
  <1>3. ps \in SUBSET (1..(b + 1)) /\ b + 1 \in ps
    BY <1>2
  <1>4. PICK p \in ps : \A q \in ps : p <= q
    <2>1. b + 1 \in Nat
      BY <1>2
    <2> HIDE DEF ps
    <2>2. QED
      BY <1>3, <2>1, LeastPlace
  <1>5. p - 1 \in S /\ p \in 1..(b + 1)
    OBVIOUS
  <1>6. ASSUME NEW n \in S PROVE p - 1 <= n
    <2>1. n \in Nat
      OBVIOUS
    <2>2. CASE n <= b
      <3>1. n + 1 \in ps
        BY <1>2, <2>1, <2>2
      <3>2. p <= n + 1
        BY <1>4, <3>1
      <3>3. QED
        BY <1>5, <2>1, <3>2
    <2>3. CASE ~ (n <= b)
      BY <1>2, <1>5, <2>1, <2>3
    <2>4. QED
      BY <2>2, <2>3
  <1>7. QED
    BY <1>5, <1>6

\* The selection holds what is at the places, all of it, in the order it had.
LEMMA KeptElements ==
  ASSUME NEW T, NEW s \in Seq(T), NEW ps \in SUBSET (1..Len(s))
  PROVE  /\ Kept(s, ps) \in Seq(T)
         /\ Len(Kept(s, ps)) = Cardinality(ps) /\ Len(Kept(s, ps)) \in 0..Len(s)
         /\ \A k \in 1..Len(Kept(s, ps)) :
              PlaceOf(k, ps) \in ps /\ Kept(s, ps)[k] = s[PlaceOf(k, ps)]
         /\ \A p \in ps : \E k \in 1..Len(Kept(s, ps)) :
              PlaceOf(k, ps) = p /\ Kept(s, ps)[k] = s[p]
         /\ \A j, k \in 1..Len(Kept(s, ps)) : j < k => PlaceOf(j, ps) < PlaceOf(k, ps)
  <1>1. Len(s) \in Nat /\ \A p \in ps : s[p] \in T
    OBVIOUS
  <1>2. Cardinality(ps) \in 0..Len(s)
    BY <1>1, Ranks
  <1> DEFINE n == Cardinality(ps)
             t == [k \in 1..n |-> s[PlaceOf(k, ps)]]
  <1>3. \A k \in 1..n : PlaceOf(k, ps) \in ps
    BY <1>1, KeptPlaces
  <1>4. \A p \in ps : \E k \in 1..n : PlaceOf(k, ps) = p
    BY <1>1, KeptPlaces
  <1>5. \A j, k \in 1..n : j < k => PlaceOf(j, ps) < PlaceOf(k, ps)
    BY <1>1, KeptPlaces
  <1>6. n \in Nat
    BY <1>2
  <1>7. Kept(s, ps) = t
    BY DEF Kept
  <1> HIDE DEF n
  <1>8. t \in Seq(T) /\ Len(t) = n
    <2>1. \A k \in 1..n : s[PlaceOf(k, ps)] \in T
      BY <1>1, <1>3
    <2>2. QED
      BY <1>6, <2>1
  <1>9. \A k \in 1..n : t[k] = s[PlaceOf(k, ps)]
    OBVIOUS
  <1> HIDE DEF t
  <1>10. n \in 0..Len(s)
    BY <1>2 DEF n
  <1>11. n = Cardinality(ps)
    BY DEF n
  <1>12. \A p \in ps : \E k \in 1..n : PlaceOf(k, ps) = p /\ t[k] = s[p]
    BY <1>4, <1>9
  <1>13. QED
    BY <1>3, <1>5, <1>7, <1>8, <1>9, <1>10, <1>11, <1>12

\* To keep all the places is to keep the sequence.
LEMMA KeptAll ==
  ASSUME NEW T, NEW s \in Seq(T), NEW ps, ps = 1..Len(s)
  PROVE  Kept(s, ps) = s
  <1> DEFINE t == Kept(s, ps)
  <1>1. Len(s) \in Nat /\ ps \in SUBSET (1..Len(s))
    OBVIOUS
  <1>2. Cardinality(ps) = Len(s)
    BY <1>1, FS_Interval
  <1>3. t \in Seq(T) /\ Len(t) = Len(s)
    BY <1>1, <1>2, KeptElements
  <1>4. ASSUME NEW k \in 1..Len(s) PROVE t[k] = s[k]
    <2>1. PICK p \in ps : Rank(p, ps) = k
      BY <1>1, <1>2, Ranks
    <2>2. p = k
      <3>1. {q \in ps : q <= p} = 1..p
        BY <1>1
      <3>2. Cardinality(1..p) = p
        BY FS_Interval
      <3>3. QED
        BY <2>1, <3>1, <3>2 DEF Rank
    <2>3. PICK j \in 1..Len(t) : PlaceOf(j, ps) = k /\ t[j] = s[k]
      BY <1>1, <2>2, KeptElements
    <2>4. j = k
      <3>1. PICK q \in ps : q = PlaceOf(j, ps) /\ Rank(q, ps) = j
        <4>1. \E q \in ps : Rank(q, ps) = j
          BY <1>1, <1>2, <1>3, Ranks
        <4>2. QED
          BY <4>1, Zenon DEF PlaceOf, Rank
      <3>2. QED
        BY <2>1, <2>2, <2>3, <3>1
    <2>5. QED
      BY <2>3, <2>4
  <1>5. QED
    BY <1>3, <1>4, SeqEqual

-----------------------------------------------------------------------------
(* The elements of a sequence                                              *)

\* The elements of what is appended, concatenated, cut and reversed.
LEMMA ElementsAppended ==
  ASSUME NEW T, NEW s \in Seq(T), NEW e \in T
  PROVE  Append(s, e) \in Seq(T) /\ ToSet(Append(s, e)) = ToSet(s) \union {e}
<1> DEFINE t == Append(s, e)
<1>1. /\ t \in Seq(T) /\ Len(t) = Len(s) + 1 /\ t[Len(s) + 1] = e
      /\ \A k \in 1..Len(s) : t[k] = s[k]
  BY AppendProperties
<1>2. Len(s) \in Nat /\ DOMAIN s = 1..Len(s) /\ DOMAIN t = 1..(Len(s) + 1)
  BY <1>1
<1> HIDE DEF t
<1>3. \A k \in 1..(Len(s) + 1) : k \in 1..Len(s) \/ k = Len(s) + 1
  BY <1>2
<1>4. Len(s) + 1 \in 1..(Len(s) + 1) /\ 1..Len(s) \subseteq 1..(Len(s) + 1)
  BY <1>2
<1>5. ToSet(t) = ToSet(s) \union {e}
  BY <1>1, <1>2, <1>3, <1>4 DEF ToSet
<1> QED BY <1>1, <1>5 DEF t

\* What is in one sequence followed by another is in one of them.
LEMMA ElementsConcatenated ==
  ASSUME NEW T, NEW s \in Seq(T), NEW u \in Seq(T)
  PROVE  s \o u \in Seq(T) /\ ToSet(s \o u) = ToSet(s) \union ToSet(u)
<1> DEFINE t == s \o u
<1>1. /\ t \in Seq(T) /\ Len(t) = Len(s) + Len(u)
      /\ \A k \in 1..(Len(s) + Len(u)) : t[k] = IF k <= Len(s) THEN s[k] ELSE u[k - Len(s)]
  BY ConcatProperties
<1>2. /\ Len(s) \in Nat /\ DOMAIN s = 1..Len(s)
      /\ Len(u) \in Nat /\ DOMAIN u = 1..Len(u) /\ DOMAIN t = 1..(Len(s) + Len(u))
  BY <1>1
<1> HIDE DEF t
<1>3. ASSUME NEW k \in DOMAIN t PROVE t[k] \in ToSet(s) \union ToSet(u)
  <2>1. CASE k <= Len(s)
    <3>1. k \in DOMAIN s /\ t[k] = s[k]
      BY <1>1, <1>2, <2>1
    <3> QED BY <3>1 DEF ToSet
  <2>2. CASE ~(k <= Len(s))
    <3>1. k - Len(s) \in DOMAIN u /\ t[k] = u[k - Len(s)]
      BY <1>1, <1>2, <2>2
    <3> QED BY <3>1 DEF ToSet
  <2> QED BY <2>1, <2>2
<1>4. ASSUME NEW k \in DOMAIN s PROVE s[k] \in ToSet(t)
  <2>1. k \in DOMAIN t /\ t[k] = s[k]
    BY <1>1, <1>2
  <2> QED BY <2>1 DEF ToSet
<1>5. ASSUME NEW k \in DOMAIN u PROVE u[k] \in ToSet(t)
  <2>1. PICK j \in 1..(Len(s) + Len(u)) : j = Len(s) + k
    BY <1>2
  <2>2. ~(j <= Len(s)) /\ j - Len(s) = k
    BY <1>2, <2>1
  <2>3. t[j] = u[k]
    BY <1>1, <2>2
  <2> QED BY <1>2, <2>3 DEF ToSet
<1>6. ToSet(t) = ToSet(s) \union ToSet(u)
  BY <1>3, <1>4, <1>5 DEF ToSet
<1> QED BY <1>1, <1>6 DEF t

\* The two parts a sequence is cut into, by their places.
LEMMA ElementsCut ==
  ASSUME NEW T, NEW s \in Seq(T), NEW m \in 0..Len(s)
  PROVE  LET first == SubSeq(s, 1, m)
             rest == SubSeq(s, m + 1, Len(s))
         IN /\ first \in Seq(T) /\ Len(first) = m /\ \A k \in 1..m : first[k] = s[k]
            /\ rest \in Seq(T) /\ Len(rest) = Len(s) - m
            /\ \A k \in 1..(Len(s) - m) : rest[k] = s[m + k]
<1> DEFINE first == SubSeq(s, 1, m)
           rest == SubSeq(s, m + 1, Len(s))
<1>1. Len(s) \in Nat /\ m \in Nat
  OBVIOUS
<1>2. first \in Seq(T) /\ Len(first) = m /\ \A k \in 1..m : first[k] = s[k]
  <2>1. \A k \in 1..m : s[k] \in T
    BY <1>1
  <2>2. first \in Seq(T) /\ Len(first) = IF 1 <= m THEN m - 1 + 1 ELSE 0
    BY <1>1, <2>1, SubSeqProperties
  <2>3. \A k \in 1..(m - 1 + 1) : first[k] = s[1 + k - 1]
    BY <1>1, <2>1, SubSeqProperties
  <2>4. Len(first) = m
    BY <1>1, <2>2
  <2>5. ASSUME NEW k \in 1..m PROVE first[k] = s[k]
    <3>1. k \in 1..(m - 1 + 1) /\ 1 + k - 1 = k
      BY <1>1
    <3> QED BY <2>3, <3>1, Zenon
  <2> HIDE DEF first
  <2> QED BY <2>2, <2>4, <2>5
<1>3. rest \in Seq(T) /\ Len(rest) = Len(s) - m /\ \A k \in 1..(Len(s) - m) : rest[k] = s[m + k]
  <2>1. \A k \in (m + 1)..Len(s) : s[k] \in T
    BY <1>1
  <2>2. rest \in Seq(T) /\ Len(rest) = IF m + 1 <= Len(s) THEN Len(s) - (m + 1) + 1 ELSE 0
    BY <1>1, <2>1, SubSeqProperties
  <2>3. \A k \in 1..(Len(s) - (m + 1) + 1) : rest[k] = s[(m + 1) + k - 1]
    BY <1>1, <2>1, SubSeqProperties
  <2> HIDE DEF rest
  <2> QED BY <1>1, <2>2, <2>3
<1> QED BY <1>2, <1>3

\* To reverse a sequence does not change what is in it.
LEMMA ElementsReversed ==
  ASSUME NEW T, NEW s \in Seq(T)
  PROVE  Reverse(s) \in Seq(T) /\ ToSet(Reverse(s)) = ToSet(s)
<1> DEFINE n == Len(s)
           t == [i \in 1..n |-> s[(n - i) + 1]]
<1>1. n \in Nat /\ DOMAIN s = 1..n /\ Reverse(s) = t /\ \A k \in 1..n : s[k] \in T
  BY DEF Reverse
<1> HIDE DEF n
<1>2. \A k \in 1..n : (n - k) + 1 \in 1..n /\ (n - ((n - k) + 1)) + 1 = k
  BY <1>1
<1>3. t \in Seq(T) /\ DOMAIN t = 1..n
  BY <1>1, <1>2
<1>4. \A k \in 1..n : t[k] = s[(n - k) + 1]
  OBVIOUS
<1> HIDE DEF t
<1>5. ASSUME NEW k \in 1..n PROVE t[k] \in ToSet(s) /\ s[k] \in ToSet(t)
  <2>1. PICK j \in 1..n : j = (n - k) + 1
    BY <1>2
  <2>2. t[k] = s[j] /\ t[j] = s[k]
    BY <1>2, <1>4, <2>1
  <2> QED BY <1>1, <1>3, <2>2 DEF ToSet
<1>6. ToSet(t) = ToSet(s)
  BY <1>1, <1>3, <1>5 DEF ToSet
<1> QED BY <1>1, <1>3, <1>6

\* The head and the tail hold elements of the sequence.
LEMMA ElementsAfterHead ==
  ASSUME NEW T, NEW s \in Seq(T), s # <<>>
  PROVE  Tail(s) \in Seq(T) /\ Head(s) \in ToSet(s) /\ ToSet(Tail(s)) \subseteq ToSet(s)
<1>1. Head(s) \in ToSet(s)
  <2>1. 1 \in DOMAIN s /\ Head(s) = s[1]
    OBVIOUS
  <2> QED BY <2>1 DEF ToSet
<1>2. Tail(s) \in Seq(T) /\ DOMAIN Tail(s) = 1..(Len(s) - 1) /\ \A k \in 1..(Len(s) - 1) : Tail(s)[k] = s[k + 1]
  BY HeadTailProperties
<1>3. \A k \in 1..(Len(s) - 1) : k + 1 \in DOMAIN s
  OBVIOUS
<1> QED BY <1>1, <1>2, <1>3 DEF ToSet

\* The elements of a sequence are what is at its places.
LEMMA ElementsOf ==
  ASSUME NEW T, NEW s \in Seq(T)
  PROVE  ToSet(s) \in SUBSET T /\ ToSet(s) = {s[k] : k \in 1..Len(s)}
BY DEF ToSet

\* The selection holds what is at the places that are kept.
LEMMA ElementsKept ==
  ASSUME NEW T, NEW s \in Seq(T), NEW ps \in SUBSET (1..Len(s))
  PROVE  Kept(s, ps) \in Seq(T) /\ ToSet(Kept(s, ps)) = {s[p] : p \in ps}
<1> DEFINE t == Kept(s, ps)
<1>1. /\ t \in Seq(T)
      /\ \A k \in 1..Len(t) : PlaceOf(k, ps) \in ps /\ t[k] = s[PlaceOf(k, ps)]
      /\ \A p \in ps : \E k \in 1..Len(t) : PlaceOf(k, ps) = p /\ t[k] = s[p]
  BY KeptElements
<1> HIDE DEF t
<1>2. ToSet(t) = {t[k] : k \in 1..Len(t)}
  BY <1>1, ElementsOf
<1>3. \A k \in 1..Len(t) : t[k] \in {s[p] : p \in ps}
  BY <1>1
<1>4. \A p \in ps : s[p] \in {t[k] : k \in 1..Len(t)}
  BY <1>1
<1> QED BY <1>1, <1>2, <1>3, <1>4 DEF t

\* A finite set as a sequence.
LEMMA ElementsListed ==
  ASSUME NEW S, IsFiniteSet(S)
  PROVE  SetToSeq(S) \in Seq(S) /\ Len(SetToSeq(S)) \in Nat
<1>1. Cardinality(S) \in Nat /\ ExistsBijection(1..Cardinality(S), S)
  BY FS_CardinalityType
<1>2. \E f \in [1..Cardinality(S) -> S] : IsInjective(f)
  BY <1>1 DEF ExistsBijection, Bijection, Injection
<1>3. SetToSeq(S) \in [1..Cardinality(S) -> S]
  BY <1>2, Zenon DEF SetToSeq
<1> QED BY <1>1, <1>3

\* The last of some places.
LEMMA LastPlace ==
  ASSUME NEW n \in Nat, NEW ps \in SUBSET (1..n), ps # {}
  PROVE  Max(ps) \in ps /\ \A k \in ps : Max(ps) >= k
<1> DEFINE qs == {k \in 1..n : (n - k) + 1 \in ps}
<1>1. \A p \in ps : p \in 1..n
  OBVIOUS
<1>2. \A p \in ps : (n - p) + 1 \in qs
  <2>1. \A p \in 1..n : (n - p) + 1 \in 1..n /\ (n - ((n - p) + 1)) + 1 = p
    OBVIOUS
  <2> QED BY <1>1, <2>1
<1>3. PICK q \in qs : \A r \in qs : q <= r
  <2>1. qs \in SUBSET (1..n) /\ qs # {}
    BY <1>2
  <2> HIDE DEF qs
  <2> QED BY <2>1, LeastPlace
<1>4. (n - q) + 1 \in ps /\ q \in 1..n
  OBVIOUS
<1>5. ASSUME NEW k \in ps PROVE (n - q) + 1 >= k
  <2>1. q <= (n - k) + 1
    BY <1>2, <1>3
  <2>2. k \in 1..n
    OBVIOUS
  <2> QED BY <1>4, <2>1, <2>2
<1>6. \E x \in ps : \A y \in ps : x >= y
  BY <1>4, <1>5
<1> QED BY <1>6 DEF Max

\* What is kept was at one of the places, and what is at one of them is kept.
LEMMA KeptOnly ==
  ASSUME NEW T, NEW s \in Seq(T), NEW ps \in SUBSET (1..Len(s))
  PROVE  /\ Kept(s, ps) \in Seq(T) /\ Len(Kept(s, ps)) \in Nat
         /\ \A k \in 1..Len(Kept(s, ps)) : \E p \in ps : Kept(s, ps)[k] = s[p]
         /\ \A p \in ps : \E k \in 1..Len(Kept(s, ps)) : Kept(s, ps)[k] = s[p]
<1> DEFINE t == Kept(s, ps)
<1>1. /\ t \in Seq(T)
      /\ \A k \in 1..Len(t) : PlaceOf(k, ps) \in ps /\ t[k] = s[PlaceOf(k, ps)]
      /\ \A p \in ps : \E k \in 1..Len(t) : PlaceOf(k, ps) = p /\ t[k] = s[p]
  BY KeptElements
<1> HIDE DEF t
<1>2. \A k \in 1..Len(t) : \E p \in ps : t[k] = s[p]
  BY <1>1
<1>3. \A p \in ps : \E k \in 1..Len(t) : t[k] = s[p]
  BY <1>1
<1>4. t \in Seq(T) /\ Len(t) \in Nat
  BY <1>1
<1> QED BY ONLY <1>2, <1>3, <1>4 DEF t

-----------------------------------------------------------------------------
(* The polling activity                                                    *)

ReadAttValues == AttValues \union {NoAttValue}
AttRec == [src : PolledAtts, value : ReadAttValues]
FutureRec == [left : {1, 2}, att : PolledAtts]

Coupled(attd, attn) ==
  Len(attd) = Len(attn) /\ \A i \in 1..Len(attn) : attd[i].src = attn[i]

TypeOKPolling ==
  /\ data_updpo \in [policy : UpdatePolicies, skip : BOOLEAN]
  /\ cmds \in Seq(PolledCmds)
  /\ v_attd \in Seq(AttRec) /\ v_attn \in Seq(PolledAtts)
  /\ m_attd_future \in Seq(FutureRec) /\ m_attn_future \in Seq(FutureRec)
  /\ wanted \subseteq PolledAtts \union PolledCmds
  /\ goodValue \in [PolledAtts -> ReadAttValues]
  /\ sentValue \in [PolledAtts -> ReadAttValues]

AlwaysSent == data_updpo.policy = "always" /\ ~data_updpo.skip

ValuesKept(attd) ==
  \A i \in 1..Len(attd) : attd[i].value # NoAttValue =>
    ~AlwaysSent /\ sentValue[attd[i].src] = attd[i].value

PollingInv ==
  /\ TypeOKPolling
  /\ PolledOrScheduled
  /\ ValuesKept(v_attd)
  /\ GoodValueSent

\* The element at a place leaves a sequence: the others keep their order.
LEMMA WithoutPlace ==
  ASSUME NEW T, NEW s \in Seq(T), NEW i \in 1..Len(s)
  PROVE  /\ RemoveAt(s, i) \in Seq(T) /\ Len(RemoveAt(s, i)) = Len(s) - 1
         /\ \A k \in 1..(Len(s) - 1) : RemoveAt(s, i)[k] = s[IF k < i THEN k ELSE k + 1]
<1> DEFINE before == SubSeq(s, 1, i - 1)
           after == SubSeq(s, i + 1, Len(s))
<1>1. Len(s) \in Nat /\ i \in Nat
  OBVIOUS
<1>2. before \in Seq(T) /\ Len(before) = i - 1 /\ \A k \in 1..(i - 1) : before[k] = s[k]
  <2>1. \A k \in 1..(i - 1) : s[k] \in T
    BY <1>1
  <2>2. before \in Seq(T) /\ Len(before) = IF 1 <= i - 1 THEN (i - 1) - 1 + 1 ELSE 0
    BY <1>1, <2>1, SubSeqProperties
  <2>3. \A k \in 1..((i - 1) - 1 + 1) : before[k] = s[1 + k - 1]
    BY <1>1, <2>1, SubSeqProperties
  <2> HIDE DEF before
  <2> QED BY <1>1, <2>2, <2>3
<1>3. after \in Seq(T) /\ Len(after) = Len(s) - i /\ \A k \in 1..(Len(s) - i) : after[k] = s[i + k]
  <2>1. \A k \in (i + 1)..Len(s) : s[k] \in T
    BY <1>1
  <2>2. after \in Seq(T) /\ Len(after) = IF i + 1 <= Len(s) THEN Len(s) - (i + 1) + 1 ELSE 0
    BY <1>1, <2>1, SubSeqProperties
  <2>3. \A k \in 1..(Len(s) - (i + 1) + 1) : after[k] = s[(i + 1) + k - 1]
    BY <1>1, <2>1, SubSeqProperties
  <2> HIDE DEF after
  <2> QED BY <1>1, <2>2, <2>3
<1>4. RemoveAt(s, i) = before \o after
  BY DEF RemoveAt
<1> HIDE DEF before, after
<1>5. /\ before \o after \in Seq(T) /\ Len(before \o after) = (i - 1) + (Len(s) - i)
      /\ \A k \in 1..((i - 1) + (Len(s) - i)) :
           (before \o after)[k] = IF k <= i - 1 THEN before[k] ELSE after[k - (i - 1)]
  <2>1. /\ before \o after \in Seq(T) /\ Len(before \o after) = Len(before) + Len(after)
        /\ \A k \in 1..(Len(before) + Len(after)) :
             (before \o after)[k] = IF k <= Len(before) THEN before[k] ELSE after[k - Len(before)]
    BY <1>2, <1>3, ConcatProperties
  <2> QED BY <1>2, <1>3, <2>1
<1>6. ASSUME NEW k \in 1..(Len(s) - 1)
      PROVE  (before \o after)[k] = s[IF k < i THEN k ELSE k + 1]
  <2>1. (before \o after)[k] = IF k <= i - 1 THEN before[k] ELSE after[k - (i - 1)]
    BY <1>1, <1>5
  <2>2. CASE k < i
    BY <1>1, <1>2, <2>1, <2>2
  <2>3. CASE ~(k < i)
    <3>1. k - (i - 1) \in 1..(Len(s) - i) /\ i + (k - (i - 1)) = k + 1
      BY <1>1, <2>3
    <3>2. ~(k <= i - 1)
      BY <1>1, <2>3
    <3>3. after[k - (i - 1)] = s[k + 1]
      BY <1>3, <3>1
    <3> QED BY <2>1, <2>3, <3>2, <3>3
  <2> QED BY <2>2, <2>3
<1> QED BY <1>1, <1>4, <1>5, <1>6

\* Min is one of the places, and none of them is before it.
LEMMA FirstPlace ==
  ASSUME NEW n \in Nat, NEW ps \in SUBSET (1..n), ps # {}
  PROVE  Min(ps) \in ps /\ \A k \in ps : Min(ps) <= k
<1>1. \E p \in ps : \A q \in ps : p <= q
  BY LeastPlace
<1> QED BY <1>1 DEF Min

\* The first entry of a source leaves the two vectors at the same place, and
\* no other source is lost.
LEMMA FirstRemoved ==
  ASSUME NEW attd \in Seq(AttRec), NEW attn \in Seq(PolledAtts), Coupled(attd, attn),
         NEW a \in PolledAtts,
         NEW d, d = WithoutSrc(attd, a),
         NEW n, n = RemoveFirst(attn, a)
  PROVE  /\ d \in Seq(AttRec) /\ n \in Seq(PolledAtts) /\ Coupled(d, n)
         /\ \A b \in PolledAtts : b # a /\ Contains(attn, b) => Contains(n, b)
         /\ \A i \in 1..Len(d) : \E j \in 1..Len(attd) : d[i] = attd[j]
<1> DEFINE ps == {i \in 1..Len(attn) : attn[i] = a}
<1>1. Len(attd) = Len(attn) /\ Len(attn) \in Nat /\ \A i \in 1..Len(attn) : attd[i].src = attn[i]
  BY DEF Coupled
<1>2. {i \in 1..Len(attd) : attd[i].src = a} = ps
  BY <1>1
<1>3. CASE ps = {}
  <2>1. d = attd
    BY <1>2, <1>3 DEF WithoutSrc, RemoveFirstMatch
  <2>2. n = attn
    BY <1>3 DEF RemoveFirst
  <2> QED BY <2>1, <2>2
<1>4. CASE ps # {}
  <2> DEFINE p == Min(ps)
  <2>1. ps \in SUBSET (1..Len(attn))
    OBVIOUS
  <2>2. p \in ps
    <3> HIDE DEF ps
    <3> QED BY <1>1, <1>4, <2>1, FirstPlace
  <2>3. d = RemoveAt(attd, p)
    <3>1. SelectInSeq(attd, LAMBDA r : r.src = a) = p
      BY <1>2, <1>4 DEF SelectInSeq
    <3>2. \E i \in 1..Len(attd) : attd[i].src = a
      BY <1>2, <1>4
    <3>3. d = RemoveAt(attd, SelectInSeq(attd, LAMBDA r : r.src = a))
      BY <3>2 DEF WithoutSrc, RemoveFirstMatch
    <3> QED BY <3>1, <3>3
  <2>4. n = RemoveAt(attn, p)
    <3>1. SelectInSeq(attn, LAMBDA v : v = a) = p
      BY <1>4 DEF SelectInSeq
    <3>2. n = RemoveAt(attn, SelectInSeq(attn, LAMBDA v : v = a))
      BY <1>4 DEF RemoveFirst
    <3> QED BY <3>1, <3>2
  <2>5. p \in 1..Len(attn) /\ attn[p] = a
    BY <2>2
  <2> HIDE DEF p, ps
  <2>6. /\ n \in Seq(PolledAtts) /\ Len(n) = Len(attn) - 1
        /\ \A k \in 1..(Len(attn) - 1) : n[k] = attn[IF k < p THEN k ELSE k + 1]
    BY <2>4, <2>5, WithoutPlace
  <2>7. /\ d \in Seq(AttRec) /\ Len(d) = Len(attd) - 1
        /\ \A k \in 1..(Len(attd) - 1) : d[k] = attd[IF k < p THEN k ELSE k + 1]
    <3>1. p \in 1..Len(attd)
      BY <1>1, <2>5
    <3> QED BY <2>3, <3>1, WithoutPlace
  <2>8. Coupled(d, n)
    <3>1. ASSUME NEW k \in 1..Len(n) PROVE d[k].src = n[k]
      <4>1. PICK j \in 1..Len(attn) : j = IF k < p THEN k ELSE k + 1
        BY <1>1, <2>5, <2>6
      <4> QED BY <1>1, <2>6, <2>7, <4>1
    <3> QED BY <1>1, <2>6, <2>7, <3>1 DEF Coupled
  <2>9. ASSUME NEW b \in PolledAtts, b # a, Contains(attn, b) PROVE Contains(n, b)
    <3>1. PICK i \in 1..Len(attn) : attn[i] = b
      BY <2>9 DEF Contains
    <3>2. i # p
      BY <2>5, <2>9, <3>1
    <3>3. PICK k \in 1..(Len(attn) - 1) : i = IF k < p THEN k ELSE k + 1
      <4>1. CASE i < p
        <5>1. i \in 1..(Len(attn) - 1)
          BY <1>1, <2>5, <4>1
        <5> QED BY <4>1, <5>1
      <4>2. CASE i > p
        <5>1. i - 1 \in 1..(Len(attn) - 1) /\ ~(i - 1 < p) /\ i = (i - 1) + 1
          BY <1>1, <2>5, <4>2
        <5> QED BY <5>1
      <4> QED BY <1>1, <2>5, <3>2, <4>1, <4>2
    <3>4. n[k] = b /\ k \in 1..Len(n)
      BY <2>6, <3>1, <3>3
    <3> QED BY <3>4 DEF Contains
  <2>10. ASSUME NEW k \in 1..Len(d) PROVE \E j \in 1..Len(attd) : d[k] = attd[j]
    <3>1. PICK j \in 1..Len(attn) : j = IF k < p THEN k ELSE k + 1
      BY <1>1, <2>5, <2>7
    <3> QED BY <1>1, <2>7, <3>1
  <2> QED BY <2>6, <2>7, <2>8, <2>9, <2>10
<1> QED BY <1>3, <1>4

\* What is due joins the vectors, the rest waits one execution less: the
\* vectors stay coupled and no source is lost.
LEMMA DueJoins ==
  ASSUME TypeOKPolling, PolledOrScheduled
  PROVE  /\ AttdNow \in Seq(AttRec) /\ AttnNow \in Seq(PolledAtts) /\ Coupled(AttdNow, AttnNow)
         /\ Later(m_attd_future) = Later(m_attn_future) /\ Later(m_attn_future) \in Seq(FutureRec)
         /\ \A i \in 1..Len(AttdNow) : \/ AttdNow[i].value = NoAttValue
                                       \/ \E j \in 1..Len(v_attd) : AttdNow[i] = v_attd[j]
         /\ \A a \in wanted \intersect PolledAtts :
              \/ Contains(AttnNow, a)
              \/ \E i \in 1..Len(Later(m_attn_future)) : Later(m_attn_future)[i].att = a
<1> DEFINE fut == m_attn_future
           due == {k \in DOMAIN fut : fut[k].left = 1}
           later == {k \in DOMAIN fut : fut[k].left > 1}
           dues == Kept(fut, due)
           rest == Kept(fut, later)
           joind == [i \in 1..Len(dues) |-> [src |-> dues[i].att, value |-> NoAttValue]]
           joinn == [i \in 1..Len(dues) |-> dues[i].att]
<1>1. /\ fut \in Seq(FutureRec) /\ m_attd_future = fut /\ Len(fut) \in Nat
      /\ v_attd \in Seq(AttRec) /\ v_attn \in Seq(PolledAtts) /\ Coupled(v_attd, v_attn)
  <2>1. fut \in Seq(FutureRec) /\ m_attd_future = fut /\ Coupled(v_attd, v_attn)
    BY DEF TypeOKPolling, PolledOrScheduled, Coupled
  <2>2. v_attd \in Seq(AttRec) /\ v_attn \in Seq(PolledAtts)
    BY DEF TypeOKPolling
  <2> QED BY <2>1, <2>2
<1>2. due \in SUBSET (1..Len(fut)) /\ later \in SUBSET (1..Len(fut))
  BY <1>1
<1>3. AttdNow = v_attd \o joind /\ AttnNow = v_attn \o joinn
  BY <1>1 DEF AttdNow, AttnNow, Due
<1>4. Later(m_attd_future) = Later(fut) /\ Later(fut) = [i \in 1..Len(rest) |-> [rest[i] EXCEPT !.left = @ - 1]]
  BY <1>1 DEF Later
<1> HIDE DEF due, later, fut
<1>5. /\ dues \in Seq(FutureRec) /\ Len(dues) \in Nat
      /\ \A p \in due : \E k \in 1..Len(dues) : dues[k] = fut[p]
  <2>1. fut \in Seq(FutureRec) /\ due \in SUBSET (1..Len(fut))
    BY <1>1, <1>2
  <2>2. /\ dues \in Seq(FutureRec)
        /\ \A p \in due : \E k \in 1..Len(dues) : PlaceOf(k, due) = p /\ dues[k] = fut[p]
    BY <2>1, KeptElements
  <2> HIDE DEF dues
  <2> QED BY <2>2
<1>6. /\ rest \in Seq(FutureRec) /\ Len(rest) \in Nat
      /\ \A p \in later : \E k \in 1..Len(rest) : rest[k] = fut[p]
      /\ \A k \in 1..Len(rest) : PlaceOf(k, later) \in later /\ rest[k] = fut[PlaceOf(k, later)]
  <2>1. fut \in Seq(FutureRec) /\ later \in SUBSET (1..Len(fut))
    BY <1>1, <1>2
  <2>2. /\ rest \in Seq(FutureRec)
        /\ \A p \in later : \E k \in 1..Len(rest) : PlaceOf(k, later) = p /\ rest[k] = fut[p]
        /\ \A k \in 1..Len(rest) : PlaceOf(k, later) \in later /\ rest[k] = fut[PlaceOf(k, later)]
    BY <2>1, KeptElements
  <2> HIDE DEF rest
  <2> QED BY <2>2
<1> HIDE DEF dues, rest
<1>7. joind \in Seq(AttRec) /\ joinn \in Seq(PolledAtts) /\ Len(joind) = Len(dues) /\ Len(joinn) = Len(dues)
  <2>1. \A i \in 1..Len(dues) : dues[i].att \in PolledAtts
    <3>1. \A i \in 1..Len(dues) : dues[i] \in FutureRec
      BY <1>5
    <3> QED BY <3>1 DEF FutureRec
  <2>2. \A i \in 1..Len(dues) : [src |-> dues[i].att, value |-> NoAttValue] \in AttRec
    BY <2>1 DEF AttRec, ReadAttValues
  <2>3. joind \in Seq(AttRec) /\ Len(joind) = Len(dues)
    BY <1>5, <2>2
  <2>4. joinn \in Seq(PolledAtts) /\ Len(joinn) = Len(dues)
    BY <1>5, <2>1
  <2> QED BY <2>3, <2>4
<1>8. \A i \in 1..Len(dues) : joind[i].src = joinn[i] /\ joind[i].value = NoAttValue /\ joinn[i] = dues[i].att
  OBVIOUS
<1> HIDE DEF joind, joinn
<1>9. Len(v_attd) = Len(v_attn) /\ Len(v_attn) \in Nat /\ \A i \in 1..Len(v_attn) : v_attd[i].src = v_attn[i]
  BY <1>1 DEF Coupled
<1>10. /\ AttdNow \in Seq(AttRec) /\ Len(AttdNow) = Len(v_attd) + Len(joind)
       /\ \A i \in 1..(Len(v_attd) + Len(joind)) :
            AttdNow[i] = IF i <= Len(v_attd) THEN v_attd[i] ELSE joind[i - Len(v_attd)]
  <2> DEFINE v == v_attd
             t == v \o joind
  <2>1. v \in Seq(AttRec) /\ joind \in Seq(AttRec) /\ AttdNow = t
    BY <1>1, <1>3, <1>7
  <2> HIDE DEF v
  <2>2. /\ t \in Seq(AttRec) /\ Len(t) = Len(v) + Len(joind)
        /\ \A i \in 1..(Len(v) + Len(joind)) :
             t[i] = IF i <= Len(v) THEN v[i] ELSE joind[i - Len(v)]
    BY <2>1, ConcatProperties
  <2> HIDE DEF t
  <2> QED BY <2>1, <2>2 DEF v
<1>11. /\ AttnNow \in Seq(PolledAtts) /\ Len(AttnNow) = Len(v_attn) + Len(joinn)
       /\ \A i \in 1..(Len(v_attn) + Len(joinn)) :
            AttnNow[i] = IF i <= Len(v_attn) THEN v_attn[i] ELSE joinn[i - Len(v_attn)]
  <2> DEFINE v == v_attn
             t == v \o joinn
  <2>1. v \in Seq(PolledAtts) /\ joinn \in Seq(PolledAtts) /\ AttnNow = t
    BY <1>1, <1>3, <1>7
  <2> HIDE DEF v
  <2>2. /\ t \in Seq(PolledAtts) /\ Len(t) = Len(v) + Len(joinn)
        /\ \A i \in 1..(Len(v) + Len(joinn)) :
             t[i] = IF i <= Len(v) THEN v[i] ELSE joinn[i - Len(v)]
    BY <2>1, ConcatProperties
  <2> HIDE DEF t
  <2> QED BY <2>1, <2>2 DEF v
<1>12. ASSUME NEW i \in 1..Len(AttnNow)
       PROVE  /\ AttdNow[i].src = AttnNow[i]
              /\ \/ AttdNow[i].value = NoAttValue
                 \/ \E j \in 1..Len(v_attd) : AttdNow[i] = v_attd[j]
  <2>1. CASE i <= Len(v_attn)
    <3>1. AttdNow[i] = v_attd[i] /\ AttnNow[i] = v_attn[i] /\ i \in 1..Len(v_attn)
      <4>1. i \in 1..(Len(v_attn) + Len(joinn)) /\ i \in 1..(Len(v_attd) + Len(joind)) /\ i <= Len(v_attd)
        BY <1>7, <1>9, <1>11, <2>1
      <4> QED BY <1>5, <1>7, <1>9, <1>10, <1>11, <2>1, <4>1
    <3> QED BY <1>9, <3>1
  <2>2. CASE ~(i <= Len(v_attn))
    <3>1. PICK k \in 1..Len(dues) : k = i - Len(v_attn)
      BY <1>5, <1>7, <1>9, <1>11, <2>2
    <3>2. AttdNow[i] = joind[k] /\ AttnNow[i] = joinn[k]
      BY <1>5, <1>7, <1>9, <1>10, <1>11, <2>2, <3>1
    <3> QED BY <1>8, <3>2
  <2> QED BY <2>1, <2>2
<1>13. Coupled(AttdNow, AttnNow)
  BY <1>7, <1>9, <1>10, <1>11, <1>12 DEF Coupled
<1>14. Later(fut) \in Seq(FutureRec) /\ Len(Later(fut)) = Len(rest)
  <2>1. ASSUME NEW k \in 1..Len(rest) PROVE [rest[k] EXCEPT !.left = @ - 1] \in FutureRec
    <3>1. rest[k] \in FutureRec /\ rest[k].left > 1
      <4>1. PICK p \in later : rest[k] = fut[p]
        BY <1>6
      <4>2. fut[p].left > 1
        BY <4>1 DEF later
      <4> QED BY <1>6, <4>1, <4>2
    <3> QED BY <3>1 DEF FutureRec
  <2> QED BY <1>4, <1>6, <2>1
<1>15. \A k \in 1..Len(rest) : Later(fut)[k].att = rest[k].att
  <2>1. \A k \in 1..Len(rest) : rest[k] \in FutureRec
    BY <1>6
  <2> QED BY <1>4, <2>1 DEF FutureRec
<1>16. ASSUME NEW a \in wanted \intersect PolledAtts
       PROVE  \/ Contains(AttnNow, a)
              \/ \E i \in 1..Len(Later(fut)) : Later(fut)[i].att = a
  <2>1. CASE Contains(v_attn, a)
    <3>1. PICK i \in 1..Len(v_attn) : v_attn[i] = a
      BY <2>1 DEF Contains
    <3>2. Len(v_attn) \in Nat /\ Len(joinn) \in Nat /\ Len(AttnNow) = Len(v_attn) + Len(joinn)
      BY <1>5, <1>7, <1>9, <1>11
    <3>3. i \in 1..(Len(v_attn) + Len(joinn)) /\ i <= Len(v_attn)
      BY <3>1, <3>2
    <3>4. i \in 1..Len(AttnNow) /\ AttnNow[i] = a
      BY <1>11, <3>1, <3>2, <3>3
    <3> QED BY <3>4 DEF Contains
  <2>2. CASE ~Contains(v_attn, a)
    <3>1. PICK p \in 1..Len(fut) : fut[p].att = a
      BY <2>2 DEF PolledOrScheduled, fut
    <3>2. fut[p] \in FutureRec
      BY <1>1
    <3>3. CASE fut[p].left = 1
      <4>1. p \in due
        BY <1>1, <3>3 DEF due
      <4>2. PICK k \in 1..Len(dues) : dues[k] = fut[p]
        BY <1>5, <4>1
      <4>3. joinn[k] = a
        BY <1>8, <3>1, <4>2
      <4>4. PICK i \in 1..Len(AttnNow) : i = Len(v_attn) + k
        BY <1>5, <1>7, <1>9, <1>11
      <4>5. AttnNow[i] = a
        BY <1>5, <1>7, <1>9, <1>11, <4>3, <4>4
      <4> QED BY <4>5 DEF Contains
    <3>4. CASE fut[p].left = 2
      <4>1. p \in later
        BY <1>1, <3>4 DEF later
      <4>2. PICK k \in 1..Len(rest) : rest[k] = fut[p]
        BY <1>6, <4>1
      <4> QED BY <1>14, <1>15, <3>1, <4>2
    <3> QED BY <3>2, <3>3, <3>4 DEF FutureRec
  <2> QED BY <2>1, <2>2
<1>17. \A i \in 1..Len(AttdNow) : \/ AttdNow[i].value = NoAttValue
                                  \/ \E j \in 1..Len(v_attd) : AttdNow[i] = v_attd[j]
  BY <1>12, <1>13 DEF Coupled
<1>18. Later(m_attd_future) = Later(m_attn_future) /\ m_attn_future = fut
  BY <1>4 DEF fut
<1> QED BY <1>10, <1>11, <1>13, <1>14, <1>16, <1>17, <1>18

\* An execution, whatever was read: what is polled stays as it was asked for.
LEMMA ScheduleKept ==
  ASSUME TypeOKPolling, PolledOrScheduled,
         NEW attd \in Seq(AttRec), Coupled(attd, AttnNow), AddScheduled(attd),
         UNCHANGED <<cmds, wanted>>
  PROVE  /\ PolledOrScheduled'
         /\ v_attd' \in Seq(AttRec) /\ v_attn' \in Seq(PolledAtts)
         /\ m_attd_future' \in Seq(FutureRec) /\ m_attn_future' \in Seq(FutureRec)
<1>1. /\ v_attd' = attd /\ v_attn' = AttnNow
      /\ m_attd_future' = Later(m_attd_future) /\ m_attn_future' = Later(m_attn_future)
  BY DEF AddScheduled
<1>2. /\ AttnNow \in Seq(PolledAtts)
      /\ Later(m_attd_future) = Later(m_attn_future) /\ Later(m_attn_future) \in Seq(FutureRec)
  BY DueJoins
<1>3. \A a \in wanted \intersect PolledAtts :
        \/ Contains(AttnNow, a)
        \/ \E i \in 1..Len(Later(m_attn_future)) : Later(m_attn_future)[i].att = a
  BY DueJoins
<1>4. \A c \in wanted \intersect PolledCmds : Contains(cmds, c)
  BY DEF PolledOrScheduled
<1>5. PolledOrScheduled'
  BY <1>1, <1>2, <1>3, <1>4, Zenon DEF PolledOrScheduled, Coupled
<1> QED BY <1>1, <1>2, <1>5

\* A poll that reads no attribute.
LEMMA ReadNothingKeeps ==
  ASSUME PollingInv, ReadNothing(AttdNow), UNCHANGED <<pollingConf, cmds, wanted>>
  PROVE  PollingInv'
<1>1. /\ TypeOKPolling /\ PolledOrScheduled /\ ValuesKept(v_attd) /\ GoodValueSent
  BY DEF PollingInv
<1>2. AddScheduled(AttdNow) /\ goodValue' = goodValue
  BY DEF ReadNothing
<1>3. AttdNow \in Seq(AttRec) /\ Coupled(AttdNow, AttnNow)
  BY <1>1, DueJoins
<1>4. /\ PolledOrScheduled'
      /\ v_attd' \in Seq(AttRec) /\ v_attn' \in Seq(PolledAtts)
      /\ m_attd_future' \in Seq(FutureRec) /\ m_attn_future' \in Seq(FutureRec)
  BY <1>1, <1>2, <1>3, ScheduleKept
<1>5. ValuesKept(AttdNow)
  <2>1. ASSUME NEW i \in 1..Len(AttdNow), AttdNow[i].value # NoAttValue
        PROVE  ~AlwaysSent /\ sentValue[AttdNow[i].src] = AttdNow[i].value
    <3>1. PICK j \in 1..Len(v_attd) : AttdNow[i] = v_attd[j]
      BY <1>1, <2>1, DueJoins
    <3> QED BY <1>1, <2>1, <3>1 DEF ValuesKept
  <2> QED BY <2>1 DEF ValuesKept
<1>6. sentValue' = sentValue
  <2>1. ASSUME NEW a \in PolledAtts PROVE sentValue'[a] = sentValue[a]
    <3> DEFINE kept == {d \in ToSet(AttdNow) : d.src = a /\ d.value # NoAttValue}
    <3>1. sentValue'[a] = IF kept = {} THEN sentValue[a] ELSE (CHOOSE d \in kept : TRUE).value
      BY DEF ReadNothing
    <3>2. ASSUME NEW d \in kept PROVE d.value = sentValue[a]
      <4>1. PICK i \in 1..Len(AttdNow) : AttdNow[i] = d
        BY <1>3 DEF ToSet
      <4> QED BY <1>5, <4>1 DEF ValuesKept
    <3> HIDE DEF kept
    <3>3. kept # {} => (CHOOSE d \in kept : TRUE) \in kept
      OBVIOUS
    <3> QED BY <3>1, <3>2, <3>3
  <2>2. sentValue' = [a \in PolledAtts |-> sentValue'[a]] /\ sentValue \in [PolledAtts -> ReadAttValues]
    BY <1>1 DEF ReadNothing, TypeOKPolling
  <2> QED BY <2>1, <2>2
<1>7. TypeOKPolling'
  BY <1>1, <1>2, <1>4, <1>6 DEF TypeOKPolling, pollingConf
<1>8. ValuesKept(v_attd)'
  BY <1>2, <1>5, <1>6 DEF AddScheduled, ValuesKept, AlwaysSent, pollingConf
<1>9. GoodValueSent'
  BY <1>1, <1>2, <1>6 DEF GoodValueSent
<1> QED BY <1>4, <1>7, <1>8, <1>9 DEF PollingInv

\* A poll that reads the attributes: what is sent is the last good value, and a
\* value is kept only where the policy does not send it every time.
LEMMA ReadAttsKeeps ==
  ASSUME PollingInv, NEW value \in [ToSet(AttnNow) -> ReadAttValues],
         ReadAtts(AttnNow, AttdNow, value), UNCHANGED <<pollingConf, cmds, wanted>>
  PROVE  PollingInv'
<1> DEFINE names == AttnNow
           attd == AttdNow
           sent == {i \in 1..Len(names) :
                      IF AlwaysSent THEN value[names[i]] # NoAttValue
                      ELSE Changed(names, attd, value, i)}
           read == IF AlwaysSent THEN attd
                   ELSE [i \in 1..Len(attd) |-> [attd[i] EXCEPT !.value = value[names[i]]]]
<1>1. TypeOKPolling /\ PolledOrScheduled /\ ValuesKept(v_attd) /\ GoodValueSent
  BY DEF PollingInv
<1>2. attd \in Seq(AttRec) /\ names \in Seq(PolledAtts) /\ Coupled(attd, names)
  BY <1>1, DueJoins
<1>3. ValuesKept(attd)
  <2>1. ASSUME NEW i \in 1..Len(AttdNow), AttdNow[i].value # NoAttValue
        PROVE  ~AlwaysSent /\ sentValue[AttdNow[i].src] = AttdNow[i].value
    <3>1. PICK j \in 1..Len(v_attd) : AttdNow[i] = v_attd[j]
      BY <1>1, <2>1, DueJoins
    <3> QED BY <1>1, <2>1, <3>1 DEF ValuesKept
  <2> QED BY <2>1 DEF ValuesKept
<1>4. /\ AddScheduled(read)
      /\ sentValue' = [a \in PolledAtts |->
           IF \E i \in sent : attd[i].src = a THEN value[names[CHOOSE i \in sent : attd[i].src = a]]
           ELSE sentValue[a]]
      /\ goodValue' = [a \in PolledAtts |->
           IF Contains(names, a) /\ value[a] # NoAttValue THEN value[a] ELSE goodValue[a]]
  BY DEF ReadAtts, AlwaysSent
<1>5. \A i \in 1..Len(names) : names[i] \in ToSet(AttnNow)
  BY <1>2 DEF ToSet
<1> HIDE DEF names, attd
<1>6. /\ Len(attd) = Len(names) /\ Len(names) \in Nat
      /\ \A i \in 1..Len(names) : /\ attd[i] \in AttRec /\ attd[i].src = names[i]
                                  /\ names[i] \in PolledAtts /\ value[names[i]] \in ReadAttValues
  <2>1. \A i \in 1..Len(names) : value[names[i]] \in ReadAttValues
    BY <1>5
  <2> QED BY <1>2, <2>1 DEF Coupled

\* Who is read without error has been sent what was read.
<1>7. ASSUME NEW a \in PolledAtts, NEW j \in 1..Len(names), names[j] = a, value[a] # NoAttValue
      PROVE  sentValue'[a] = value[a]
  <2>1. CASE \E i \in sent : attd[i].src = a
    <3> DEFINE i == CHOOSE k \in sent : attd[k].src = a
    <3>1. i \in sent /\ attd[i].src = a
      BY <2>1
    <3>2. names[i] = a
      BY <1>6, <3>1
    <3> HIDE DEF sent
    <3> QED BY <1>4, <2>1, <3>2
  <2>2. CASE ~ \E i \in sent : attd[i].src = a
    <3>1. j \notin sent
      BY <1>6, <1>7, <2>2
    <3>2. ~AlwaysSent /\ attd[j].value = value[a]
      BY <1>7, <3>1 DEF Changed
    <3>3. sentValue[a] = value[a]
      BY <1>3, <1>6, <1>7, <3>2 DEF ValuesKept
    <3> HIDE DEF sent
    <3> QED BY <1>4, <2>2, <3>3
  <2> QED BY <2>1, <2>2

\* Who is not read is not sent anything.
<1>8. ASSUME NEW a \in PolledAtts, ~(\E j \in 1..Len(names) : names[j] = a /\ value[a] # NoAttValue)
      PROVE  sentValue'[a] = sentValue[a]
  <2>1. ASSUME NEW i \in sent, attd[i].src = a PROVE FALSE
    <3>1. i \in 1..Len(names) /\ names[i] = a
      BY <1>6, <2>1
    <3>2. value[names[i]] # NoAttValue
      BY <2>1 DEF Changed
    <3> QED BY <1>8, <3>1, <3>2
  <2> HIDE DEF sent
  <2> QED BY <1>4, <2>1
<1>9. sentValue' \in [PolledAtts -> ReadAttValues]
  <2>1. ASSUME NEW a \in PolledAtts PROVE sentValue'[a] \in ReadAttValues
    <3>1. CASE \E j \in 1..Len(names) : names[j] = a /\ value[a] # NoAttValue
      BY <1>6, <1>7, <3>1
    <3>2. CASE ~(\E j \in 1..Len(names) : names[j] = a /\ value[a] # NoAttValue)
      BY <1>1, <1>8, <3>2 DEF TypeOKPolling
    <3> QED BY <3>1, <3>2
  <2>2. sentValue' = [a \in PolledAtts |-> sentValue'[a]]
    <3> HIDE DEF sent
    <3> QED BY <1>4
  <2> QED BY <2>1, <2>2
<1>10. goodValue' \in [PolledAtts -> ReadAttValues]
  <2>1. ASSUME NEW a \in PolledAtts PROVE goodValue'[a] \in ReadAttValues
    BY <1>1, <1>4, <1>6 DEF TypeOKPolling, Contains
  <2>2. goodValue' = [a \in PolledAtts |-> goodValue'[a]]
    BY <1>4
  <2> QED BY <2>1, <2>2
<1>11. /\ read \in Seq(AttRec) /\ Len(read) = Len(names) /\ Coupled(read, names)
       /\ \A i \in 1..Len(read) : read[i].src = names[i] /\
            read[i].value = IF AlwaysSent THEN attd[i].value ELSE value[names[i]]
  <2>1. CASE AlwaysSent
    BY <1>2, <1>6, <2>1 DEF Coupled
  <2>2. CASE ~AlwaysSent
    <3> DEFINE r == [i \in 1..Len(attd) |-> [attd[i] EXCEPT !.value = value[names[i]]]]
    <3>1. read = r
      BY <2>2
    <3>2. \A i \in 1..Len(attd) : [attd[i] EXCEPT !.value = value[names[i]]] \in AttRec
      BY <1>6 DEF AttRec
    <3>3. r \in Seq(AttRec) /\ Len(r) = Len(names)
      BY <1>6, <3>2
    <3>4. \A i \in 1..Len(names) : r[i].src = names[i] /\ r[i].value = value[names[i]]
      BY <1>6 DEF AttRec
    <3> QED BY <2>2, <3>1, <3>3, <3>4 DEF Coupled
  <2> QED BY <2>1, <2>2
<1> HIDE DEF read, sent
<1>12. /\ PolledOrScheduled'
       /\ v_attd' \in Seq(AttRec) /\ v_attn' \in Seq(PolledAtts)
       /\ m_attd_future' \in Seq(FutureRec) /\ m_attn_future' \in Seq(FutureRec)
  BY <1>1, <1>4, <1>11, ScheduleKept DEF names
<1>13. TypeOKPolling'
  BY <1>1, <1>9, <1>10, <1>12 DEF TypeOKPolling, pollingConf
<1>14. ASSUME NEW i \in 1..Len(read), read[i].value # NoAttValue
       PROVE  ~AlwaysSent /\ sentValue'[read[i].src] = read[i].value
  <2>1. ~AlwaysSent
    BY <1>3, <1>6, <1>11, <1>14 DEF ValuesKept
  <2>2. read[i].value = value[names[i]] /\ read[i].src = names[i] /\ i \in 1..Len(names)
    BY <1>11, <2>1
  <2> QED BY <1>6, <1>7, <1>14, <2>1, <2>2
<1>15. ValuesKept(v_attd)'
  BY <1>4, <1>14 DEF AddScheduled, ValuesKept, AlwaysSent, pollingConf
<1>16. GoodValueSent'
  <2>1. ASSUME NEW a \in PolledAtts, goodValue'[a] # NoAttValue, a \in wanted
        PROVE  sentValue'[a] = goodValue'[a]
    <3>1. CASE \E j \in 1..Len(names) : names[j] = a /\ value[a] # NoAttValue
      BY <1>4, <1>7, <3>1 DEF Contains
    <3>2. CASE ~(\E j \in 1..Len(names) : names[j] = a /\ value[a] # NoAttValue)
      <4>1. goodValue'[a] = goodValue[a] /\ sentValue'[a] = sentValue[a]
        BY <1>4, <1>8, <3>2 DEF Contains
      <4> QED BY <1>1, <2>1, <4>1 DEF GoodValueSent
    <3> QED BY <3>1, <3>2
  <2> QED BY <2>1 DEF GoodValueSent
<1> QED BY <1>12, <1>13, <1>15, <1>16 DEF PollingInv

\* An attribute is added: it is polled from the next execution on.
LEMMA AddPollAttKeeps ==
  ASSUME PollingInv, NEW a \in PolledAtts, AddPollAtt(a)
  PROVE  PollingInv'
<1>1. TypeOKPolling /\ PolledOrScheduled /\ ValuesKept(v_attd) /\ GoodValueSent
  BY DEF PollingInv
<1>2. /\ wanted' = wanted \union {a} /\ goodValue' = [goodValue EXCEPT ![a] = NoAttValue]
      /\ UNCHANGED <<data_updpo, devDefined, cmds, sentValue>>
  BY DEF AddPollAtt, pollingConf
<1>3. GoodValueSent'
  BY <1>1, <1>2 DEF GoodValueSent, TypeOKPolling
<1>4. goodValue' \in [PolledAtts -> ReadAttValues]
  BY <1>1, <1>2 DEF TypeOKPolling, ReadAttValues
<1>5. \A c \in (wanted \intersect PolledCmds)' : Contains(cmds', c)
  BY <1>1, <1>2, PollingAssumption DEF PolledOrScheduled
<1>6. CASE data_updpo.skip
  <2> DEFINE f == [left |-> 2, att |-> a]
  <2>1. /\ m_attd_future' = Append(m_attd_future, f) /\ m_attn_future' = Append(m_attn_future, f)
        /\ v_attd' = v_attd /\ v_attn' = v_attn
    BY <1>6 DEF AddPollAtt
  <2>2. f \in FutureRec /\ f.att = a
    BY DEF FutureRec
  <2> HIDE DEF f
  <2>3. m_attn_future \in Seq(FutureRec) /\ m_attd_future \in Seq(FutureRec)
    BY <1>1 DEF TypeOKPolling
  <2>4. /\ m_attd_future' \in Seq(FutureRec) /\ m_attn_future' \in Seq(FutureRec)
        /\ Len(m_attn_future') = Len(m_attn_future) + 1 /\ Len(m_attn_future) \in Nat
        /\ \A i \in 1..Len(m_attn_future) : m_attn_future'[i] = m_attn_future[i]
        /\ m_attn_future'[Len(m_attn_future) + 1] = f
    BY <2>1, <2>2, <2>3, AppendProperties
  <2>5. ASSUME NEW b \in (wanted \intersect PolledAtts)'
        PROVE  \/ Contains(v_attn', b)
               \/ \E i \in 1..Len(m_attn_future') : m_attn_future'[i].att = b
    <3>1. CASE b = a
      <4>1. Len(m_attn_future) + 1 \in 1..Len(m_attn_future')
        BY <2>4
      <4> QED BY <2>2, <2>4, <3>1, <4>1
    <3>2. CASE b # a
      <4>1. \/ Contains(v_attn, b)
            \/ \E i \in 1..Len(m_attn_future) : m_attn_future[i].att = b
        BY <1>1, <1>2, <3>2 DEF PolledOrScheduled
      <4>2. \A i \in 1..Len(m_attn_future) : i \in 1..Len(m_attn_future')
        BY <2>4
      <4> QED BY <2>1, <2>4, <4>1, <4>2
    <3> QED BY <3>1, <3>2
  <2>6. m_attd_future' = m_attn_future'
    BY <1>1, <2>1 DEF PolledOrScheduled
  <2>7. PolledOrScheduled'
    BY <1>1, <1>5, <2>1, <2>5, <2>6 DEF PolledOrScheduled
  <2>8. TypeOKPolling'
    BY <1>1, <1>2, <1>4, <2>1, <2>4 DEF TypeOKPolling
  <2>9. ValuesKept(v_attd)'
    BY <1>1, <1>2, <2>1 DEF ValuesKept, AlwaysSent
  <2> QED BY <1>3, <2>7, <2>8, <2>9 DEF PollingInv
<1>7. CASE ~data_updpo.skip
  <2> DEFINE d == [src |-> a, value |-> NoAttValue]
  <2>1. /\ v_attd' = Append(v_attd, d) /\ v_attn' = Append(v_attn, a)
        /\ m_attd_future' = m_attd_future /\ m_attn_future' = m_attn_future
    BY <1>7 DEF AddPollAtt
  <2>2. d \in AttRec /\ d.src = a /\ d.value = NoAttValue
    BY DEF AttRec, ReadAttValues
  <2> HIDE DEF d
  <2>3. v_attd \in Seq(AttRec) /\ v_attn \in Seq(PolledAtts) /\ Len(v_attd) = Len(v_attn)
    BY <1>1 DEF TypeOKPolling, PolledOrScheduled
  <2>4. /\ v_attd' \in Seq(AttRec) /\ Len(v_attd') = Len(v_attn) + 1 /\ Len(v_attn) \in Nat
        /\ \A i \in 1..Len(v_attn) : v_attd'[i] = v_attd[i]
        /\ v_attd'[Len(v_attn) + 1] = d
    BY <2>1, <2>2, <2>3, AppendProperties
  <2>5. /\ v_attn' \in Seq(PolledAtts) /\ Len(v_attn') = Len(v_attn) + 1
        /\ \A i \in 1..Len(v_attn) : v_attn'[i] = v_attn[i]
        /\ v_attn'[Len(v_attn) + 1] = a
    BY <2>1, <2>3, AppendProperties
  <2>6. \A i \in 1..Len(v_attn') : i \in 1..Len(v_attn) \/ i = Len(v_attn) + 1
    BY <2>4, <2>5
  <2>7. \A i \in 1..Len(v_attn') : v_attd'[i].src = v_attn'[i]
    BY <1>1, <2>2, <2>4, <2>5, <2>6 DEF PolledOrScheduled
  <2>8. ASSUME NEW b \in (wanted \intersect PolledAtts)'
        PROVE  \/ Contains(v_attn', b)
               \/ \E i \in 1..Len(m_attn_future') : m_attn_future'[i].att = b
    <3>1. CASE b = a
      <4>1. Len(v_attn) + 1 \in 1..Len(v_attn')
        BY <2>4, <2>5
      <4> QED BY <2>5, <3>1, <4>1 DEF Contains
    <3>2. CASE b # a
      <4>1. \/ Contains(v_attn, b)
            \/ \E i \in 1..Len(m_attn_future) : m_attn_future[i].att = b
        BY <1>1, <1>2, <3>2 DEF PolledOrScheduled
      <4>2. \A i \in 1..Len(v_attn) : i \in 1..Len(v_attn')
        BY <2>4, <2>5
      <4> QED BY <2>1, <2>5, <4>1, <4>2 DEF Contains
    <3> QED BY <3>1, <3>2
  <2>9. PolledOrScheduled'
    BY <1>1, <1>5, <2>1, <2>4, <2>5, <2>7, <2>8 DEF PolledOrScheduled
  <2>10. TypeOKPolling'
    BY <1>1, <1>2, <1>4, <2>1, <2>4, <2>5 DEF TypeOKPolling
  <2>11. ValuesKept(v_attd)'
    <3>1. ASSUME NEW i \in 1..Len(v_attd'), v_attd'[i].value # NoAttValue
          PROVE  ~AlwaysSent /\ sentValue[v_attd'[i].src] = v_attd'[i].value
      <4>1. i \in 1..Len(v_attd)
        BY <2>2, <2>3, <2>4, <3>1
      <4> QED BY <1>1, <2>3, <2>4, <3>1, <4>1 DEF ValuesKept
    <3> QED BY <1>2, <3>1 DEF ValuesKept, AlwaysSent
  <2> QED BY <1>3, <2>9, <2>10, <2>11 DEF PollingInv
<1> QED BY <1>6, <1>7

\* An attribute is removed, from the schedule or from what is polled.
LEMMA RemovePollAttKeeps ==
  ASSUME PollingInv, NEW a \in PolledAtts, RemovePollAtt(a)
  PROVE  PollingInv'
<1>1. TypeOKPolling /\ PolledOrScheduled /\ ValuesKept(v_attd) /\ GoodValueSent
  BY DEF PollingInv
<1>2. /\ v_attd' = WithoutSrc(v_attd, a)
      /\ v_attn' = RemoveFirst(v_attn, a)
      /\ m_attd_future' = Unscheduled(m_attd_future, a)
      /\ m_attn_future' = Unscheduled(m_attn_future, a)
      /\ wanted' = wanted \ {a}
      /\ UNCHANGED <<data_updpo, devDefined, cmds, goodValue, sentValue>>
  BY DEF RemovePollAtt, WithoutName, pollingConf
<1>3. v_attd \in Seq(AttRec) /\ v_attn \in Seq(PolledAtts) /\ Coupled(v_attd, v_attn)
  BY <1>1 DEF TypeOKPolling, PolledOrScheduled, Coupled
<1>4. /\ v_attd' \in Seq(AttRec) /\ v_attn' \in Seq(PolledAtts) /\ Coupled(v_attd', v_attn')
      /\ \A b \in PolledAtts : b # a /\ Contains(v_attn, b) => Contains(v_attn', b)
      /\ \A i \in 1..Len(v_attd') : \E j \in 1..Len(v_attd) : v_attd'[i] = v_attd[j]
  <2> DEFINE d == WithoutSrc(v_attd, a)
             n == RemoveFirst(v_attn, a)
  <2>1. /\ d \in Seq(AttRec) /\ n \in Seq(PolledAtts) /\ Coupled(d, n)
        /\ \A b \in PolledAtts : b # a /\ Contains(v_attn, b) => Contains(n, b)
        /\ \A i \in 1..Len(d) : \E j \in 1..Len(v_attd) : d[i] = v_attd[j]
    BY <1>3, FirstRemoved
  <2>2. v_attd' = d /\ v_attn' = n
    BY <1>2
  <2> HIDE DEF d, n
  <2> QED BY <2>1, <2>2
<1> DEFINE fut == m_attn_future
           ps == DOMAIN fut \ Scheduled(fut, a)
<1>5. fut \in Seq(FutureRec) /\ m_attd_future = fut
  BY <1>1 DEF TypeOKPolling, PolledOrScheduled
<1>6. ps \in SUBSET (1..Len(fut))
  BY <1>5
<1>7. m_attn_future' = Kept(fut, ps) /\ m_attd_future' = Kept(fut, ps)
  BY <1>2, <1>5 DEF Unscheduled
<1>8. ASSUME NEW i \in 1..Len(fut), fut[i].att # a PROVE i \in ps
  BY <1>5, <1>8 DEF Scheduled
<1> HIDE DEF ps, fut
<1>9. /\ m_attn_future' \in Seq(FutureRec)
      /\ \A p \in ps : \E k \in 1..Len(m_attn_future') : m_attn_future'[k] = fut[p]
  <2>1. /\ Kept(fut, ps) \in Seq(FutureRec)
        /\ \A p \in ps : \E k \in 1..Len(Kept(fut, ps)) : PlaceOf(k, ps) = p /\ Kept(fut, ps)[k] = fut[p]
    BY <1>5, <1>6, KeptElements
  <2> QED BY <1>7, <2>1
<1>10. ASSUME NEW b \in (wanted \intersect PolledAtts)'
       PROVE  \/ Contains(v_attn', b)
              \/ \E i \in 1..Len(m_attn_future') : m_attn_future'[i].att = b
  <2>1. b # a /\ b \in wanted /\ b \in PolledAtts
    BY <1>2
  <2>2. CASE Contains(v_attn, b)
    BY <1>4, <2>1, <2>2
  <2>3. CASE ~Contains(v_attn, b)
    <3>1. PICK i \in 1..Len(fut) : fut[i].att = b
      BY <1>1, <2>1, <2>3 DEF PolledOrScheduled, fut
    <3>2. i \in ps
      BY <1>8, <2>1, <3>1
    <3> QED BY <1>9, <3>1, <3>2
  <2> QED BY <2>2, <2>3
<1>11. \A c \in (wanted \intersect PolledCmds)' : Contains(cmds', c)
  BY <1>1, <1>2 DEF PolledOrScheduled
<1>12. PolledOrScheduled'
  BY <1>4, <1>7, <1>10, <1>11 DEF PolledOrScheduled, Coupled
<1>13. TypeOKPolling'
  BY <1>1, <1>2, <1>4, <1>7, <1>9 DEF TypeOKPolling
<1>14. ValuesKept(v_attd)'
  <2>1. ASSUME NEW i \in 1..Len(v_attd'), v_attd'[i].value # NoAttValue
        PROVE  ~AlwaysSent /\ sentValue[v_attd'[i].src] = v_attd'[i].value
    <3>1. PICK j \in 1..Len(v_attd) : v_attd'[i] = v_attd[j]
      BY <1>4, <2>1
    <3> QED BY <1>1, <2>1, <3>1 DEF ValuesKept
  <2> QED BY <1>2, <2>1 DEF ValuesKept, AlwaysSent
<1>15. GoodValueSent'
  BY <1>1, <1>2 DEF GoodValueSent
<1> QED BY <1>12, <1>13, <1>14, <1>15 DEF PollingInv

\* Commands come and go: they are polled apart from the attributes.
LEMMA PollCmdKeeps ==
  ASSUME PollingInv, NEW c \in PolledCmds, AddPollCmd(c) \/ RemovePollCmd(c)
  PROVE  PollingInv'
<1>1. TypeOKPolling /\ PolledOrScheduled /\ ValuesKept(v_attd) /\ GoodValueSent
  BY DEF PollingInv
<1>2. /\ UNCHANGED <<data_updpo, devDefined, v_attd, v_attn, m_attd_future, m_attn_future,
                     goodValue, sentValue>>
      /\ wanted' \subseteq wanted \union {c} /\ c \notin PolledAtts
  BY PollingAssumption DEF AddPollCmd, RemovePollCmd, pollingConf
<1>3. cmds \in Seq(PolledCmds)
  BY <1>1 DEF TypeOKPolling
<1>4. cmds' \in Seq(PolledCmds) /\ \A e \in (wanted \intersect PolledCmds)' : Contains(cmds', e)
  <2>1. CASE AddPollCmd(c)
    <3>1. cmds' = Append(cmds, c)
      BY <2>1 DEF AddPollCmd
    <3>2. /\ cmds' \in Seq(PolledCmds) /\ Len(cmds') = Len(cmds) + 1 /\ Len(cmds) \in Nat
          /\ \A i \in 1..Len(cmds) : cmds'[i] = cmds[i] /\ i \in 1..Len(cmds')
          /\ cmds'[Len(cmds) + 1] = c /\ Len(cmds) + 1 \in 1..Len(cmds')
      BY <1>3, <3>1, AppendProperties
    <3> QED BY <1>1, <1>2, <3>2 DEF PolledOrScheduled, Contains
  <2>2. CASE RemovePollCmd(c)
    <3> DEFINE ps == {k \in DOMAIN cmds : cmds[k] # c}
    <3>1. cmds' = Kept(cmds, ps) /\ wanted' = wanted \ {c}
      BY <2>2 DEF RemovePollCmd
    <3>2. ps \in SUBSET (1..Len(cmds)) /\ \A i \in 1..Len(cmds) : cmds[i] # c => i \in ps
      BY <1>3
    <3> HIDE DEF ps
    <3>3. /\ Kept(cmds, ps) \in Seq(PolledCmds)
          /\ \A p \in ps : \E k \in 1..Len(Kept(cmds, ps)) : PlaceOf(k, ps) = p /\ Kept(cmds, ps)[k] = cmds[p]
      BY <1>3, <3>2, KeptElements
    <3>4. \A e \in wanted \intersect PolledCmds : e # c => Contains(cmds', e)
      BY <1>1, <3>1, <3>2, <3>3 DEF PolledOrScheduled, Contains
    <3> QED BY <3>1, <3>3, <3>4
  <2> QED BY <2>1, <2>2
<1>5. PolledOrScheduled'
  BY <1>1, <1>2, <1>4 DEF PolledOrScheduled
<1>6. TypeOKPolling'
  BY <1>1, <1>2, <1>4 DEF TypeOKPolling
<1>7. ValuesKept(v_attd)' /\ GoodValueSent'
  BY <1>1, <1>2 DEF ValuesKept, AlwaysSent, GoodValueSent
<1> QED BY <1>5, <1>6, <1>7 DEF PollingInv

\* Every step of the polling activity keeps the invariant.
LEMMA PollingInvInductive == PollingInv /\ [NextPolling]_pollingVars => PollingInv'
<1> SUFFICES ASSUME PollingInv, [NextPolling]_pollingVars PROVE PollingInv'
  OBVIOUS
<1>1. ASSUME NEW a \in PolledAtts, AddPollAtt(a) \/ RemovePollAtt(a) PROVE PollingInv'
  BY <1>1, AddPollAttKeeps, RemovePollAttKeeps
<1>2. ASSUME NEW c \in PolledCmds, AddPollCmd(c) \/ RemovePollCmd(c) PROVE PollingInv'
  BY <1>2, PollCmdKeeps
<1>3. ASSUME NEW known, ExecutePolling(known, TRUE, <<>>) PROVE PollingInv'
  BY <1>3, ReadNothingKeeps DEF ExecutePolling
<1>4. ASSUME NEW known, NEW value \in [ToSet(AttnNow) -> AttValues \union {NoAttValue}],
             ExecutePolling(known, FALSE, value)
      PROVE  PollingInv'
  BY <1>4, ReadAttsKeeps DEF ExecutePolling, ReadAttValues
<1>5. CASE ExecuteUndefined
  <2>1. TypeOKPolling /\ PolledOrScheduled /\ ValuesKept(v_attd) /\ GoodValueSent
    BY DEF PollingInv
  <2>2. AddScheduled(AttdNow) /\ UNCHANGED <<data_updpo, cmds, wanted, goodValue, sentValue>>
    BY <1>5 DEF ExecuteUndefined, pollingConf
  <2>3. AttdNow \in Seq(AttRec) /\ Coupled(AttdNow, AttnNow)
    BY <2>1, DueJoins
  <2>4. /\ PolledOrScheduled'
        /\ v_attd' \in Seq(AttRec) /\ v_attn' \in Seq(PolledAtts)
        /\ m_attd_future' \in Seq(FutureRec) /\ m_attn_future' \in Seq(FutureRec)
    BY <2>1, <2>2, <2>3, ScheduleKept
  <2>5. TypeOKPolling' /\ GoodValueSent'
    BY <2>1, <2>2, <2>4 DEF TypeOKPolling, GoodValueSent
  <2>6. ASSUME NEW i \in 1..Len(AttdNow), AttdNow[i].value # NoAttValue
        PROVE  ~AlwaysSent /\ sentValue[AttdNow[i].src] = AttdNow[i].value
    <3>1. PICK j \in 1..Len(v_attd) : AttdNow[i] = v_attd[j]
      BY <2>1, <2>6, DueJoins
    <3> QED BY <2>1, <2>6, <3>1 DEF ValuesKept
  <2>7. ValuesKept(v_attd)'
    BY <2>2, <2>6 DEF AddScheduled, ValuesKept, AlwaysSent
  <2> QED BY <2>4, <2>5, <2>7 DEF PollingInv
<1>6. CASE UNCHANGED pollingVars
  BY <1>6 DEF pollingVars, PollingInv, TypeOKPolling, PolledOrScheduled, ValuesKept, AlwaysSent, GoodValueSent
<1> QED BY <1>1, <1>2, <1>3, <1>4, <1>5, <1>6 DEF NextPolling

\* Nothing is polled at first, and nothing is wanted.
LEMMA PollingInvInit == InitPolling => PollingInv
<1> SUFFICES ASSUME InitPolling PROVE PollingInv
  OBVIOUS
<1>1. /\ data_updpo \in [policy : UpdatePolicies, skip : BOOLEAN]
      /\ cmds = <<>> /\ v_attd = <<>> /\ v_attn = <<>> /\ m_attd_future = <<>> /\ m_attn_future = <<>>
      /\ wanted = {}
      /\ goodValue = [a \in PolledAtts |-> NoAttValue]
      /\ sentValue = [a \in PolledAtts |-> NoAttValue]
  BY DEF InitPolling
<1>2. TypeOKPolling
  BY <1>1 DEF TypeOKPolling, ReadAttValues
<1>3. PolledOrScheduled /\ ValuesKept(v_attd) /\ GoodValueSent
  BY <1>1 DEF PolledOrScheduled, ValuesKept, GoodValueSent
<1> QED BY <1>2, <1>3 DEF PollingInv

\* Whatever is asked of a polling activity and in whatever order, an attribute
\* or a command that is wanted is polled, or waits to be, and the two vectors of
\* the attributes stay coupled, place by place (cupollingactivity.cpp:98).
THEOREM AlwaysPolledOrScheduled == SpecPolling => []PolledOrScheduled
<1>1. PollingInv => PolledOrScheduled
  BY DEF PollingInv
<1> QED BY <1>1, PollingInvInit, PollingInvInductive, PTL DEF SpecPolling

\* With any policy of updates and any answers of the device, the last value sent
\* of an attribute that is polled is the last one read: what the policy leaves
\* out is what the listeners have already (cutango-world.cpp:825).
THEOREM GoodValuesAlwaysSent == SpecPolling => []GoodValueSent
<1>1. PollingInv => GoodValueSent
  BY DEF PollingInv
<1> QED BY <1>1, PollingInvInit, PollingInvInductive, PTL DEF SpecPolling

-----------------------------------------------------------------------------
(* The HTTP engine                                                         *)

RequestMethods == {"s", "read", "conf"}
QueueItem == [src : HttpSources, l : HttpListeners, method : RequestMethods \union {"u", "write"}]
ToldItem == [src : HttpSources, l : HttpListeners,
             method : RequestMethods \union {"u", "write", "error", "channel"}]
HttpClient == [src : HttpSources \union {NoHttp}, method : RequestMethods]

TypeOKHttp ==
  /\ client \in [HttpListeners -> HttpClient]
  /\ srcq \in Seq(QueueItem) /\ srcd \in Seq(QueueItem)
  /\ tgtd \in [HttpSources -> HttpListeners \union {NoHttp}]
  /\ rmap \subseteq HttpSources \X HttpListeners
  /\ telling = [rest |-> telling.rest, todo |-> telling.todo, called |-> telling.called]
  /\ telling.todo \in Seq(ToldItem)

\* The request is the one that its listener makes.
IsRequest(i) == client[i.l] = [src |-> i.src, method |-> i.method]

OnceIn(q) == \A j, k \in 1..Len(q) : q[j] = q[k] /\ q[j].method # "u" => j = k

HttpInv ==
  /\ TypeOKHttp
  /\ \A i \in ToSet(srcq) :
       /\ i.method \in RequestMethods => IsRequest(i)
       /\ i.method = "write" => i.l \in HttpWriters /\ client[i.l].src = i.src /\ tgtd[i.src] # i.l
  /\ \A i \in ToSet(srcd) : i.method # "u" => IsRequest(i)
  /\ \A i \in ToSet(srcq) \intersect ToSet(srcd) : i.method = "u"
  /\ OnceIn(srcq)
  /\ \A s \in HttpSources : tgtd[s] # NoHttp => tgtd[s] \in HttpWriters /\ client[tgtd[s]].src = s
  /\ \A p \in rmap : client[p[2]] = [src |-> p[1], method |-> "s"]
  /\ \A i \in ToSet(telling.todo) : i.method = "s" => IsRequest(i)
  /\ telling.called => telling.todo # <<>>

\* The invariant says that nobody is told of a source it has left.
LEMMA InvTold == HttpInv => HttpNoneToldAfterLeaving
<1> SUFFICES ASSUME HttpInv PROVE HttpNoneToldAfterLeaving
  OBVIOUS
<1>1. ASSUME NEW k \in 1..Len(srcd), srcd[k].method # "u" PROVE client[srcd[k].l].src = srcd[k].src
  <2>1. srcd[k] \in ToSet(srcd)
    BY ElementsOf DEF HttpInv, TypeOKHttp
  <2>2. IsRequest(srcd[k])
    BY <1>1, <2>1 DEF HttpInv
  <2> QED BY <2>2 DEF IsRequest
<1> QED BY <1>1 DEF HttpInv, HttpNoneToldAfterLeaving

\* Nobody is linked at first, and nothing is under way.
LEMMA HttpInvInit == InitHttp => HttpInv
<1> SUFFICES ASSUME InitHttp PROVE HttpInv
  OBVIOUS
<1>1. srcq = <<>> /\ srcd = <<>> /\ telling = [rest |-> <<>>, todo |-> <<>>, called |-> FALSE]
  BY DEF InitHttp, Nobody
<1>2. ToSet(<<>>) = {}
  BY DEF ToSet
<1>3. <<>> \in Seq(QueueItem) /\ <<>> \in Seq(ToldItem)
  OBVIOUS
<1>4. client \in [HttpListeners -> HttpClient]
  BY DEF InitHttp, NoClient, HttpClient, RequestMethods
<1>5. tgtd = [s \in HttpSources |-> NoHttp] /\ rmap = {}
  BY DEF InitHttp, NoTargets
<1>6. OnceIn(srcq)
  BY <1>1 DEF OnceIn
<1> QED BY <1>1, <1>2, <1>3, <1>4, <1>5, <1>6 DEF HttpInv, TypeOKHttp

-----------------------------------------------------------------------------
\* A request that is cancelled is nowhere in the queue, and of the others
\* nothing changes; a queue that had none stays as it is.
LEMMA CancelledItems ==
  ASSUME NEW q \in Seq(QueueItem), NEW item
  PROVE  /\ Cancelled(q, item) \in Seq(QueueItem)
         /\ ToSet(Cancelled(q, item)) = ToSet(q) \ {item}
         /\ OnceIn(q) => OnceIn(Cancelled(q, item))
         /\ Cancelled(q, item) = q <=> item \notin ToSet(q)
<1> DEFINE ps == {k \in 1..Len(q) : q[k] # item}
           t == Kept(q, ps)
<1>1. t = Cancelled(q, item)
  BY DEF Cancelled
<1>2. ps \in SUBSET (1..Len(q))
  OBVIOUS
<1>3. ToSet(q) = {q[k] : k \in 1..Len(q)}
  BY ElementsOf
<1>4. \A k \in 1..Len(q) : k \in ps <=> q[k] # item
  OBVIOUS
<1> HIDE DEF ps
<1>5. t \in Seq(QueueItem) /\ ToSet(t) = {q[p] : p \in ps}
  BY <1>2, ElementsKept
<1>6. ToSet(t) = ToSet(q) \ {item}
  <2>1. \A e \in ToSet(q) \ {item} : \E p \in ps : q[p] = e
    BY <1>3, <1>4
  <2>2. \A p \in ps : q[p] \in ToSet(q) \ {item}
    BY <1>2, <1>3, <1>4
  <2> QED BY <1>5, <2>1, <2>2
<1>7. ASSUME OnceIn(q) PROVE OnceIn(t)
  <2>1. /\ Len(t) \in Nat
        /\ \A k \in 1..Len(t) : PlaceOf(k, ps) \in ps /\ t[k] = q[PlaceOf(k, ps)]
        /\ \A j, k \in 1..Len(t) : j < k => PlaceOf(j, ps) < PlaceOf(k, ps)
    BY <1>2, <1>5, KeptElements
  <2>2. ASSUME NEW j \in 1..Len(t), NEW k \in 1..Len(t), t[j] = t[k], t[j].method # "u" PROVE j = k
    <3>1. PlaceOf(j, ps) = PlaceOf(k, ps)
      BY <1>2, <1>7, <2>1, <2>2 DEF OnceIn
    <3>2. j < k \/ k < j \/ j = k
      BY <2>1
    <3>3. PlaceOf(j, ps) \in 1..Len(q)
      BY <1>2, <2>1
    <3>4. ~(PlaceOf(j, ps) < PlaceOf(k, ps)) /\ ~(PlaceOf(k, ps) < PlaceOf(j, ps))
      BY <3>1, <3>3
    <3> QED BY <2>1, <3>2, <3>4
  <2> QED BY <2>2 DEF OnceIn
<1>8. ASSUME item \notin ToSet(q) PROVE t = q
  <2>1. ps = 1..Len(q)
    BY <1>2, <1>3, <1>4, <1>8
  <2> QED BY <2>1, KeptAll
<1>9. t = q => item \notin ToSet(q)
  BY <1>6
<1> QED BY <1>1, <1>5, <1>6, <1>7, <1>8, <1>9

\* An item of which the queue has none is queued once.
LEMMA QueuedItem ==
  ASSUME NEW q \in Seq(QueueItem), NEW item \in QueueItem, OnceIn(q),
         item \notin ToSet(q) \/ item.method = "u"
  PROVE  /\ Append(q, item) \in Seq(QueueItem) /\ ToSet(Append(q, item)) = ToSet(q) \union {item}
         /\ OnceIn(Append(q, item))
<1> DEFINE t == Append(q, item)
<1>1. t \in Seq(QueueItem) /\ ToSet(t) = ToSet(q) \union {item}
  BY ElementsAppended
<1>2. /\ Len(t) = Len(q) + 1 /\ t[Len(q) + 1] = item /\ Len(q) \in Nat
      /\ \A k \in 1..Len(q) : t[k] = q[k]
  BY AppendProperties
<1> HIDE DEF t
<1>3. \A k \in 1..(Len(q) + 1) : k \in 1..Len(q) \/ k = Len(q) + 1
  BY <1>2
<1>4. \A k \in 1..Len(q) : t[k] = item => item.method = "u"
  <2>1. \A k \in 1..Len(q) : q[k] \in ToSet(q)
    BY ElementsOf
  <2> QED BY <1>2, <2>1
<1>5. ASSUME NEW j \in 1..Len(t), NEW k \in 1..Len(t), t[j] = t[k], t[j].method # "u" PROVE j = k
  <2>1. CASE j \in 1..Len(q) /\ k \in 1..Len(q)
    BY <1>2, <1>5, <2>1 DEF OnceIn
  <2>2. CASE j = Len(q) + 1
    BY <1>2, <1>3, <1>4, <1>5, <2>2
  <2>3. CASE k = Len(q) + 1
    BY <1>2, <1>3, <1>4, <1>5, <2>3
  <2> QED BY <1>2, <1>3, <2>1, <2>2, <2>3
<1>6. OnceIn(t)
  BY <1>5 DEF OnceIn
<1> QED BY <1>1, <1>6 DEF t

\* The targets that wait are told of a write, each of its own source.
LEMMA TargetsListed ==
  ASSUME TypeOKHttp
  PROVE  TargetsWaiting \in Seq(ToldItem) /\ \A i \in ToSet(TargetsWaiting) : i.method = "write"
<1> DEFINE S == {s \in HttpSources : tgtd[s] # NoHttp}
           waiting == SetToSeq(S)
           t == [k \in 1..Len(waiting) |-> Item(waiting[k], tgtd[waiting[k]], "write")]
<1>1. t = TargetsWaiting
  BY DEF TargetsWaiting
<1>2. \A s \in S : s \in HttpSources /\ tgtd[s] \in HttpListeners
  BY DEF TypeOKHttp
<1>3. waiting \in Seq(S) /\ Len(waiting) \in Nat
  <2>1. IsFiniteSet(S)
    <3>1. S \in SUBSET (HttpListeners \union HttpSources)
      OBVIOUS
    <3> QED BY <3>1, HttpAssumption, FS_Subset
  <2> HIDE DEF S
  <2> QED BY <2>1, ElementsListed
<1> HIDE DEF waiting, S
<1>4. \A k \in 1..Len(waiting) : Item(waiting[k], tgtd[waiting[k]], "write") \in ToldItem
  <2>1. \A k \in 1..Len(waiting) : waiting[k] \in S
    BY <1>3
  <2> QED BY <1>2, <2>1 DEF Item, ToldItem
<1>5. t \in Seq(ToldItem) /\ Len(t) = Len(waiting)
  BY <1>3, <1>4
<1>6. \A k \in 1..Len(t) : t[k].method = "write"
  BY <1>5 DEF Item
<1> HIDE DEF t
<1>7. \A i \in ToSet(t) : i.method = "write"
  BY <1>5, <1>6, ElementsOf
<1> QED BY <1>1, <1>5, <1>7

-----------------------------------------------------------------------------
\* A listener without a source is in no place.
LEMMA Unknown ==
  ASSUME HttpInv, NEW l \in HttpListeners, client[l].src = NoHttp
  PROVE  /\ \A i \in ToSet(srcq) \union ToSet(srcd) : i.method # "u" => i.l # l
         /\ \A i \in ToSet(telling.todo) : i.method = "s" => i.l # l
         /\ \A s \in HttpSources : tgtd[s] # l
         /\ \A p \in rmap : p[2] # l
<1>1. \A s \in HttpSources : s # NoHttp
  BY HttpAssumption
<1>2. /\ ToSet(srcq) \in SUBSET QueueItem /\ ToSet(srcd) \in SUBSET QueueItem
      /\ ToSet(telling.todo) \in SUBSET ToldItem
  BY ElementsOf DEF HttpInv, TypeOKHttp
<1>3. ASSUME NEW i \in ToSet(srcq) \union ToSet(srcd), i.method # "u" PROVE i.l # l
  <2>1. i.src \in HttpSources /\ i.method \in RequestMethods \union {"u", "write"}
    BY <1>2 DEF QueueItem
  <2>2. IsRequest(i) \/ client[i.l].src = i.src
    BY <1>3, <2>1 DEF HttpInv
  <2>3. client[i.l].src = i.src
    BY <2>2 DEF IsRequest
  <2> QED BY <1>1, <2>1, <2>3
<1>4. ASSUME NEW i \in ToSet(telling.todo), i.method = "s" PROVE i.l # l
  <2>1. i.src \in HttpSources
    BY <1>2 DEF ToldItem
  <2>2. IsRequest(i)
    BY <1>4 DEF HttpInv
  <2>3. client[i.l].src = i.src
    BY <2>2 DEF IsRequest
  <2> QED BY <1>1, <2>1, <2>3
<1>5. ASSUME NEW s \in HttpSources PROVE tgtd[s] # l
  <2>1. l # NoHttp
    BY HttpAssumption
  <2>2. tgtd[s] # NoHttp => client[tgtd[s]].src = s
    BY DEF HttpInv
  <2> QED BY <1>1, <2>1, <2>2
<1>6. ASSUME NEW p \in rmap PROVE p[2] # l
  <2>1. p[1] \in HttpSources
    BY DEF HttpInv, TypeOKHttp
  <2>2. client[p[2]] = [src |-> p[1], method |-> "s"]
    BY DEF HttpInv
  <2> QED BY <1>1, <2>1, <2>2
<1> QED BY <1>3, <1>4, <1>5, <1>6

\* A reader that is linked to no source gets one.
LEMMA SetSourceKeeps ==
  ASSUME HttpInv, NEW l \in HttpListeners, NEW s \in HttpSources, NEW m \in RequestMethods,
         SetSource(l, s, m)
  PROVE  HttpInv'
<1> DEFINE item == Item(s, l, m)
<1>1. /\ client[l].src = NoHttp /\ client' = [client EXCEPT ![l] = [src |-> s, method |-> m]]
      /\ srcq' = Append(srcq, item)
      /\ srcd' = srcd /\ tgtd' = tgtd /\ rmap' = rmap /\ telling' = telling
  BY DEF SetSource, Enqueue
<1>2. TypeOKHttp /\ OnceIn(srcq)
  BY DEF HttpInv
<1>3. item \in QueueItem /\ item.l = l /\ item.src = s /\ item.method = m /\ m # "u" /\ m # "write"
  BY DEF Item, QueueItem, RequestMethods
<1> HIDE DEF item
<1>4. item \notin ToSet(srcq) /\ item \notin ToSet(srcd)
  BY <1>1, <1>3, Unknown
<1>5. srcq' \in Seq(QueueItem) /\ ToSet(srcq') = ToSet(srcq) \union {item} /\ OnceIn(srcq)'
  <2>1. /\ Append(srcq, item) \in Seq(QueueItem) /\ ToSet(Append(srcq, item)) = ToSet(srcq) \union {item}
        /\ OnceIn(Append(srcq, item))
    BY <1>2, <1>3, <1>4, QueuedItem DEF TypeOKHttp
  <2> QED BY <1>1, <2>1 DEF OnceIn
<1>6. /\ client' \in [HttpListeners -> HttpClient] /\ client'[l] = [src |-> s, method |-> m]
      /\ \A x \in HttpListeners : x # l => client'[x] = client[x]
  <2>1. [src |-> s, method |-> m] \in HttpClient
    BY DEF HttpClient
  <2> QED BY <1>1, <1>2, <2>1 DEF TypeOKHttp
<1>7. TypeOKHttp'
  BY <1>1, <1>2, <1>5, <1>6 DEF TypeOKHttp
<1>8. ASSUME NEW i \in ToSet(srcq), i.method # "u" PROVE client'[i.l] = client[i.l]
  <2>1. i.l # l /\ i.l \in HttpListeners
    <3>1. i \in QueueItem
      BY <1>2, ElementsOf DEF TypeOKHttp
    <3> QED BY <1>1, <1>8, <3>1, Unknown DEF QueueItem
  <2> QED BY <1>6, <2>1
<1>9. ASSUME NEW i \in ToSet(srcd), i.method # "u" PROVE client'[i.l] = client[i.l]
  <2>1. i.l # l /\ i.l \in HttpListeners
    <3>1. i \in QueueItem
      BY <1>2, ElementsOf DEF TypeOKHttp
    <3> QED BY <1>1, <1>9, <3>1, Unknown DEF QueueItem
  <2> QED BY <1>6, <2>1
<1>10. ASSUME NEW i \in ToSet(telling.todo), i.method = "s" PROVE client'[i.l] = client[i.l]
  <2>1. i.l # l /\ i.l \in HttpListeners
    <3>1. i \in ToldItem
      BY <1>2, ElementsOf DEF TypeOKHttp
    <3> QED BY <1>1, <1>10, <3>1, Unknown DEF ToldItem
  <2> QED BY <1>6, <2>1
<1>11. \A i \in ToSet(srcq') :
         /\ i.method \in RequestMethods => IsRequest(i)'
         /\ i.method = "write" => i.l \in HttpWriters /\ client'[i.l].src = i.src /\ tgtd'[i.src] # i.l
  <2>1. ASSUME NEW i \in ToSet(srcq)
        PROVE  /\ i.method \in RequestMethods => IsRequest(i)'
               /\ i.method = "write" => i.l \in HttpWriters /\ client'[i.l].src = i.src /\ tgtd'[i.src] # i.l
    <3>1. /\ i.method \in RequestMethods => IsRequest(i)
          /\ i.method = "write" => i.l \in HttpWriters /\ client[i.l].src = i.src /\ tgtd[i.src] # i.l
      BY DEF HttpInv
    <3>2. i.method \in RequestMethods \/ i.method = "write" => client'[i.l] = client[i.l]
      BY <1>8 DEF RequestMethods
    <3> QED BY <1>1, <3>1, <3>2 DEF IsRequest
  <2>2. IsRequest(item)'
    BY <1>3, <1>6 DEF IsRequest
  <2> QED BY <1>3, <1>5, <2>1, <2>2
<1>12. \A i \in ToSet(srcd') : i.method # "u" => IsRequest(i)'
  <2>1. \A i \in ToSet(srcd) : i.method # "u" => IsRequest(i)
    BY DEF HttpInv
  <2> QED BY <1>1, <1>9, <2>1 DEF IsRequest
<1>13. \A i \in ToSet(srcq') \intersect ToSet(srcd') : i.method = "u"
  BY <1>1, <1>4, <1>5 DEF HttpInv
<1>14. \A x \in HttpSources : tgtd'[x] # NoHttp => tgtd'[x] \in HttpWriters /\ client'[tgtd'[x]].src = x
  <2>1. ASSUME NEW x \in HttpSources, tgtd[x] # NoHttp PROVE client'[tgtd[x]] = client[tgtd[x]]
    <3>1. tgtd[x] # l /\ tgtd[x] \in HttpListeners
      BY <1>1, <1>2, <2>1, Unknown DEF TypeOKHttp
    <3> QED BY <1>6, <3>1
  <2> QED BY <1>1, <2>1 DEF HttpInv
<1>15. \A p \in rmap' : client'[p[2]] = [src |-> p[1], method |-> "s"]
  <2>1. ASSUME NEW p \in rmap PROVE client'[p[2]] = client[p[2]]
    <3>1. p[2] # l /\ p[2] \in HttpListeners
      BY <1>1, <1>2, Unknown DEF TypeOKHttp
    <3> QED BY <1>6, <3>1
  <2> QED BY <1>1, <2>1 DEF HttpInv
<1>16. \A i \in ToSet(telling'.todo) : i.method = "s" => IsRequest(i)'
  <2>1. \A i \in ToSet(telling.todo) : i.method = "s" => IsRequest(i)
    BY DEF HttpInv
  <2> QED BY <1>1, <1>10, <2>1 DEF IsRequest
<1>17. telling'.called => telling'.todo # <<>>
  BY <1>1 DEF HttpInv
<1> QED BY <1>5, <1>7, <1>11, <1>12, <1>13, <1>14, <1>15, <1>16, <1>17 DEF HttpInv

\* A writer that asks to write is none of those who wait for the answer to a
\* write, unless it may write again.
LEMMA ExecuteKeeps ==
  ASSUME HttpInv, ~WriteAgain, NEW l \in HttpWriters, ExecuteWriter(l)
  PROVE  HttpInv'
<1> DEFINE item == Item(client[l].src, l, "write")
<1>1. /\ client[l].src # NoHttp /\ srcq' = Append(srcq, item)
      /\ tgtd[client[l].src] # l /\ ~Contains(srcq, item)
      /\ client' = client /\ srcd' = srcd /\ tgtd' = tgtd /\ rmap' = rmap /\ telling' = telling
  BY DEF ExecuteWriter, Enqueue
<1>2. TypeOKHttp /\ OnceIn(srcq) /\ l \in HttpListeners
  BY DEF HttpInv, HttpListeners
<1>3. item \in QueueItem /\ item.l = l /\ item.src = client[l].src /\ item.method = "write"
  BY <1>1, <1>2 DEF TypeOKHttp, HttpClient, Item, QueueItem
<1> HIDE DEF item
<1>4. item \notin ToSet(srcq)
  BY <1>1, <1>2, ElementsOf DEF Contains, TypeOKHttp
<1>5. srcq' \in Seq(QueueItem) /\ ToSet(srcq') = ToSet(srcq) \union {item} /\ OnceIn(srcq)'
  <2>1. /\ Append(srcq, item) \in Seq(QueueItem) /\ ToSet(Append(srcq, item)) = ToSet(srcq) \union {item}
        /\ OnceIn(Append(srcq, item))
    BY <1>2, <1>3, <1>4, QueuedItem DEF TypeOKHttp
  <2> QED BY <1>1, <2>1 DEF OnceIn
<1>6. TypeOKHttp'
  BY <1>1, <1>2, <1>5 DEF TypeOKHttp
<1>7. \A i \in ToSet(srcq') :
         /\ i.method \in RequestMethods => IsRequest(i)'
         /\ i.method = "write" => i.l \in HttpWriters /\ client'[i.l].src = i.src /\ tgtd'[i.src] # i.l
  <2>1. ASSUME NEW i \in ToSet(srcq)
        PROVE  /\ i.method \in RequestMethods => IsRequest(i)'
               /\ i.method = "write" => i.l \in HttpWriters /\ client'[i.l].src = i.src /\ tgtd'[i.src] # i.l
    BY <1>1 DEF HttpInv, IsRequest
  <2> QED BY <1>1, <1>3, <1>5, <2>1 DEF RequestMethods
<1>8. \A i \in ToSet(srcq') \intersect ToSet(srcd') : i.method = "u"
  <2>1. item \notin ToSet(srcd)
    <3>1. ASSUME item \in ToSet(srcd) PROVE client[l].method = "write"
      <4>1. IsRequest(item)
        BY <1>3, <3>1 DEF HttpInv
      <4> QED BY <1>3, <4>1 DEF IsRequest
    <3>2. client[l].method # "write"
      BY <1>2 DEF TypeOKHttp, HttpClient, RequestMethods
    <3> QED BY <3>1, <3>2
  <2> QED BY <1>1, <1>5, <2>1 DEF HttpInv
<1> QED BY <1>1, <1>5, <1>6, <1>7, <1>8 DEF HttpInv, IsRequest

-----------------------------------------------------------------------------
\* A listener leaves while nobody is being told: of what it asked nothing is
\* left, but for the message that ends its subscription.
LEMMA LeavingKeeps ==
  ASSUME HttpInv, NEW l \in HttpListeners, client[l].src # NoHttp,
         telling.todo = <<>>, telling' = telling,
         client' = [client EXCEPT ![l] = NoClient],
         UnlinkHttp(Request(l)),
         srcq' \in Seq(QueueItem), OnceIn(srcq'),
         \A i \in ToSet(srcq') :
           i.method = "u" \/ (i \in ToSet(srcq) \ {Request(l)} /\ ~(i.method = "write" /\ i.l = l)),
         tgtd' \in [HttpSources -> HttpListeners \union {NoHttp}],
         \A s \in HttpSources : tgtd'[s] = NoHttp \/ (tgtd'[s] = tgtd[s] /\ tgtd[s] # l)
  PROVE  HttpInv'
<1>1. TypeOKHttp
  BY DEF HttpInv
<1>2. /\ client' \in [HttpListeners -> HttpClient]
      /\ \A x \in HttpListeners : x # l => client'[x] = client[x]
  <2>1. NoClient \in HttpClient
    BY DEF NoClient, HttpClient, RequestMethods
  <2> QED BY <1>1, <2>1 DEF TypeOKHttp
<1>3. /\ ToSet(srcq) \in SUBSET QueueItem /\ ToSet(srcd) \in SUBSET QueueItem
  BY <1>1, ElementsOf DEF TypeOKHttp
<1>4. \A i \in ToSet(srcq) \union ToSet(srcd) : i.l = l /\ IsRequest(i) => i = Request(l)
  <2>1. ASSUME NEW i \in QueueItem, i.l = l, IsRequest(i) PROVE i = Request(l)
    <3>1. client[l].src = i.src /\ client[l].method = i.method
      BY <2>1 DEF IsRequest
    <3>2. i = [src |-> i.src, l |-> i.l, method |-> i.method]
      BY DEF QueueItem
    <3> QED BY <2>1, <3>1, <3>2 DEF Request, Item
  <2> QED BY <1>3, <2>1
<1>5. Request(l).method # "u"
  BY <1>1 DEF Request, Item, TypeOKHttp, HttpClient, RequestMethods
<1>6. /\ srcd' \in Seq(QueueItem) /\ ToSet(srcd') \subseteq ToSet(srcd) /\ Request(l) \notin ToSet(srcd')
  <2>1. srcd' = IF Cancelled(srcq, Request(l)) # srcq THEN srcd ELSE Cancelled(srcd, Request(l))
    BY DEF UnlinkHttp, StillWaiting
  <2>2. CASE Request(l) \in ToSet(srcq)
    <3>1. srcd' = srcd
      BY <1>1, <2>1, <2>2, CancelledItems DEF TypeOKHttp
    <3>2. Request(l) \notin ToSet(srcd)
      BY <1>5, <2>2 DEF HttpInv
    <3> QED BY <1>1, <3>1, <3>2 DEF TypeOKHttp
  <2>3. CASE Request(l) \notin ToSet(srcq)
    <3>1. srcd' = Cancelled(srcd, Request(l))
      BY <1>1, <2>1, <2>3, CancelledItems DEF TypeOKHttp
    <3>2. /\ Cancelled(srcd, Request(l)) \in Seq(QueueItem)
          /\ ToSet(Cancelled(srcd, Request(l))) = ToSet(srcd) \ {Request(l)}
      BY <1>1, CancelledItems DEF TypeOKHttp
    <3> QED BY <3>1, <3>2
  <2> QED BY <2>2, <2>3
<1>7. rmap' = {p \in rmap : p[2] # l}
  BY DEF UnlinkHttp, Request, Item
<1>8. TypeOKHttp'
  BY <1>1, <1>2, <1>6, <1>7 DEF TypeOKHttp
<1>9. ASSUME NEW i \in ToSet(srcq')
      PROVE  /\ i.method \in RequestMethods => IsRequest(i)'
             /\ i.method = "write" => i.l \in HttpWriters /\ client'[i.l].src = i.src /\ tgtd'[i.src] # i.l
  <2>1. CASE i.method = "u"
    BY <2>1 DEF RequestMethods
  <2>2. CASE i.method # "u"
    <3>1. i \in ToSet(srcq) /\ i # Request(l) /\ ~(i.method = "write" /\ i.l = l)
      BY <2>2
    <3>2. i.l \in HttpListeners /\ i.src \in HttpSources
      BY <1>3, <3>1 DEF QueueItem
    <3>3. /\ i.method \in RequestMethods => IsRequest(i)
          /\ i.method = "write" => i.l \in HttpWriters /\ client[i.l].src = i.src /\ tgtd[i.src] # i.l
      BY <3>1 DEF HttpInv
    <3>4. i.method \in RequestMethods => i.l # l
      BY <1>4, <3>1, <3>3
    <3>5. i.method \in RequestMethods => IsRequest(i)'
      BY <1>2, <3>2, <3>3, <3>4 DEF IsRequest
    <3>6. tgtd'[i.src] = NoHttp \/ tgtd'[i.src] = tgtd[i.src]
      BY <3>2
    <3>7. i.l # NoHttp
      BY <3>2, HttpAssumption
    <3>8. i.method = "write" => i.l \in HttpWriters /\ client'[i.l].src = i.src /\ tgtd'[i.src] # i.l
      BY <1>2, <3>1, <3>2, <3>3, <3>6, <3>7
    <3> QED BY <3>5, <3>8
  <2> QED BY <2>1, <2>2
<1>10. ASSUME NEW i \in ToSet(srcd'), i.method # "u" PROVE IsRequest(i)'
  <2>1. i \in ToSet(srcd) /\ i # Request(l) /\ IsRequest(i)
    BY <1>6, <1>10 DEF HttpInv
  <2>2. i.l # l /\ i.l \in HttpListeners
    BY <1>3, <1>4, <2>1 DEF QueueItem
  <2> QED BY <1>2, <2>1, <2>2 DEF IsRequest
<1>11. \A i \in ToSet(srcq') \intersect ToSet(srcd') : i.method = "u"
  BY <1>6 DEF HttpInv
<1>12. \A s \in HttpSources : tgtd'[s] # NoHttp => tgtd'[s] \in HttpWriters /\ client'[tgtd'[s]].src = s
  <2>1. ASSUME NEW s \in HttpSources, tgtd'[s] # NoHttp
        PROVE  tgtd'[s] \in HttpWriters /\ client'[tgtd'[s]].src = s
    <3>1. tgtd'[s] = tgtd[s] /\ tgtd[s] # l /\ tgtd[s] # NoHttp
      BY <2>1
    <3>2. tgtd[s] \in HttpWriters /\ client[tgtd[s]].src = s
      BY <3>1 DEF HttpInv
    <3>3. client'[tgtd[s]] = client[tgtd[s]]
      BY <1>2, <3>1, <3>2 DEF HttpListeners
    <3> QED BY <3>1, <3>2, <3>3
  <2> QED BY <2>1
<1>13. \A p \in rmap' : client'[p[2]] = [src |-> p[1], method |-> "s"]
  <2>1. ASSUME NEW p \in rmap, p[2] # l PROVE client'[p[2]] = client[p[2]]
    BY <1>1, <1>2, <2>1 DEF TypeOKHttp
  <2> QED BY <1>7, <2>1 DEF HttpInv
<1>14. \A i \in ToSet(telling'.todo) : i.method = "s" => IsRequest(i)'
  BY DEF ToSet
<1>15. OnceIn(srcq)'
  BY DEF OnceIn
<1> QED BY <1>8, <1>9, <1>10, <1>11, <1>12, <1>13, <1>14, <1>15 DEF HttpInv

\* A reader leaves its source.
LEMMA UnsetSourceKeeps ==
  ASSUME HttpInv, "unset" \notin HttpInCallback, NEW l \in HttpReaders, UnsetSource(l)
  PROVE  HttpInv'
<1> DEFINE q == Cancelled(srcq, Request(l))
           bye == Item(client[l].src, l, "u")
<1>1. TypeOKHttp /\ OnceIn(srcq) /\ l \in HttpListeners /\ l \notin HttpWriters
  BY HttpAssumption DEF HttpInv, HttpListeners
<1>2. /\ client[l].src # NoHttp /\ UnlinkHttp(Request(l)) /\ client' = [client EXCEPT ![l] = NoClient]
      /\ srcq' = q \/ srcq' = Append(q, bye)
      /\ tgtd' = tgtd /\ telling' = telling /\ telling.todo = <<>>
  BY DEF UnsetSource, HttpTurn, Enqueue, Nobody
<1>3. q \in Seq(QueueItem) /\ ToSet(q) = ToSet(srcq) \ {Request(l)} /\ OnceIn(q)
  BY <1>1, CancelledItems DEF TypeOKHttp
<1>4. bye \in QueueItem /\ bye.method = "u"
  BY <1>1, <1>2 DEF TypeOKHttp, HttpClient, Item, QueueItem
<1> HIDE DEF q, bye
<1>5. /\ Append(q, bye) \in Seq(QueueItem) /\ OnceIn(Append(q, bye))
      /\ ToSet(Append(q, bye)) = ToSet(q) \union {bye}
  BY <1>3, <1>4, QueuedItem
<1>6. \A i \in ToSet(srcq) : ~(i.method = "write" /\ i.l = l)
  BY <1>1 DEF HttpInv
<1>7. /\ srcq' \in Seq(QueueItem) /\ OnceIn(srcq')
      /\ \A i \in ToSet(srcq') :
           i.method = "u" \/ (i \in ToSet(srcq) \ {Request(l)} /\ ~(i.method = "write" /\ i.l = l))
  <2>1. CASE srcq' = q
    BY <1>3, <1>6, <2>1
  <2>2. CASE srcq' = Append(q, bye)
    BY <1>3, <1>4, <1>5, <1>6, <2>2
  <2> QED BY <1>2, <2>1, <2>2
<1>8. \A s \in HttpSources : tgtd'[s] = NoHttp \/ (tgtd'[s] = tgtd[s] /\ tgtd[s] # l)
  BY <1>1, <1>2 DEF HttpInv
<1>9. tgtd' \in [HttpSources -> HttpListeners \union {NoHttp}]
  BY <1>1, <1>2 DEF TypeOKHttp
<1> QED BY <1>1, <1>2, <1>7, <1>8, <1>9, LeavingKeeps

\* A reader is deleted, which leaves its source.
LEMMA DeleteReaderKeeps ==
  ASSUME HttpInv, "unset" \notin HttpInCallback, NEW l \in HttpReaders, DeleteReader(l)
  PROVE  HttpInv'
<1>1. TypeOKHttp /\ OnceIn(srcq) /\ l \in HttpListeners /\ l \notin HttpWriters
  BY HttpAssumption DEF HttpInv, HttpListeners
<1>2. /\ client[l].src # NoHttp /\ UnlinkHttp(Request(l)) /\ client' = [client EXCEPT ![l] = NoClient]
      /\ srcq' = Cancelled(srcq, Request(l))
      /\ tgtd' = tgtd /\ telling' = telling /\ telling.todo = <<>>
  BY DEF DeleteReader, HttpTurn, Nobody
<1>3. srcq' \in Seq(QueueItem) /\ ToSet(srcq') = ToSet(srcq) \ {Request(l)} /\ OnceIn(srcq')
  BY <1>1, <1>2, CancelledItems DEF TypeOKHttp
<1>4. \A i \in ToSet(srcq) : ~(i.method = "write" /\ i.l = l)
  BY <1>1 DEF HttpInv
<1>5. \A i \in ToSet(srcq') :
        i.method = "u" \/ (i \in ToSet(srcq) \ {Request(l)} /\ ~(i.method = "write" /\ i.l = l))
  BY <1>3, <1>4
<1>6. \A s \in HttpSources : tgtd'[s] = NoHttp \/ (tgtd'[s] = tgtd[s] /\ tgtd[s] # l)
  BY <1>1, <1>2 DEF HttpInv
<1>7. tgtd' \in [HttpSources -> HttpListeners \union {NoHttp}]
  BY <1>1, <1>2 DEF TypeOKHttp
<1> QED BY <1>1, <1>2, <1>3, <1>5, <1>6, <1>7, LeavingKeeps

\* A write of a target that is cleared is still in the queue or waits for an
\* answer, not both: what ClearTarget cancels of one is all there is.
LEMMA ClearTargetKeeps ==
  ASSUME HttpInv, "unset" \notin HttpInCallback, NEW l \in HttpWriters, ClearTarget(l)
  PROVE  HttpInv'
<1> DEFINE t == client[l].src
           q == Cancelled(srcq, Request(l))
           write == Item(t, l, "write")
<1>1. TypeOKHttp /\ OnceIn(srcq) /\ l \in HttpListeners /\ l # NoHttp
  BY HttpAssumption DEF HttpInv, HttpListeners
<1>2. /\ t # NoHttp /\ UnlinkHttp(Request(l)) /\ client' = [client EXCEPT ![l] = NoClient]
      /\ srcq' = Cancelled(q, write)
      /\ tgtd' = IF srcq' = q /\ tgtd[t] = l THEN [tgtd EXCEPT ![t] = NoHttp] ELSE tgtd
      /\ telling' = telling /\ telling.todo = <<>>
  BY DEF ClearTarget, HttpTurn, Nobody
<1>3. t \in HttpSources
  BY <1>1, <1>2 DEF TypeOKHttp, HttpClient
<1>4. write = [src |-> t, l |-> l, method |-> "write"]
  BY DEF Item
<1> HIDE DEF q, write
<1>5. q \in Seq(QueueItem) /\ ToSet(q) = ToSet(srcq) \ {Request(l)} /\ OnceIn(q)
  BY <1>1, CancelledItems DEF TypeOKHttp, q
<1>6. srcq' \in Seq(QueueItem) /\ ToSet(srcq') = ToSet(q) \ {write} /\ OnceIn(srcq')
  BY <1>2, <1>5, CancelledItems
<1>7. srcq' = q <=> write \notin ToSet(q)
  BY <1>2, <1>5, CancelledItems
<1>8. ASSUME NEW i \in ToSet(srcq), i.method = "write", i.l = l PROVE i = write
  <2>1. i \in QueueItem
    BY <1>1, ElementsOf DEF TypeOKHttp
  <2>2. i.src = t
    BY <1>8 DEF HttpInv
  <2>3. i = [src |-> i.src, l |-> i.l, method |-> i.method]
    BY <2>1 DEF QueueItem
  <2> QED BY <1>4, <1>8, <2>2, <2>3
<1>9. \A i \in ToSet(srcq') :
        i.method = "u" \/ (i \in ToSet(srcq) \ {Request(l)} /\ ~(i.method = "write" /\ i.l = l))
  BY <1>5, <1>6, <1>8
<1>10. tgtd' \in [HttpSources -> HttpListeners \union {NoHttp}]
  BY <1>1, <1>2 DEF TypeOKHttp
<1>11. ASSUME NEW s \in HttpSources PROVE tgtd'[s] = NoHttp \/ (tgtd'[s] = tgtd[s] /\ tgtd[s] # l)
  <2>1. tgtd[s] = l => s = t
    BY <1>1 DEF HttpInv
  <2>2. CASE srcq' = q
    BY <1>1, <1>2, <1>3, <2>1, <2>2 DEF TypeOKHttp
  <2>3. CASE srcq' # q
    <3>1. write \in ToSet(srcq)
      BY <1>5, <1>7, <2>3
    <3>2. tgtd[t] # l
      BY <1>4, <3>1 DEF HttpInv
    <3> QED BY <1>2, <2>1, <2>3, <3>2
  <2> QED BY <2>2, <2>3
<1> QED BY <1>1, <1>2, <1>6, <1>9, <1>10, <1>11, LeavingKeeps

-----------------------------------------------------------------------------
\* A chunk of the queue is sent: its requests wait for an answer, its writes
\* take the place of those who wrote to the same target.
LEMMA DequeueKeeps ==
  ASSUME HttpInv, OnDequeueTimeout
  PROVE  HttpInv'
<1> DEFINE m == IF Len(srcq) < ChunkSize THEN Len(srcq) ELSE ChunkSize
           chunk == SubSeq(srcq, 1, m)
           rest == SubSeq(srcq, m + 1, Len(srcq))
<1>1. TypeOKHttp /\ srcq \in Seq(QueueItem) /\ srcd \in Seq(QueueItem) /\ OnceIn(srcq)
  BY DEF HttpInv, TypeOKHttp
<1>2. m \in 0..Len(srcq)
  BY <1>1, HttpAssumption
<1> HIDE DEF m
<1>3. /\ chunk \in Seq(QueueItem) /\ Len(chunk) = m /\ \A k \in 1..m : chunk[k] = srcq[k]
      /\ rest \in Seq(QueueItem) /\ Len(rest) = Len(srcq) - m
      /\ \A k \in 1..(Len(srcq) - m) : rest[k] = srcq[m + k]
  BY <1>1, <1>2, ElementsCut
<1>4. /\ srcq' = SubSeq(srcq, Len(chunk) + 1, Len(srcq))
      /\ srcd' = srcd \o SourcesIn(chunk) /\ tgtd' = TargetsAfter(chunk)
      /\ client' = client /\ rmap' = rmap /\ telling' = telling
  BY DEF OnDequeueTimeout, m
<1>5. srcq' = rest
  BY <1>3, <1>4
<1> HIDE DEF chunk, rest
<1>6. /\ m \in Nat /\ Len(srcq) \in Nat
      /\ ToSet(chunk) = {chunk[k] : k \in 1..m} /\ ToSet(rest) = {rest[k] : k \in 1..(Len(srcq) - m)}
      /\ ToSet(srcq) = {srcq[k] : k \in 1..Len(srcq)}
  <2>1. m \in Nat /\ Len(srcq) \in Nat
    BY <1>1, <1>2
  <2>2. ToSet(chunk) = {chunk[k] : k \in 1..Len(chunk)}
    BY <1>3, ElementsOf
  <2>3. ToSet(rest) = {rest[k] : k \in 1..Len(rest)}
    BY <1>3, ElementsOf
  <2>4. ToSet(srcq) = {srcq[k] : k \in 1..Len(srcq)}
    BY <1>1, ElementsOf
  <2> QED BY <1>3, <2>1, <2>2, <2>3, <2>4
<1>7. \A k \in 1..m : k \in 1..Len(srcq) /\ chunk[k] \in ToSet(srcq)
  BY <1>2, <1>3, <1>6
<1>8. \A k \in 1..(Len(srcq) - m) : m + k \in 1..Len(srcq) /\ rest[k] \in ToSet(srcq)
  BY <1>2, <1>3, <1>6, SMTT(30)
<1>9. ASSUME NEW i \in ToSet(rest), i.method # "u" PROVE i \notin ToSet(chunk)
  <2> SUFFICES ASSUME i \in ToSet(chunk) PROVE FALSE
    OBVIOUS
  <2>1. PICK j \in 1..(Len(srcq) - m) : i = srcq[m + j]
    <3>1. PICK j \in 1..(Len(srcq) - m) : i = rest[j]
      BY <1>6
    <3>2. rest[j] = srcq[m + j]
      BY <1>3, <1>6
    <3> QED BY <3>1, <3>2
  <2>2. PICK k \in 1..m : i = srcq[k]
    BY <1>3, <1>6
  <2>3. m + j = k
    BY <1>7, <1>8, <1>1, <1>9, <2>1, <2>2 DEF OnceIn
  <2> QED BY <1>6, <2>3
<1>10. OnceIn(rest)
  <2>1. ASSUME NEW j \in 1..Len(rest), NEW k \in 1..Len(rest), rest[j] = rest[k], rest[j].method # "u"
        PROVE  j = k
    <3>1. j \in 1..(Len(srcq) - m) /\ k \in 1..(Len(srcq) - m)
      BY <1>3
    <3>2. srcq[m + j] = srcq[m + k] /\ srcq[m + j].method # "u"
      BY <1>3, <2>1, <3>1
    <3>3. m + j = m + k
      BY <1>1, <1>8, <3>1, <3>2 DEF OnceIn
    <3> QED BY <1>6, <3>1, <3>3
  <2> QED BY <2>1 DEF OnceIn
<1> DEFINE reads == {k \in 1..Len(chunk) : chunk[k].method # "write"}
<1>11. /\ SourcesIn(chunk) \in Seq(QueueItem)
       /\ \A i \in ToSet(SourcesIn(chunk)) : i \in ToSet(chunk) /\ i.method # "write"
  <2>1. SourcesIn(chunk) = Kept(chunk, reads)
    BY DEF SourcesIn
  <2>2. reads \in SUBSET (1..Len(chunk)) /\ \A k \in reads : chunk[k] \in ToSet(chunk) /\ chunk[k].method # "write"
    BY <1>3, <1>6
  <2> HIDE DEF reads
  <2>3. Kept(chunk, reads) \in Seq(QueueItem) /\ ToSet(Kept(chunk, reads)) = {chunk[p] : p \in reads}
    BY <1>3, <2>2, ElementsKept
  <2> QED BY <2>1, <2>2, <2>3
<1>12. srcd' \in Seq(QueueItem) /\ ToSet(srcd') = ToSet(srcd) \union ToSet(SourcesIn(chunk))
  <2>1. /\ srcd \o SourcesIn(chunk) \in Seq(QueueItem)
        /\ ToSet(srcd \o SourcesIn(chunk)) = ToSet(srcd) \union ToSet(SourcesIn(chunk))
    BY <1>1, <1>11, ElementsConcatenated
  <2> QED BY <1>4, <2>1
<1>13. ASSUME NEW s \in HttpSources
       PROVE  \/ tgtd'[s] = tgtd[s]
              \/ \E i \in ToSet(chunk) : i.method = "write" /\ i.src = s /\ tgtd'[s] = i.l
  <2> DEFINE ps == WritesTo(s, chunk)
  <2>1. tgtd'[s] = IF ps = {} THEN tgtd[s] ELSE chunk[Max(ps)].l
    BY <1>4 DEF TargetsAfter
  <2>2. CASE ps = {}
    BY <2>1, <2>2
  <2>3. CASE ps # {}
    <3>1. ps \in SUBSET (1..Len(chunk)) /\ \A k \in ps : chunk[k].method = "write" /\ chunk[k].src = s
      BY DEF WritesTo
    <3> HIDE DEF ps
    <3>2. PICK k \in ps : k = Max(ps)
      BY <1>3, <1>6, <2>3, <3>1, LastPlace
    <3>3. chunk[k] \in ToSet(chunk) /\ tgtd'[s] = chunk[k].l
      BY <1>3, <1>6, <2>1, <2>3, <3>1, <3>2
    <3> QED BY <3>1, <3>3
  <2> QED BY <2>2, <2>3
<1>14. \A i \in ToSet(srcq) : i \in QueueItem
  BY <1>1, ElementsOf
<1>15. ToSet(chunk) \subseteq ToSet(srcq) /\ ToSet(rest) \subseteq ToSet(srcq)
  BY <1>6, <1>7, <1>8
<1>16. tgtd' \in [HttpSources -> HttpListeners \union {NoHttp}]
  <2>1. DOMAIN tgtd' = HttpSources /\ tgtd' = [s \in HttpSources |-> tgtd'[s]]
    BY <1>4 DEF TargetsAfter
  <2>2. \A s \in HttpSources : tgtd'[s] \in HttpListeners \union {NoHttp}
    <3>1. \A i \in ToSet(chunk) : i.l \in HttpListeners
      BY <1>14, <1>15 DEF QueueItem
    <3> QED BY <1>1, <1>13, <3>1 DEF TypeOKHttp
  <2> QED BY <2>1, <2>2
<1>17. TypeOKHttp'
  BY <1>1, <1>3, <1>4, <1>5, <1>12, <1>16 DEF TypeOKHttp
<1>18. ASSUME NEW i \in ToSet(srcq')
       PROVE  /\ i.method \in RequestMethods => IsRequest(i)'
              /\ i.method = "write" => i.l \in HttpWriters /\ client'[i.l].src = i.src /\ tgtd'[i.src] # i.l
  <2>1. i \in ToSet(srcq) /\ i \in ToSet(rest) /\ i \in QueueItem
    BY <1>5, <1>14, <1>15
  <2>2. /\ i.method \in RequestMethods => IsRequest(i)
        /\ i.method = "write" => i.l \in HttpWriters /\ client[i.l].src = i.src /\ tgtd[i.src] # i.l
    BY <2>1 DEF HttpInv
  <2>3. ASSUME i.method = "write" PROVE tgtd'[i.src] # i.l
    <3>1. i.src \in HttpSources
      BY <2>1 DEF QueueItem
    <3>2. CASE tgtd'[i.src] = tgtd[i.src]
      BY <2>2, <2>3, <3>2
    <3>3. ASSUME NEW j \in ToSet(chunk), j.method = "write", j.src = i.src, tgtd'[i.src] = j.l
          PROVE  tgtd'[i.src] # i.l
      <4>1. j # i
        BY <1>9, <2>1, <2>3, <3>3
      <4>2. /\ j = [src |-> j.src, l |-> j.l, method |-> j.method]
            /\ i = [src |-> i.src, l |-> i.l, method |-> i.method]
        BY <1>14, <1>15, <2>1, <3>3 DEF QueueItem
      <4> QED BY <2>3, <3>3, <4>1, <4>2
    <3> QED BY <1>13, <3>1, <3>2, <3>3
  <2>4. i.method \in RequestMethods => IsRequest(i)'
    BY <1>4, <2>2 DEF IsRequest
  <2> QED BY <1>4, <2>2, <2>3, <2>4
<1>19. ASSUME NEW i \in ToSet(SourcesIn(chunk)), i.method # "u" PROVE IsRequest(i)
  <2>1. i \in ToSet(srcq) /\ i.method # "write" /\ i \in QueueItem
    BY <1>11, <1>14, <1>15
  <2>2. i.method \in RequestMethods
    BY <1>19, <2>1 DEF QueueItem
  <2> QED BY <2>1, <2>2 DEF HttpInv
<1>20. \A i \in ToSet(srcd') : i.method # "u" => IsRequest(i)'
  <2>1. \A i \in ToSet(srcd') : i.method # "u" => IsRequest(i)
    BY <1>12, <1>19 DEF HttpInv
  <2> QED BY <1>4, <2>1 DEF IsRequest
<1>21. ASSUME NEW i \in ToSet(srcq'), i \in ToSet(srcd') PROVE i.method = "u"
  <2>1. i \in ToSet(rest) /\ i \in ToSet(srcq)
    BY <1>5, <1>15
  <2>2. CASE i \in ToSet(srcd)
    BY <2>1, <2>2 DEF HttpInv
  <2>3. CASE i \in ToSet(SourcesIn(chunk))
    BY <1>9, <1>11, <2>1, <2>3
  <2> QED BY <1>12, <1>21, <2>2, <2>3
<1>22. ASSUME NEW s \in HttpSources, tgtd'[s] # NoHttp
       PROVE  tgtd'[s] \in HttpWriters /\ client'[tgtd'[s]].src = s
  <2>1. CASE tgtd'[s] = tgtd[s]
    BY <1>4, <1>22, <2>1 DEF HttpInv
  <2>2. ASSUME NEW i \in ToSet(chunk), i.method = "write", i.src = s, tgtd'[s] = i.l
        PROVE  tgtd'[s] \in HttpWriters /\ client'[tgtd'[s]].src = s
    <3>1. i \in ToSet(srcq)
      BY <1>15
    <3> QED BY <1>4, <2>2, <3>1 DEF HttpInv
  <2> QED BY <1>13, <2>1, <2>2
<1>23. \A p \in rmap' : client'[p[2]] = [src |-> p[1], method |-> "s"]
  BY <1>4 DEF HttpInv
<1>24. \A i \in ToSet(telling'.todo) : i.method = "s" => IsRequest(i)'
  <2>1. \A i \in ToSet(telling.todo) : i.method = "s" => IsRequest(i)
    BY DEF HttpInv
  <2> QED BY <1>4, <2>1 DEF IsRequest
<1>25. OnceIn(srcq)'
  BY <1>5, <1>10 DEF OnceIn
<1>26. telling'.called => telling'.todo # <<>>
  BY <1>4 DEF HttpInv
<1> QED BY <1>26, <1>17, <1>18, <1>20, <1>21, <1>22, <1>23, <1>24, <1>25 DEF HttpInv

-----------------------------------------------------------------------------
\* Answers change neither the clients nor the queue.  Those who wait become
\* fewer, and who is told had asked.
LEMMA AnswerKeeps ==
  ASSUME HttpInv, client' = client, srcq' = srcq, rmap' = rmap,
         srcd' \in Seq(QueueItem), ToSet(srcd') \subseteq ToSet(srcd),
         tgtd' = tgtd \/ tgtd' = NoTargets,
         telling' = [rest |-> telling'.rest, todo |-> telling'.todo, called |-> telling'.called],
         telling'.todo \in Seq(ToldItem),
         \A i \in ToSet(telling'.todo) :
           i.method = "s" => i \in ToSet(telling.todo) \union ToSet(srcd),
         telling'.called => telling'.todo # <<>>
  PROVE  HttpInv'
<1>1. TypeOKHttp /\ HttpAssumption
  BY HttpAssumption DEF HttpInv
<1>2. TypeOKHttp'
  BY <1>1 DEF TypeOKHttp, NoTargets
<1>3. ASSUME NEW i \in ToSet(srcq)
      PROVE  /\ i.method \in RequestMethods => IsRequest(i)'
             /\ i.method = "write" => i.l \in HttpWriters /\ client'[i.l].src = i.src /\ tgtd'[i.src] # i.l
  <2>1. /\ i.method \in RequestMethods => IsRequest(i)
        /\ i.method = "write" => i.l \in HttpWriters /\ client[i.l].src = i.src /\ tgtd[i.src] # i.l
    BY DEF HttpInv
  <2>2. i.src \in HttpSources /\ i.l # NoHttp
    <3>1. i \in QueueItem
      BY <1>1, ElementsOf DEF TypeOKHttp
    <3> QED BY <1>1, <3>1 DEF QueueItem, HttpAssumption
  <2>3. i.method = "write" => tgtd'[i.src] # i.l
    BY <2>1, <2>2 DEF NoTargets
  <2> QED BY <2>1, <2>3 DEF IsRequest
<1>4. \A i \in ToSet(srcd') : i.method # "u" => IsRequest(i)'
  <2>1. \A i \in ToSet(srcd) : i.method # "u" => IsRequest(i)
    BY DEF HttpInv
  <2> QED BY <2>1 DEF IsRequest
<1>5. \A i \in ToSet(srcq') \intersect ToSet(srcd') : i.method = "u"
  BY DEF HttpInv
<1>6. OnceIn(srcq)'
  BY DEF HttpInv, OnceIn
<1>7. \A s \in HttpSources : tgtd'[s] # NoHttp => tgtd'[s] \in HttpWriters /\ client'[tgtd'[s]].src = s
  BY DEF HttpInv, NoTargets
<1>8. \A p \in rmap' : client'[p[2]] = [src |-> p[1], method |-> "s"]
  BY DEF HttpInv
<1>9. \A i \in ToSet(telling'.todo) : i.method = "s" => IsRequest(i)'
  <2>1. \A i \in ToSet(srcd) \union ToSet(telling.todo) : i.method = "s" => IsRequest(i)
    BY DEF HttpInv
  <2> QED BY <2>1 DEF IsRequest
<1> QED BY <1>2, <1>3, <1>4, <1>5, <1>6, <1>7, <1>8, <1>9 DEF HttpInv

\* When nobody is being told there is nothing to tell.
LEMMA NothingTold ==
  /\ ToSet(<<>>) = {} /\ <<>> \in Seq(ToldItem) /\ <<>> \in Seq(QueueItem)
  /\ Nobody = [rest |-> Nobody.rest, todo |-> Nobody.todo, called |-> Nobody.called]
  /\ Nobody.todo = <<>>
BY DEF ToSet, Nobody

\* A part of an answer arrives.
LEMMA ReplyReadyKeeps ==
  ASSUME HttpInv, NEW i \in 1..Len(net), OnReplyReady(i)
  PROVE  HttpInv'
<1>1. /\ client' = client /\ srcq' = srcq /\ rmap' = rmap /\ srcd' = srcd /\ tgtd' = tgtd
      /\ telling' = [Nobody EXCEPT !.rest = Names(net[i].items)]
  BY DEF OnReplyReady
<1>2. telling' = [rest |-> telling'.rest, todo |-> <<>>, called |-> FALSE]
  BY <1>1 DEF Nobody
<1>3. /\ telling' = [rest |-> telling'.rest, todo |-> telling'.todo, called |-> telling'.called]
      /\ telling'.todo = <<>> /\ ~telling'.called
  BY <1>2
<1>4. srcd \in Seq(QueueItem)
  BY DEF HttpInv, TypeOKHttp
<1> QED BY <1>1, <1>3, <1>4, NothingTold, AnswerKeeps

\* What a step has to show of `telling' when it leaves it alone.
LEMMA SameTelling ==
  ASSUME HttpInv, telling' = telling
  PROVE  /\ telling' = [rest |-> telling'.rest, todo |-> telling'.todo, called |-> telling'.called]
         /\ telling'.todo \in Seq(ToldItem) /\ telling'.todo = telling.todo
         /\ telling'.called => telling'.todo # <<>>
BY DEF HttpInv, TypeOKHttp

\* The server asks who the client is.
LEMMA AuthRequestKeeps ==
  ASSUME HttpInv, NEW i \in 1..Len(net), OnAuthRequest(i)
  PROVE  HttpInv'
<1>1. /\ client' = client /\ srcq' = srcq /\ rmap' = rmap /\ srcd' = srcd /\ tgtd' = tgtd
      /\ telling' = telling
  BY DEF OnAuthRequest
<1>2. srcd \in Seq(QueueItem)
  BY DEF HttpInv, TypeOKHttp
<1> QED BY <1>1, <1>2, SameTelling, AnswerKeeps

\* m_lis_update: who asked for the source is told, and who wrote to any.
LEMMA LisUpdateKeeps ==
  ASSUME HttpInv, LisUpdate
  PROVE  HttpInv'
<1> DEFINE places == {k \in 1..Len(srcd) : srcd[k].src = Head(telling.rest)}
           others == (1..Len(srcd)) \ places
           latest == Reverse(Kept(srcd, places))
<1>1. /\ TypeOKHttp /\ srcd \in Seq(QueueItem)
  BY DEF HttpInv, TypeOKHttp
<1>2. /\ telling' = [telling EXCEPT !.rest = Tail(@), !.todo = latest \o TargetsWaiting]
      /\ srcd' = Kept(srcd, others) /\ tgtd' = NoTargets
      /\ client' = client /\ srcq' = srcq /\ rmap' = rmap
  BY DEF LisUpdate
<1>3. places \in SUBSET (1..Len(srcd)) /\ others \in SUBSET (1..Len(srcd))
  OBVIOUS
<1> HIDE DEF places, others
<1>4. Kept(srcd, places) \in Seq(QueueItem) /\ ToSet(Kept(srcd, places)) = {srcd[p] : p \in places}
  BY <1>1, <1>3, ElementsKept
<1>5. Kept(srcd, others) \in Seq(QueueItem) /\ ToSet(Kept(srcd, others)) = {srcd[p] : p \in others}
  BY <1>1, <1>3, ElementsKept
<1>6. \A k \in 1..Len(srcd) : srcd[k] \in ToSet(srcd)
  BY <1>1, ElementsOf
<1>7. srcd' \in Seq(QueueItem) /\ ToSet(srcd') \subseteq ToSet(srcd)
  BY <1>2, <1>3, <1>5, <1>6
<1>8. latest \in Seq(QueueItem) /\ ToSet(latest) = ToSet(Kept(srcd, places))
  BY <1>4, ElementsReversed
<1> HIDE DEF latest
<1>9. latest \in Seq(ToldItem)
  <2>1. \A i \in QueueItem : i \in ToldItem
    BY DEF QueueItem, ToldItem
  <2> QED BY <1>8, <2>1, SeqMonotonic
<1>10. /\ latest \o TargetsWaiting \in Seq(ToldItem)
       /\ ToSet(latest \o TargetsWaiting) = ToSet(latest) \union ToSet(TargetsWaiting)
  BY <1>1, <1>9, TargetsListed, ElementsConcatenated
<1>11. telling' = [rest |-> telling'.rest, todo |-> latest \o TargetsWaiting, called |-> telling.called]
  <2>1. telling = [rest |-> telling.rest, todo |-> telling.todo, called |-> telling.called]
    BY <1>1 DEF TypeOKHttp
  <2> QED BY <1>2, <2>1
<1>12. /\ telling' = [rest |-> telling'.rest, todo |-> telling'.todo, called |-> telling'.called]
       /\ telling'.todo = latest \o TargetsWaiting /\ telling'.called = telling.called
  BY <1>11
<1>13. \A i \in ToSet(telling'.todo) : i.method = "s" => i \in ToSet(srcd)
  <2>1. \A i \in ToSet(TargetsWaiting) : i.method = "write"
    BY <1>1, TargetsListed
  <2>2. \A i \in ToSet(latest) : i \in ToSet(srcd)
    BY <1>3, <1>4, <1>6, <1>8
  <2> QED BY <1>10, <1>12, <2>1, <2>2
<1>14. ~telling.called
  BY DEF HttpInv, LisUpdate
<1> QED BY <1>2, <1>7, <1>10, <1>12, <1>13, <1>14, AnswerKeeps

\* The listener whose turn it is is called.
LEMMA CallHttpKeeps ==
  ASSUME HttpInv, CallHttpListener
  PROVE  HttpInv'
<1>1. /\ client' = client /\ srcq' = srcq /\ rmap' = rmap /\ srcd' = srcd /\ tgtd' = tgtd
      /\ telling' = [telling EXCEPT !.called = TRUE]
  BY DEF CallHttpListener
<1>2. TypeOKHttp /\ telling.todo # <<>>
  BY DEF HttpInv, CallHttpListener
<1>3. telling' = [rest |-> telling'.rest, todo |-> telling.todo, called |-> telling'.called]
  BY <1>1, <1>2 DEF TypeOKHttp
<1>4. /\ telling' = [rest |-> telling'.rest, todo |-> telling'.todo, called |-> telling'.called]
      /\ telling'.todo = telling.todo
  BY <1>3
<1> QED BY <1>1, <1>2, <1>4, AnswerKeeps DEF TypeOKHttp

\* After the call the listener of a subscription is told by the channel: it
\* still has the source.
LEMMA AfterCallKeeps ==
  ASSUME HttpInv, AfterCall
  PROVE  HttpInv'
<1> DEFINE i == Head(telling.todo)
<1>1. TypeOKHttp /\ telling.todo \in Seq(ToldItem) /\ telling.todo # <<>>
  BY DEF HttpInv, TypeOKHttp, AfterCall
<1>2. i \in ToSet(telling.todo) /\ Tail(telling.todo) \in Seq(ToldItem) /\ i \in ToldItem
      /\ ToSet(Tail(telling.todo)) \subseteq ToSet(telling.todo)
  BY <1>1, ElementsAfterHead, ElementsOf
<1>3. /\ client' = client /\ srcq' = srcq /\ srcd' = srcd /\ tgtd' = tgtd
      /\ rmap' = LisUpdated(i)
      /\ telling' = [telling EXCEPT !.todo = Tail(@), !.called = FALSE]
  BY DEF AfterCall
<1> HIDE DEF i
<1>4. telling' = [rest |-> telling'.rest, todo |-> Tail(telling.todo), called |-> FALSE]
  BY <1>1, <1>3 DEF TypeOKHttp
<1>5. /\ telling' = [rest |-> telling'.rest, todo |-> telling'.todo, called |-> telling'.called]
      /\ telling'.todo = Tail(telling.todo) /\ ~telling'.called
  BY <1>4
<1>6. \/ rmap' \subseteq rmap
      \/ i.method = "s" /\ rmap' = rmap \union {<<i.src, i.l>>}
  BY <1>3 DEF LisUpdated
<1>7. i.method = "s" => client[i.l] = [src |-> i.src, method |-> "s"]
  <2>1. i.method = "s" => IsRequest(i)
    BY <1>2 DEF HttpInv
  <2> QED BY <2>1 DEF IsRequest
<1>8. rmap' \subseteq HttpSources \X HttpListeners
  BY <1>1, <1>2, <1>6 DEF TypeOKHttp, ToldItem
<1>9. \A p \in rmap' : client'[p[2]] = [src |-> p[1], method |-> "s"]
  <2>1. \A p \in rmap : client[p[2]] = [src |-> p[1], method |-> "s"]
    BY DEF HttpInv
  <2>2. client[<<i.src, i.l>>[2]] = [src |-> <<i.src, i.l>>[1], method |-> "s"] \/ rmap' \subseteq rmap
    BY <1>6, <1>7
  <2> QED BY <1>3, <1>6, <2>1, <2>2
<1>10. TypeOKHttp'
  BY <1>1, <1>2, <1>3, <1>5, <1>8 DEF TypeOKHttp
<1>11. \A x \in ToSet(telling'.todo) : x.method = "s" => IsRequest(x)'
  <2>1. \A x \in ToSet(telling.todo) : x.method = "s" => IsRequest(x)
    BY DEF HttpInv
  <2> QED BY <1>2, <1>3, <1>5, <2>1 DEF IsRequest
<1> QED BY <1>3, <1>9, <1>10, <1>11 DEF HttpInv, IsRequest, OnceIn

\* A request fails: its items are told, or put back in the queue.
LEMMA ReplyErrorKeeps ==
  ASSUME HttpInv, NEW i \in 1..Len(net), OnReplyError(i)
  PROVE  HttpInv'
<1> DEFINE S == {srcd[k].src : k \in 1..Len(srcd)}
           keys == SetToSeq(S)
           Late(s) == Item(s, srcd[SelectLastInSeq(srcd, LAMBDA it : it.src = s)].l, "error")
           t == [k \in 1..Len(keys) |-> Late(keys[k])]
<1>1. /\ telling' = [Nobody EXCEPT !.todo = t]
      /\ srcd' = <<>> /\ tgtd' = NoTargets /\ client' = client /\ srcq' = srcq /\ rmap' = rmap
  BY DEF OnReplyError
<1>2. TypeOKHttp /\ srcd \in Seq(QueueItem)
  BY DEF HttpInv, TypeOKHttp
<1>3. \A k \in 1..Len(srcd) : srcd[k] \in QueueItem
  BY <1>2
<1>4. keys \in Seq(S) /\ Len(keys) \in Nat
  <2>1. S \in SUBSET (HttpListeners \union HttpSources)
    BY <1>3 DEF QueueItem
  <2>2. IsFiniteSet(S)
    <3> HIDE DEF S
    <3> QED BY <2>1, HttpAssumption, FS_Subset
  <2> HIDE DEF S
  <2> QED BY <2>2, ElementsListed
<1>5. ASSUME NEW s \in S
      PROVE  Late(s) \in ToldItem /\ Late(s).method = "error"
  <2> DEFINE ps == {k \in 1..Len(srcd) : srcd[k].src = s}
  <2>1. ps \in SUBSET (1..Len(srcd)) /\ ps # {} /\ Len(srcd) \in Nat
    BY <1>2
  <2>2. SelectLastInSeq(srcd, LAMBDA it : it.src = s) = Max(ps)
    BY <2>1 DEF SelectLastInSeq
  <2> HIDE DEF ps
  <2>3. Max(ps) \in ps
    BY <2>1, LastPlace
  <2>4. srcd[Max(ps)] \in QueueItem
    BY <1>3, <2>1, <2>3
  <2>5. s \in HttpSources
    BY <1>3 DEF QueueItem
  <2>6. Late(s) = Item(s, srcd[Max(ps)].l, "error")
    BY <2>2
  <2> QED BY <2>4, <2>5, <2>6 DEF QueueItem, ToldItem, Item
<1> HIDE DEF keys, S, Late
<1>6. \A k \in 1..Len(keys) : Late(keys[k]) \in ToldItem /\ Late(keys[k]).method = "error"
  BY <1>4, <1>5
<1>7. t \in Seq(ToldItem) /\ Len(t) = Len(keys)
  BY <1>4, <1>6
<1>8. \A k \in 1..Len(t) : t[k].method = "error"
  BY <1>6, <1>7
<1> HIDE DEF t
<1>9. \A x \in ToSet(t) : x.method = "error"
  BY <1>7, <1>8, ElementsOf
<1>10. telling' = [rest |-> telling'.rest, todo |-> telling'.todo, called |-> telling'.called]
      /\ telling'.todo = t /\ ~telling'.called
  BY <1>1 DEF Nobody
<1> QED BY <1>1, <1>7, <1>9, <1>10, NothingTold, AnswerKeeps

-----------------------------------------------------------------------------

\* The targets are taken out of their map and told.
LEMMA TellTargetsKeeps ==
  ASSUME HttpInv, TellTargets,
         client' = client, srcq' = srcq, rmap' = rmap, srcd' = srcd
  PROVE  HttpInv'
<1>1. /\ telling' = [Nobody EXCEPT !.todo = TargetsWaiting] /\ tgtd' = NoTargets
  BY DEF TellTargets
<1>2. TypeOKHttp
  BY DEF HttpInv
<1>3. /\ telling' = [rest |-> telling'.rest, todo |-> telling'.todo, called |-> telling'.called]
      /\ telling'.todo = TargetsWaiting /\ ~telling'.called
  BY <1>1 DEF Nobody
<1>4. TargetsWaiting \in Seq(ToldItem) /\ \A i \in ToSet(TargetsWaiting) : i.method = "write"
  BY <1>2, TargetsListed
<1>5. srcd \in Seq(QueueItem)
  BY <1>2 DEF TypeOKHttp
<1> QED BY <1>1, <1>3, <1>4, <1>5, AnswerKeeps

\* Steps that change nothing the invariant is about.
LEMMA SameKeeps ==
  ASSUME HttpInv, UNCHANGED <<client, srcq, srcd, tgtd, rmap, telling>>
  PROVE  HttpInv'
<1>1. srcd \in Seq(QueueItem)
  BY DEF HttpInv, TypeOKHttp
<1> QED BY <1>1, SameTelling, AnswerKeeps

\* The client logs in.
LEMMA LoginKeeps ==
  ASSUME HttpInv, HttpLogin
  PROVE  HttpInv'
<1>1. client' = client /\ srcq' = srcq /\ rmap' = rmap /\ srcd' = srcd
  BY DEF HttpLogin, OnCredsReady, OnAuthReply
<1>2. TellTargets \/ (telling' = telling /\ tgtd' = tgtd)
  BY DEF HttpLogin, OnCredsReady, OnAuthReply
<1> QED BY <1>1, <1>2, TellTargetsKeeps, SameKeeps

\* An event of the channel is decoded.
LEMMA DecodeKeeps ==
  ASSUME HttpInv, NEW s \in HttpSources, DecodeMessage(s)
  PROVE  HttpInv'
<1> DEFINE S == {p[2] : p \in {q \in rmap : q[1] = s}}
           ls == SetToSeq(S)
           t == [k \in 1..Len(ls) |-> Item(s, ls[k], "channel")]
<1>1. /\ telling' = [Nobody EXCEPT !.todo = t]
      /\ srcd' = srcd /\ tgtd' = tgtd /\ client' = client /\ srcq' = srcq /\ rmap' = rmap
  BY DEF DecodeMessage
<1>2. TypeOKHttp /\ srcd \in Seq(QueueItem)
  BY DEF HttpInv, TypeOKHttp
<1>3. S \in SUBSET HttpListeners
  BY <1>2 DEF TypeOKHttp
<1>4. ls \in Seq(S) /\ Len(ls) \in Nat
  <2> HIDE DEF S
  <2>1. S \in SUBSET (HttpListeners \union HttpSources)
    BY <1>3
  <2>2. IsFiniteSet(S)
    BY <2>1, HttpAssumption, FS_Subset
  <2> QED BY <2>2, ElementsListed
<1> HIDE DEF ls, S
<1>5. \A k \in 1..Len(ls) : Item(s, ls[k], "channel") \in ToldItem
  BY <1>3, <1>4 DEF ToldItem, Item
<1>6. t \in Seq(ToldItem) /\ Len(t) = Len(ls)
  BY <1>4, <1>5
<1>7. \A k \in 1..Len(t) : t[k].method = "channel"
  BY <1>6 DEF Item
<1> HIDE DEF t
<1>8. \A x \in ToSet(t) : x.method = "channel"
  BY <1>6, <1>7, ElementsOf
<1>9. telling' = [rest |-> telling'.rest, todo |-> telling'.todo, called |-> telling'.called]
      /\ telling'.todo = t /\ ~telling'.called
  BY <1>1 DEF Nobody
<1> QED BY <1>1, <1>2, <1>6, <1>8, <1>9, AnswerKeeps

-----------------------------------------------------------------------------

\* Every step of the engine keeps the invariant, when no listener leaves from
\* its own callback and none writes again while its write is under way.
LEMMA HttpInvNext ==
  ASSUME HttpInv, "unset" \notin HttpInCallback, ~WriteAgain, [NextHttp]_httpVars
  PROVE  HttpInv'
<1>1. CASE HttpClientStep
  <2>1. ASSUME NEW l \in HttpReaders, NEW s \in HttpSources, NEW m \in {"s", "read"}, SetSource(l, s, m)
        PROVE  HttpInv'
    <3>1. m \in RequestMethods /\ l \in HttpListeners
      BY DEF RequestMethods, HttpListeners
    <3> QED BY <2>1, <3>1, SetSourceKeeps
  <2>2. ASSUME NEW l \in HttpReaders, UnsetSource(l) PROVE HttpInv'
    BY <2>2, UnsetSourceKeeps
  <2>3. ASSUME NEW l \in HttpReaders, DeleteReader(l) PROVE HttpInv'
    BY <2>3, DeleteReaderKeeps
  <2>4. ASSUME NEW l \in HttpWriters, NEW s \in HttpSources, SetTarget(l, s) PROVE HttpInv'
    <3>1. "conf" \in RequestMethods /\ l \in HttpListeners /\ SetSource(l, s, "conf")
      BY <2>4 DEF RequestMethods, HttpListeners, SetTarget
    <3> QED BY <3>1, SetSourceKeeps
  <2>5. ASSUME NEW l \in HttpWriters, ExecuteWriter(l) PROVE HttpInv'
    BY <2>5, ExecuteKeeps
  <2>6. ASSUME NEW l \in HttpWriters, ClearTarget(l) PROVE HttpInv'
    BY <2>6, ClearTargetKeeps
  <2> QED BY <1>1, <2>1, <2>2, <2>3, <2>4, <2>5, <2>6 DEF HttpClientStep
<1>2. CASE OnDequeueTimeout
  BY <1>2, DequeueKeeps
<1>3. CASE OnIdReady
  BY <1>3, SameKeeps DEF OnIdReady
<1>4. CASE Tell
  BY <1>4, LisUpdateKeeps, CallHttpKeeps, AfterCallKeeps DEF Tell
<1>5. CASE HttpLogin
  BY <1>5, LoginKeeps
<1>6. ASSUME NEW i \in 1..Len(net), OnReplyReady(i) \/ OnReplyError(i) \/ OnAuthRequest(i)
      PROVE  HttpInv'
  BY <1>6, ReplyReadyKeeps, ReplyErrorKeeps, AuthRequestKeeps
<1>7. ASSUME NEW s \in HttpSources, DecodeMessage(s) PROVE HttpInv'
  BY <1>7, DecodeKeeps
<1>8. CASE UNCHANGED httpVars
  BY <1>8, SameKeeps DEF httpVars
<1> QED BY <1>1, <1>2, <1>3, <1>4, <1>5, <1>6, <1>7, <1>8 DEF NextHttp

\* Neither an answer nor the channel tells a listener that has left, however
\* many requests are under way and in whatever order they are answered
\* (cumbiahttp.cpp:222-228), when no listener leaves from its own callback and
\* none writes again while its write is under way.
THEOREM HttpTellsNoneWhoLeft ==
  ASSUME "unset" \notin HttpInCallback, ~WriteAgain
  PROVE  SpecHttp => []HttpNoneToldAfterLeaving
<1>1. HttpInv /\ [NextHttp]_httpVars => HttpInv'
  BY HttpInvNext
<1> QED BY <1>1, HttpInvInit, InvTold, PTL DEF SpecHttp

-----------------------------------------------------------------------------
(* The WebSocket engine                                                    *)

\* The types of actions, the messages, the actions and the engine.
WsTypes == {"reader", "rconf", "wconf", "write"}
WsMessage == [op : WsTypes \union {"subscribe", "unsubscribe", "error"}, src : WsSources]
WsAction == [type : WsTypes, src : WsSources, lis : SUBSET WsListeners, exit : BOOLEAN, deleted : BOOLEAN]
WsEngine == [made : Seq(WsAction), list : Seq(Nat), out : Seq(WsMessage), open : BOOLEAN, bad : BOOLEAN]

\* The actions of a type for a source that have not stopped.
Working(e, t, s) ==
  {i \in 1..Len(e.made) : e.made[i].type = t /\ e.made[i].src = s /\ ~e.made[i].exit}

\* An action that has not stopped is in the list, alone of its type and source.
EngineOK(e) ==
  /\ e \in WsEngine
  /\ \A k \in 1..Len(e.list) : e.list[k] \in 1..Len(e.made)
  /\ \A i \in 1..Len(e.made) : ~e.made[i].exit =>
       ~e.made[i].deleted /\ \E k \in 1..Len(e.list) : e.list[k] = i
  /\ \A t \in WsTypes, s \in WsSources : \A i, j \in Working(e, t, s) : i = j

TypeOKWs ==
  /\ EngineOK(ws)
  /\ wsLink \in [WsListeners -> WsSources \union {NoWs}]
  /\ wsServer \in [inbox : Seq(WsMessage), subscribed : SUBSET WsSources]
  /\ wsIn \in Seq(WsMessage)
  /\ wsTelling \in [action : 0..Len(ws.made), todo : SUBSET WsListeners, done : SUBSET WsListeners,
                    told : WsListeners \union {NoWs}, more : BOOLEAN]

\* What the server makes of messages on their way: whether it is subscribed to s.
Subscribes(m, s) == m.src = s /\ m.op \in {"subscribe", "unsubscribe"}
Changes(ms, s) == {k \in 1..Len(ms) : Subscribes(ms[k], s)}
Will(ms, sub, s) ==
  \/ Changes(ms, s) = {} /\ s \in sub
  \/ Changes(ms, s) # {} /\ ms[Max(Changes(ms, s))].op = "subscribe"
SubscribedAfter(m, sub) ==
  IF m.op = "subscribe" THEN sub \union {m.src}
  ELSE IF m.op = "unsubscribe" THEN sub \ {m.src} ELSE sub

Linked(link, s) == {l \in WsReaders : link[l] = s}

\* The only reader that works for a source has the listeners of the source.
Serves(e, link, s) ==
  /\ \A i \in Working(e, "reader", s) : e.made[i].lis = Linked(link, s)
  /\ Working(e, "reader", s) = {} => Linked(link, s) = {}
ReadersServe(e, link) == \A s \in WsSources : Serves(e, link, s)

ToldOrWorking(e, told) ==
  \A i \in 1..Len(e.made) : e.made[i].lis # {} => ~e.made[i].exit \/ told = i

ServerWill(e, server) ==
  \A s \in WsSources :
    Will(server.inbox \o e.out, server.subscribed, s) <=> Working(e, "reader", s) # {}

RequestsOut(e, inbox, arrived) ==
  \A i \in 1..Len(e.made) : e.made[i].type # "reader" /\ ~e.made[i].exit =>
    Msg(e.made[i].type, e.made[i].src) \in ToSet(e.out) \union ToSet(inbox) \union ToSet(arrived)

WsInv ==
  /\ TypeOKWs
  /\ ReadersServe(ws, wsLink)
  /\ ToldOrWorking(ws, wsTelling.action)
  /\ ServerWill(ws, wsServer)
  /\ RequestsOut(ws, wsServer.inbox, wsIn)

-----------------------------------------------------------------------------
\* The last of some places is the only one that none of them exceeds.
LEMMA LastPlaceOnly ==
  ASSUME NEW n \in Nat, NEW ps \in SUBSET (1..n), NEW p \in ps, \A k \in ps : p >= k
  PROVE  Max(ps) = p
<1>1. Max(ps) \in ps /\ \A k \in ps : Max(ps) >= k
  BY LastPlace
<1> DEFINE q == Max(ps)
<1>2. q \in 1..n /\ p \in 1..n /\ q >= p /\ p >= q
  BY <1>1
<1> HIDE DEF q
<1>3. q = p
  BY <1>2
<1> QED BY <1>3 DEF q

\* A message sent last decides, if it is about the source.
LEMMA WillSent ==
  ASSUME NEW ms \in Seq(WsMessage), NEW m \in WsMessage, NEW sub, NEW s
  PROVE  /\ Subscribes(m, s) => (Will(Append(ms, m), sub, s) <=> m.op = "subscribe")
         /\ ~Subscribes(m, s) => (Will(Append(ms, m), sub, s) <=> Will(ms, sub, s))
<1> DEFINE t == Append(ms, m)
           n == Len(ms)
<1>1. t \in Seq(WsMessage) /\ Len(t) = n + 1 /\ t[n + 1] = m /\ \A k \in 1..n : t[k] = ms[k]
  BY AppendProperties
<1>2. n \in Nat
  OBVIOUS
<1> HIDE DEF t
<1>3. Changes(t, s) \in SUBSET (1..(n + 1)) /\ Changes(ms, s) \in SUBSET (1..n)
  BY <1>1 DEF Changes, n
<1> HIDE DEF n
<1>4. \A k \in 1..(n + 1) : k \in 1..n \/ k = n + 1
  BY <1>2
<1>5. \A k \in 1..n : k \in 1..(n + 1)
  BY <1>2
<1>6. n + 1 \in 1..(n + 1) /\ n + 1 \notin 1..n
  BY <1>2
<1>7. \A k \in 1..n : k \in Changes(t, s) <=> k \in Changes(ms, s)
  BY <1>1, <1>5 DEF Changes, n
<1>8. n + 1 \in Changes(t, s) <=> Subscribes(m, s)
  BY <1>1, <1>6 DEF Changes
<1>9. CASE Subscribes(m, s)
  <2>1. \A k \in Changes(t, s) : n + 1 >= k
    BY <1>2, <1>3
  <2> DEFINE cs == Changes(t, s)
             last == n + 1
  <2>2. last \in Nat /\ cs \in SUBSET (1..last) /\ last \in cs /\ \A k \in cs : last >= k
    BY <1>2, <1>3, <1>8, <1>9, <2>1
  <2> HIDE DEF cs, last
  <2>3. Max(cs) = last
    BY <2>2, LastPlaceOnly
  <2> QED BY <1>1, <1>8, <1>9, <2>3 DEF Will, cs, last, t
<1>10. CASE ~Subscribes(m, s)
  <2>1. Changes(t, s) = Changes(ms, s)
    BY <1>3, <1>4, <1>6, <1>7, <1>8, <1>10
  <2>2. CASE Changes(ms, s) = {}
    BY <1>10, <2>1, <2>2 DEF Will, t
  <2>3. CASE Changes(ms, s) # {}
    <3>1. Max(Changes(ms, s)) \in 1..n
      BY <1>2, <1>3, <2>3, LastPlace
    <3> QED BY <1>1, <1>10, <2>1, <2>3, <3>1 DEF Will, t
  <2> QED BY <2>2, <2>3
<1> QED BY <1>9, <1>10 DEF t

\* Nothing changes when the server takes the first message.
LEMMA WillServed ==
  ASSUME NEW ms \in Seq(WsMessage), ms # <<>>, NEW sub, NEW s
  PROVE  Will(Tail(ms), SubscribedAfter(Head(ms), sub), s) <=> Will(ms, sub, s)
<1> DEFINE t == Tail(ms)
           n == Len(ms)
           m == Head(ms)
<1>1. t \in Seq(WsMessage) /\ Len(t) = n - 1 /\ \A k \in 1..(n - 1) : t[k] = ms[k + 1]
  BY HeadTailProperties
<1>2. n \in Nat \ {0} /\ m = ms[1]
  OBVIOUS
<1> HIDE DEF t, m
<1>3. Changes(t, s) \in SUBSET (1..(n - 1)) /\ Changes(ms, s) \in SUBSET (1..n)
  BY <1>1 DEF Changes
<1>4. \A k \in 1..(n - 1) : k \in Changes(t, s) <=> k + 1 \in Changes(ms, s)
  <2>1. \A k \in 1..(n - 1) : k + 1 \in 1..n
    BY <1>2
  <2> QED BY <1>1, <2>1 DEF Changes
<1>5. 1 \in Changes(ms, s) <=> Subscribes(m, s)
  BY <1>2 DEF Changes
<1> HIDE DEF n
<1>6. CASE Changes(t, s) # {}
  <2> DEFINE p == Max(Changes(t, s))
  <2>1. p \in Changes(t, s) /\ \A k \in Changes(t, s) : p >= k
    <3> DEFINE cs == Changes(t, s)
               last == n - 1
    <3>1. last \in Nat /\ cs \in SUBSET (1..last) /\ cs # {}
      BY <1>2, <1>3, <1>6
    <3> HIDE DEF cs, last
    <3>2. Max(cs) \in cs /\ \A k \in cs : Max(cs) >= k
      BY <3>1, LastPlace
    <3> QED BY <3>2 DEF cs
  <2>2. p \in 1..(n - 1)
    BY <1>3, <2>1
  <2> HIDE DEF p
  <2>3. p + 1 \in Changes(ms, s) /\ \A k \in Changes(ms, s) : p + 1 >= k
    <3>1. ASSUME NEW k \in Changes(ms, s) PROVE p + 1 >= k
      <4>1. k \in 1..n
        BY <1>3
      <4>2. CASE k = 1
        BY <2>2, <4>2
      <4>3. CASE k # 1
        <5>1. PICK j \in 1..(n - 1) : k = j + 1
          <6>1. k - 1 \in 1..(n - 1) /\ k = (k - 1) + 1
            BY <1>2, <4>1, <4>3
          <6> QED BY <6>1
        <5>2. p >= j
          BY <1>4, <2>1, <5>1
        <5> QED BY <2>2, <5>1, <5>2
      <4> QED BY <4>2, <4>3
    <3> QED BY <1>4, <2>1, <2>2, <3>1
  <2>4. Max(Changes(ms, s)) = p + 1
    BY <1>2, <1>3, <2>3, LastPlaceOnly
  <2>5. t[p] = ms[p + 1]
    BY <1>1, <2>2
  <2> QED BY <1>6, <2>3, <2>4, <2>5 DEF Will, p, t, m
<1>7. CASE Changes(t, s) = {}
  <2>1. \A k \in Changes(ms, s) : k = 1
    <3>1. ASSUME NEW k \in Changes(ms, s), k # 1 PROVE FALSE
      <4>1. k - 1 \in 1..(n - 1) /\ (k - 1) + 1 = k
        BY <1>2, <1>3, <3>1
      <4> QED BY <1>4, <1>7, <4>1
    <3> QED BY <3>1
  <2>2. Will(t, SubscribedAfter(m, sub), s) <=> s \in SubscribedAfter(m, sub)
    BY <1>7 DEF Will
  <2>3. CASE Subscribes(m, s)
    <3>1. Max(Changes(ms, s)) = 1
      <4> DEFINE cs == Changes(ms, s)
      <4>1. n \in Nat /\ cs \in SUBSET (1..n) /\ 1 \in cs /\ \A k \in cs : 1 >= k
        BY <1>2, <1>3, <1>5, <2>1, <2>3
      <4> HIDE DEF cs
      <4>2. Max(cs) = 1
        BY <4>1, LastPlaceOnly
      <4> QED BY <4>2 DEF cs
    <3>2. Will(ms, sub, s) <=> m.op = "subscribe"
      BY <1>2, <1>5, <2>3, <3>1 DEF Will
    <3> QED BY <2>2, <2>3, <3>2 DEF Subscribes, SubscribedAfter, t, m
  <2>4. CASE ~Subscribes(m, s)
    <3>1. Changes(ms, s) = {}
      BY <1>5, <2>1, <2>4
    <3> QED BY <2>2, <2>4, <3>1 DEF Will, Subscribes, SubscribedAfter, t, m
  <2> QED BY <2>3, <2>4
<1> QED BY <1>6, <1>7 DEF t, m

-----------------------------------------------------------------------------
\* findActive finds the action that works for a source, if there is one.
LEMMA FoundWorking ==
  ASSUME NEW e, EngineOK(e), NEW t, NEW s
  PROVE  /\ Active(e, t, s) \in SUBSET (1..Len(e.list)) /\ Len(e.list) \in Nat
         /\ {e.list[k] : k \in Active(e, t, s)} = Working(e, t, s)
         /\ Active(e, t, s) # {} => e.list[FirstOf(Active(e, t, s))] \in Working(e, t, s)
<1> DEFINE ks == Active(e, t, s)
<1>1. ks \in SUBSET (1..Len(e.list)) /\ Len(e.list) \in Nat
  BY DEF Active, Matches, EngineOK, WsEngine
<1>2. ASSUME NEW k \in ks PROVE e.list[k] \in Working(e, t, s)
  BY DEF Active, Matches, EngineOK, Working
<1>3. ASSUME NEW i \in Working(e, t, s) PROVE \E k \in ks : e.list[k] = i
  <2>1. i \in 1..Len(e.made) /\ e.made[i].type = t /\ e.made[i].src = s /\ ~e.made[i].exit
    BY DEF Working
  <2>2. PICK k \in 1..Len(e.list) : e.list[k] = i /\ ~e.made[i].deleted
    BY <2>1 DEF EngineOK
  <2> QED BY <2>1, <2>2 DEF Active, Matches
<1>4. ASSUME ks # {} PROVE FirstOf(ks) \in ks
  <2> HIDE DEF ks
  <2>1. \E p \in ks : \A q \in ks : p <= q
    BY <1>1, <1>4, LeastPlace
  <2> QED BY <2>1 DEF FirstOf
<1> QED BY <1>1, <1>2, <1>3, <1>4

\* The fields of an engine and of its actions.
LEMMA EngineFields ==
  ASSUME NEW e \in WsEngine
  PROVE  /\ e.made \in Seq(WsAction) /\ Len(e.made) \in Nat
         /\ e.list \in Seq(Nat) /\ e.out \in Seq(WsMessage)
         /\ \A i \in 1..Len(e.made) :
              /\ e.made[i] \in WsAction /\ e.made[i].type \in WsTypes /\ e.made[i].src \in WsSources
              /\ e.made[i].lis \in SUBSET WsListeners
              /\ e.made[i].exit \in BOOLEAN /\ e.made[i].deleted \in BOOLEAN
<1>1. e.made \in Seq(WsAction) /\ e.list \in Seq(Nat) /\ e.out \in Seq(WsMessage)
  BY DEF WsEngine
<1>2. \A i \in 1..Len(e.made) : e.made[i] \in WsAction
  BY <1>1
<1> QED BY <1>1, <1>2 DEF WsAction

\* What an action asks when it starts is for the server.
LEMMA StartTyped ==
  ASSUME NEW t \in WsTypes, NEW s \in WsSources
  PROVE  StartMessages(t, s) \in Seq(WsMessage)
<1>1. Msg("subscribe", s) \in WsMessage /\ Msg("rconf", s) \in WsMessage /\ Msg(t, s) \in WsMessage
  BY DEF Msg, WsMessage, WsTypes
<1> QED BY <1>1 DEF StartMessages

\* A listener joins the action that works for the source, or a new one that
\* does.
Joined(e, f, t, s, l) ==
  /\ f.out = e.out /\ Len(f.made) = Len(e.made)
  /\ \E i \in Working(e, t, s) : f.made = [e.made EXCEPT ![i].lis = @ \union {l}]
Started(e, f, t, s, l) ==
  /\ Working(e, t, s) = {} /\ f.out = e.out \o StartMessages(t, s)
  /\ f.made = Append(e.made, [type |-> t, src |-> s, lis |-> {l}, exit |-> FALSE, deleted |-> FALSE])

\* addAction joins the action at work for the source or starts one.
LEMMA AddedIs ==
  ASSUME NEW e, EngineOK(e), NEW t \in WsTypes, NEW s \in WsSources, NEW l \in WsListeners
  PROVE  LET f == Added(e, t, s, l)
         IN  EngineOK(f) /\ (Joined(e, f, t, s, l) \/ Started(e, f, t, s, l))
<1> DEFINE f == Added(e, t, s, l)
           ks == Active(e, t, s)
           i == e.list[FirstOf(ks)]
           new == [type |-> t, src |-> s, lis |-> {l}, exit |-> FALSE, deleted |-> FALSE]
<1>1. e \in WsEngine
  BY DEF EngineOK
<1>2. CASE ks # {}
  <2>1. i \in Working(e, t, s)
    BY <1>2, FoundWorking
  <2>2. f = [e EXCEPT !.made[i].lis = @ \union {l}, !.bad = @ \/ Dangling(e, FirstOf(ks))]
    BY <1>2 DEF Added
  <2>3. i \in 1..Len(e.made)
    BY <2>1 DEF Working
  <2> DEFINE bad == e.bad \/ Dangling(e, FirstOf(ks))
  <2>4. bad \in BOOLEAN
    OBVIOUS
  <2> HIDE DEF f, i, ks
  <2>5. f = [made |-> [e.made EXCEPT ![i].lis = @ \union {l}], list |-> e.list, out |-> e.out,
             open |-> e.open, bad |-> bad]
    BY <1>1, <2>2 DEF WsEngine
  <2> HIDE DEF bad
  <2>6. [e.made EXCEPT ![i].lis = @ \union {l}] \in Seq(WsAction)
        /\ Len([e.made EXCEPT ![i].lis = @ \union {l}]) = Len(e.made)
    <3>1. [e.made[i] EXCEPT !.lis = @ \union {l}] \in WsAction
      <4>1. e.made[i] \in WsAction
        BY <1>1, <2>3, EngineFields
      <4> QED BY <4>1 DEF WsAction
    <3> QED BY <1>1, <2>3, <3>1, EngineFields
  <2>7. f \in WsEngine /\ Len(f.made) = Len(e.made) /\ f.list = e.list /\ f.out = e.out
    BY <1>1, <2>4, <2>5, <2>6 DEF WsEngine
  <2>8. \A j \in 1..Len(e.made) :
          /\ f.made[j].type = e.made[j].type /\ f.made[j].src = e.made[j].src
          /\ f.made[j].exit = e.made[j].exit /\ f.made[j].deleted = e.made[j].deleted
    <3>1. f.made = [e.made EXCEPT ![i].lis = @ \union {l}]
      BY <2>5
    <3>2. \A j \in 1..Len(e.made) : e.made[j] \in WsAction
      BY <1>1, EngineFields
    <3> QED BY <1>1, <2>3, <3>1, <3>2, EngineFields DEF WsAction
  <2>9. \A u \in WsTypes, r \in WsSources : Working(f, u, r) = Working(e, u, r)
    BY <2>7, <2>8 DEF Working
  <2>10. EngineOK(f)
    BY <2>7, <2>8, <2>9 DEF EngineOK
  <2>11. Joined(e, f, t, s, l)
    BY <2>1, <2>5, <2>6, <2>7 DEF Joined
  <2> QED BY <2>10, <2>11 DEF f
<1>3. CASE ks = {}
  <2> DEFINE made == Append(e.made, new)
             list == Append(e.list, Len(e.made) + 1)
             out == e.out \o StartMessages(t, s)
             bad == e.bad \/ Dangling(e, Len(e.list))
  <2>1. f = SendMessages([e EXCEPT !.made = made, !.list = list, !.bad = bad], StartMessages(t, s))
    BY <1>3 DEF Added
  <2>2. f = [made |-> made, list |-> list, out |-> out, open |-> e.open, bad |-> bad]
    BY <1>1, <2>1 DEF SendMessages, WsEngine
  <2>3. bad \in BOOLEAN
    OBVIOUS
  <2>4. /\ made \in Seq(WsAction) /\ Len(made) = Len(e.made) + 1 /\ made[Len(e.made) + 1] = new
        /\ \A j \in 1..Len(e.made) : made[j] = e.made[j]
    <3>1. new \in WsAction /\ e.made \in Seq(WsAction)
      BY <1>1, EngineFields DEF WsAction
    <3> HIDE DEF new
    <3> QED BY <3>1, AppendProperties
  <2>5. /\ list \in Seq(Nat) /\ Len(list) = Len(e.list) + 1 /\ list[Len(e.list) + 1] = Len(e.made) + 1
        /\ \A k \in 1..Len(e.list) : list[k] = e.list[k]
    BY <1>1, EngineFields, AppendProperties
  <2>6. out \in Seq(WsMessage)
    BY <1>1, EngineFields, StartTyped
  <2> HIDE DEF f, made, list, out, bad
  <2>7. f \in WsEngine /\ f.made = made /\ f.list = list /\ f.out = out
    BY <1>1, <2>2, <2>3, <2>4, <2>5, <2>6 DEF WsEngine
  <2>8. Len(e.made) \in Nat /\ Len(e.list) \in Nat
    BY <1>1, EngineFields
  <2>9. Working(e, t, s) = {}
    BY <1>3, FoundWorking
  <2>10. ASSUME NEW k \in 1..Len(list) PROVE list[k] \in 1..Len(made)
    <3>1. CASE k \in 1..Len(e.list)
      <4>1. e.list[k] \in 1..Len(e.made)
        BY <3>1 DEF EngineOK
      <4>2. list[k] = e.list[k]
        BY <2>5, <3>1
      <4> QED BY <2>4, <2>8, <4>1, <4>2
    <3>2. CASE k = Len(e.list) + 1
      BY <2>4, <2>5, <2>8, <3>2
    <3> QED BY <2>5, <2>8, <3>1, <3>2
  <2>11. ASSUME NEW j \in 1..Len(made), ~made[j].exit
         PROVE  ~made[j].deleted /\ \E k \in 1..Len(list) : list[k] = j
    <3>1. CASE j \in 1..Len(e.made)
      <4>1. ~e.made[j].deleted /\ \E k \in 1..Len(e.list) : e.list[k] = j
        BY <2>4, <2>11, <3>1 DEF EngineOK
      <4>2. PICK k \in 1..Len(e.list) : e.list[k] = j
        BY <4>1
      <4>3. k \in 1..Len(list)
        BY <2>5, <2>8
      <4> QED BY <2>4, <2>5, <3>1, <4>1, <4>2, <4>3
    <3>2. CASE j = Len(e.made) + 1
      <4>1. Len(e.list) + 1 \in 1..Len(list)
        BY <2>5, <2>8
      <4> QED BY <2>4, <2>5, <3>2, <4>1
    <3> QED BY <2>4, <2>8, <3>1, <3>2
  <2>12. ASSUME NEW u \in WsTypes, NEW r \in WsSources, NEW h \in Working(f, u, r), NEW j \in Working(f, u, r)
         PROVE  h = j
    <3>1. \A x \in Working(f, u, r) : x \in 1..(Len(e.made) + 1)
      BY <2>4, <2>7 DEF Working
    <3>2. \A x \in Working(f, u, r) : x \in 1..Len(e.made) => x \in Working(e, u, r)
      BY <2>4, <2>7 DEF Working
    <3>3. \A x \in Working(f, u, r) : x = Len(e.made) + 1 => u = t /\ r = s
      BY <2>4, <2>7 DEF Working
    <3>4. \A x \in 1..(Len(e.made) + 1) : x \in 1..Len(e.made) \/ x = Len(e.made) + 1
      BY <2>8
    <3> QED BY <2>9, <3>1, <3>2, <3>3, <3>4 DEF EngineOK
  <2>13. EngineOK(f)
    BY <2>7, <2>10, <2>11, <2>12 DEF EngineOK
  <2>14. Started(e, f, t, s, l)
    BY <2>7, <2>9 DEF Started, made, out
  <2> QED BY <2>13, <2>14 DEF f
<1> QED BY <1>2, <1>3

AddsTo(e, f, t, s, l) ==
  /\ EngineOK(e) /\ EngineOK(f) /\ t \in WsTypes /\ s \in WsSources /\ l \in WsListeners
  /\ Joined(e, f, t, s, l) \/ Started(e, f, t, s, l)

\* What is there afterwards of those that were there before: nobody left, nobody
\* stopped.
SameActions(e, f, t, s, l) ==
  /\ Len(e.made) \in Nat /\ Len(f.made) \in Nat
  /\ Len(f.made) = Len(e.made) \/ (Len(f.made) = Len(e.made) + 1 /\ Started(e, f, t, s, l))
  /\ \A i \in 1..Len(e.made) :
       /\ f.made[i].type = e.made[i].type /\ f.made[i].src = e.made[i].src
       /\ f.made[i].exit = e.made[i].exit
       /\ f.made[i].lis = IF i \in Working(e, t, s) THEN e.made[i].lis \union {l} ELSE e.made[i].lis
  /\ Started(e, f, t, s, l) =>
       /\ Len(f.made) = Len(e.made) + 1
       /\ f.made[Len(e.made) + 1] =
            [type |-> t, src |-> s, lis |-> {l}, exit |-> FALSE, deleted |-> FALSE]

\* addAction changes nothing of the actions there were but the listeners of one.
LEMMA AddedKeepsActions ==
  ASSUME NEW e, NEW f, NEW t, NEW s, NEW l, AddsTo(e, f, t, s, l)
  PROVE  SameActions(e, f, t, s, l)
<1>1. /\ e.made \in Seq(WsAction) /\ Len(e.made) \in Nat /\ Len(f.made) \in Nat
      /\ \A i \in 1..Len(e.made) : e.made[i] \in WsAction
  BY EngineFields DEF EngineOK, AddsTo
<1>2. CASE Joined(e, f, t, s, l)
  <2>1. PICK j \in Working(e, t, s) : f.made = [e.made EXCEPT ![j].lis = @ \union {l}]
    BY <1>2 DEF Joined
  <2>2. Working(e, t, s) = {j} /\ j \in 1..Len(e.made)
    BY DEF EngineOK, Working, AddsTo
  <2>3. \A i \in 1..Len(e.made) : f.made[i] = IF i = j THEN [e.made[i] EXCEPT !.lis = @ \union {l}] ELSE e.made[i]
    <3>1. j \in 1..Len(e.made)
      BY <2>2
    <3>2. DOMAIN e.made = 1..Len(e.made) /\ f.made = [e.made EXCEPT ![j] = [e.made[j] EXCEPT !.lis = @ \union {l}]]
      BY <1>1, <2>1, <3>1
    <3> QED BY <3>1, <3>2
  <2>4. ~Started(e, f, t, s, l) /\ Len(f.made) = Len(e.made)
    BY <1>2, <2>2 DEF Started, Joined
  <2>5. \A i \in 1..Len(e.made) :
              /\ f.made[i].type = e.made[i].type /\ f.made[i].src = e.made[i].src
              /\ f.made[i].exit = e.made[i].exit
              /\ f.made[i].lis = IF i = j THEN e.made[i].lis \union {l} ELSE e.made[i].lis
    BY <1>1, <2>3 DEF WsAction
  <2> QED BY <1>1, <2>2, <2>4, <2>5 DEF SameActions
<1>3. CASE Started(e, f, t, s, l)
  <2> DEFINE new == [type |-> t, src |-> s, lis |-> {l}, exit |-> FALSE, deleted |-> FALSE]
  <2>1. f.made = Append(e.made, new) /\ Working(e, t, s) = {}
    BY <1>3 DEF Started
  <2>2. new \in WsAction
    BY DEF WsAction, AddsTo
  <2> HIDE DEF new
  <2>3. /\ Len(f.made) = Len(e.made) + 1 /\ f.made[Len(e.made) + 1] = new
        /\ \A i \in 1..Len(e.made) : f.made[i] = e.made[i]
    BY <1>1, <2>1, <2>2, AppendProperties
  <2> QED BY <1>1, <1>3, <2>1, <2>3 DEF new, SameActions
<1> QED BY <1>2, <1>3 DEF AddsTo

\* The actions that work afterwards are those that did, and the one of the source.
WorkingAfter(e, f, t, s, l) ==
  /\ \A u \in WsTypes, r \in WsSources : u # t \/ r # s => Working(f, u, r) = Working(e, u, r)
  /\ Joined(e, f, t, s, l) => Working(f, t, s) = Working(e, t, s) /\ Working(e, t, s) # {}
  /\ Started(e, f, t, s, l) => Working(f, t, s) = {Len(e.made) + 1}

\* After addAction an action works for the source, and no other has changed.
LEMMA WorkingAdded ==
  ASSUME NEW e, NEW f, NEW t, NEW s, NEW l, AddsTo(e, f, t, s, l)
  PROVE  WorkingAfter(e, f, t, s, l)
<1>0. SameActions(e, f, t, s, l)
  BY AddedKeepsActions
<1>1. /\ Len(e.made) \in Nat
      /\ \A i \in 1..Len(e.made) :
              /\ f.made[i].type = e.made[i].type /\ f.made[i].src = e.made[i].src
              /\ f.made[i].exit = e.made[i].exit
  BY <1>0 DEF SameActions
<1>2. CASE Joined(e, f, t, s, l)
  <2>1. Len(f.made) = Len(e.made) /\ Working(e, t, s) # {}
    BY <1>2 DEF Joined
  <2>2. ~Started(e, f, t, s, l)
    BY <2>1 DEF Started
  <2> QED BY <1>1, <1>2, <2>1, <2>2 DEF Working, WorkingAfter
<1>3. CASE Started(e, f, t, s, l)
  <2> DEFINE n == Len(e.made)
  <2>1. /\ Len(f.made) = n + 1 /\ Working(e, t, s) = {}
        /\ f.made[n + 1] = [type |-> t, src |-> s, lis |-> {l}, exit |-> FALSE, deleted |-> FALSE]
    BY <1>3, <1>0 DEF SameActions, Started
  <2>2. f.made[n + 1].type = t /\ f.made[n + 1].src = s /\ f.made[n + 1].exit = FALSE
    BY <2>1
  <2>3. n \in Nat /\ n + 1 \notin 1..n /\ \A x \in 1..(n + 1) : x \in 1..n \/ x = n + 1
    BY <1>1
  <2>4. \A x \in 1..n : x \in 1..(n + 1)
    BY <2>3
  <2>5. ~Joined(e, f, t, s, l)
    BY <2>1 DEF Joined
  <2>6. n + 1 \in 1..(n + 1)
    BY <2>3
  <2>7. \A u, r : \A x \in 1..n : x \in Working(f, u, r) <=> x \in Working(e, u, r)
    BY <1>1, <2>1, <2>4 DEF Working
  <2>8. \A u, r : n + 1 \in Working(f, u, r) <=> u = t /\ r = s
    BY <2>1, <2>2, <2>6 DEF Working
  <2>9. \A u, r : Working(f, u, r) \subseteq 1..(n + 1) /\ Working(e, u, r) \subseteq 1..n
    BY <2>1 DEF Working
  <2> HIDE DEF n
  <2>10. ASSUME NEW u \in WsTypes, NEW r \in WsSources, u # t \/ r # s
         PROVE  Working(f, u, r) = Working(e, u, r)
    <3>1. n + 1 \notin Working(f, u, r)
      BY <2>8, <2>10
    <3> QED BY <2>3, <2>7, <2>9, <3>1
  <2>11. Working(f, t, s) = {n + 1}
    <3>1. \A x \in Working(f, t, s) : x = n + 1
      <4>1. \A x \in 1..n : x \notin Working(f, t, s)
        BY <2>1, <2>7
      <4> QED BY <2>3, <2>9, <4>1
    <3>2. n + 1 \in Working(f, t, s)
      BY <2>8
    <3> QED BY <3>1, <3>2
  <2> QED BY <2>5, <2>10, <2>11 DEF n, WorkingAfter
<1> QED BY <1>2, <1>3 DEF AddsTo

\* addAction leaves no listener with an action that has stopped.
LEMMA AddedTold ==
  ASSUME NEW e, NEW f, NEW t, NEW s, NEW l, AddsTo(e, f, t, s, l),
         NEW told, ToldOrWorking(e, told)
  PROVE  ToldOrWorking(f, told)
<1>0. SameActions(e, f, t, s, l) /\ WorkingAfter(e, f, t, s, l)
  BY AddedKeepsActions, WorkingAdded
<1>1. ASSUME NEW i \in 1..Len(f.made), f.made[i].lis # {} PROVE ~f.made[i].exit \/ told = i
  <2>1. Len(e.made) \in Nat
    BY <1>0 DEF SameActions
  <2>2. CASE i \in 1..Len(e.made)
    <3>1. /\ f.made[i].exit = e.made[i].exit
          /\ f.made[i].lis = IF i \in Working(e, t, s) THEN e.made[i].lis \union {l} ELSE e.made[i].lis
      BY <2>2, <1>0 DEF SameActions
    <3>2. i \in Working(e, t, s) => ~e.made[i].exit
      BY DEF Working
    <3> QED BY <1>1, <2>2, <3>1, <3>2 DEF ToldOrWorking
  <2>3. CASE i \notin 1..Len(e.made)
    <3>1. Len(f.made) = Len(e.made) + 1 /\ Started(e, f, t, s, l)
      BY <2>3, <1>0 DEF SameActions
    <3>2. f.made[Len(e.made) + 1] =
            [type |-> t, src |-> s, lis |-> {l}, exit |-> FALSE, deleted |-> FALSE]
      BY <3>1, <1>0 DEF SameActions
    <3>3. i = Len(e.made) + 1
      BY <2>1, <2>3, <3>1
    <3> QED BY <3>2, <3>3
  <2> QED BY <2>2, <2>3
<1> QED BY <1>1 DEF ToldOrWorking

\* What a new action asks.
LEMMA StartedAsks ==
  ASSUME NEW t \in WsTypes, NEW s \in WsSources
  PROVE  /\ t # "reader" => Msg(t, s) \in ToSet(StartMessages(t, s))
         /\ \A out \in Seq(WsMessage) :
              out \o StartMessages(t, s) =
                IF t = "reader" THEN Append(Append(out, Msg("subscribe", s)), Msg("rconf", s))
                ELSE Append(out, Msg(t, s))
<1>1. Msg("subscribe", s) \in WsMessage /\ Msg("rconf", s) \in WsMessage /\ Msg(t, s) \in WsMessage
  BY DEF Msg, WsMessage, WsTypes
<1>2. ASSUME t # "reader" PROVE Msg(t, s) \in ToSet(StartMessages(t, s))
  <2>1. StartMessages(t, s) = <<Msg(t, s)>>
    BY <1>2 DEF StartMessages
  <2>2. 1 \in DOMAIN <<Msg(t, s)>> /\ <<Msg(t, s)>>[1] = Msg(t, s)
    OBVIOUS
  <2> QED BY <2>1, <2>2 DEF ToSet
<1>3. ASSUME NEW out \in Seq(WsMessage), NEW a \in WsMessage
      PROVE  out \o <<a>> = Append(out, a)
  OBVIOUS
<1>4. ASSUME NEW out \in Seq(WsMessage), NEW a \in WsMessage, NEW b \in WsMessage
      PROVE  out \o <<a, b>> = Append(Append(out, a), b)
  OBVIOUS
<1> QED BY <1>1, <1>2, <1>3, <1>4 DEF StartMessages

\* addAction leaves the requests that are on their way there.
LEMMA AddedRequests ==
  ASSUME NEW e, NEW f, NEW t, NEW s, NEW l, AddsTo(e, f, t, s, l),
         NEW inbox, NEW arrived, RequestsOut(e, inbox, arrived)
  PROVE  RequestsOut(f, inbox, arrived)
<1>0. SameActions(e, f, t, s, l) /\ WorkingAfter(e, f, t, s, l)
  BY AddedKeepsActions, WorkingAdded
<1>1. ToSet(e.out) \subseteq ToSet(f.out)
  <2>1. e.out \in Seq(WsMessage) /\ StartMessages(t, s) \in Seq(WsMessage)
    BY StartTyped, EngineFields DEF EngineOK, AddsTo
  <2>2. ToSet(e.out \o StartMessages(t, s)) = ToSet(e.out) \union ToSet(StartMessages(t, s))
    BY <2>1, ElementsConcatenated
  <2> QED BY <2>2 DEF Joined, Started, AddsTo
<1>2. ASSUME NEW i \in 1..Len(f.made), f.made[i].type # "reader", ~f.made[i].exit
      PROVE  Msg(f.made[i].type, f.made[i].src) \in ToSet(f.out) \union ToSet(inbox) \union ToSet(arrived)
  <2>1. Len(e.made) \in Nat
    BY <1>0 DEF SameActions
  <2>2. CASE i \in 1..Len(e.made)
    <3>1. f.made[i].exit = e.made[i].exit /\ f.made[i].type = e.made[i].type /\ f.made[i].src = e.made[i].src
      BY <2>2, <1>0 DEF SameActions
    <3> QED BY <1>1, <1>2, <2>2, <3>1 DEF RequestsOut
  <2>3. CASE i \notin 1..Len(e.made)
    <3>1. Len(f.made) = Len(e.made) + 1 /\ Started(e, f, t, s, l)
      BY <2>3, <1>0 DEF SameActions
    <3>2. f.made[Len(e.made) + 1] =
            [type |-> t, src |-> s, lis |-> {l}, exit |-> FALSE, deleted |-> FALSE]
      BY <3>1, <1>0 DEF SameActions
    <3>3. i = Len(e.made) + 1
      BY <2>1, <2>3, <3>1
    <3>4. f.made[i].type = t /\ f.made[i].src = s
      BY <3>2, <3>3
    <3>5. Msg(t, s) \in ToSet(StartMessages(t, s))
      BY <1>2, <3>4, StartedAsks DEF AddsTo
    <3>6. ToSet(f.out) = ToSet(e.out) \union ToSet(StartMessages(t, s))
      <4>1. e.out \in Seq(WsMessage) /\ StartMessages(t, s) \in Seq(WsMessage) /\ f.out = e.out \o StartMessages(t, s)
        BY <3>1, StartTyped, EngineFields DEF EngineOK, Started, AddsTo
      <4> QED BY <4>1, ElementsConcatenated
    <3> QED BY <3>4, <3>5, <3>6
  <2> QED BY <2>2, <2>3
<1> QED BY <1>2 DEF RequestsOut

\* To append to the second of two sequences is to append to both.
LEMMA OneMore ==
  ASSUME NEW T, NEW s \in Seq(T), NEW u \in Seq(T), NEW a \in T
  PROVE  s \o Append(u, a) = Append(s \o u, a)
<1>1. Append(u, a) = u \o <<a>> /\ Append(s \o u, a) = (s \o u) \o <<a>> /\ <<a>> \in Seq(T)
  <2>1. s \o u \in Seq(T)
    BY ConcatProperties
  <2> QED BY <2>1, AppendIsConcat
<1> QED BY <1>1, ConcatAssociative

\* A request that is sent does not change what the server will be subscribed to,
\* the first two of a reader do.
LEMMA AskSent ==
  ASSUME NEW ms \in Seq(WsMessage), NEW t \in WsTypes, NEW s \in WsSources, NEW sub, NEW r
  PROVE  /\ Will(Append(ms, Msg(t, s)), sub, r) <=> Will(ms, sub, r)
         /\ Will(Append(Append(ms, Msg("subscribe", s)), Msg("rconf", s)), sub, r)
              <=> r = s \/ Will(ms, sub, r)
         /\ Will(Append(ms, Msg("unsubscribe", s)), sub, r) <=> r # s /\ Will(ms, sub, r)
<1> DEFINE a == Msg("subscribe", s)
           b == Msg("rconf", s)
           c == Msg(t, s)
           d == Msg("unsubscribe", s)
<1>1. a \in WsMessage /\ b \in WsMessage /\ c \in WsMessage /\ d \in WsMessage
  BY DEF Msg, WsMessage, WsTypes
<1>2. /\ (Subscribes(a, r) <=> r = s) /\ a.op = "subscribe" /\ ~Subscribes(b, r) /\ ~Subscribes(c, r)
      /\ (Subscribes(d, r) <=> r = s) /\ d.op # "subscribe"
  BY DEF Subscribes, Msg, WsTypes
<1> HIDE DEF a, b, c, d
<1>3. Will(Append(ms, c), sub, r) <=> Will(ms, sub, r)
  BY <1>1, <1>2, WillSent
<1>4. Will(Append(ms, d), sub, r) <=> r # s /\ Will(ms, sub, r)
  BY <1>1, <1>2, WillSent
<1>5. Will(Append(ms, a), sub, r) <=> r = s \/ Will(ms, sub, r)
  BY <1>1, <1>2, WillSent
<1> DEFINE m1 == Append(ms, a)
<1>6. m1 \in Seq(WsMessage)
  BY <1>1
<1> HIDE DEF m1
<1>7. Will(Append(m1, b), sub, r) <=> Will(m1, sub, r)
  BY <1>1, <1>2, <1>6, WillSent
<1> QED BY <1>3, <1>4, <1>5, <1>7 DEF a, b, c, d, m1

\* What the client has to send and the server to take, with a new action.
LEMMA StartedOut ==
  ASSUME NEW inbox \in Seq(WsMessage), NEW out \in Seq(WsMessage), NEW t \in WsTypes, NEW s \in WsSources
  PROVE  /\ t # "reader" => inbox \o (out \o StartMessages(t, s)) = Append(inbox \o out, Msg(t, s))
         /\ t = "reader" => inbox \o (out \o StartMessages(t, s))
                              = Append(Append(inbox \o out, Msg("subscribe", s)), Msg("rconf", s))
<1> DEFINE a == Msg("subscribe", s)
           b == Msg("rconf", s)
           c == Msg(t, s)
<1>1. a \in WsMessage /\ b \in WsMessage /\ c \in WsMessage
  BY DEF Msg, WsMessage, WsTypes
<1>2. out \o StartMessages(t, s) = IF t = "reader" THEN Append(Append(out, a), b) ELSE Append(out, c)
  BY StartedAsks
<1> HIDE DEF a, b, c
<1>3. inbox \o Append(out, c) = Append(inbox \o out, c)
  BY <1>1, OneMore
<1>4. inbox \o Append(Append(out, a), b) = Append(Append(inbox \o out, a), b)
  <2> DEFINE p == Append(out, a)
  <2>1. p \in Seq(WsMessage) /\ inbox \o p = Append(inbox \o out, a)
    BY <1>1, OneMore
  <2> HIDE DEF p
  <2>2. \A v \in Seq(WsMessage), x \in WsMessage : inbox \o Append(v, x) = Append(inbox \o v, x)
    BY OneMore
  <2>3. inbox \o Append(p, b) = Append(inbox \o p, b)
    BY <1>1, <2>1, <2>2
  <2> QED BY <2>1, <2>3 DEF p
<1> QED BY <1>2, <1>3, <1>4 DEF a, b, c

\* After addAction the server will be subscribed to the sources that are read.
LEMMA AddedWill ==
  ASSUME NEW e, NEW f, NEW t, NEW s, NEW l, AddsTo(e, f, t, s, l),
         NEW server \in [inbox : Seq(WsMessage), subscribed : SUBSET WsSources], ServerWill(e, server)
  PROVE  ServerWill(f, server)
<1>0. WorkingAfter(e, f, t, s, l)
  BY WorkingAdded
<1>1. /\ e.out \in Seq(WsMessage) /\ server.inbox \in Seq(WsMessage)
      /\ t \in WsTypes /\ s \in WsSources /\ "reader" \in WsTypes
  BY EngineFields DEF EngineOK, AddsTo, WsTypes
<1> DEFINE ms == server.inbox \o e.out
<1>2. ms \in Seq(WsMessage)
  BY <1>1
<1>3. ASSUME NEW r \in WsSources
      PROVE  Will(server.inbox \o f.out, server.subscribed, r) <=> Working(f, "reader", r) # {}
  <2>1. Will(ms, server.subscribed, r) <=> Working(e, "reader", r) # {}
    BY DEF ServerWill
  <2>2. CASE Joined(e, f, t, s, l)
    <3>1. t = "reader" /\ r = s => Working(f, "reader", r) = Working(e, "reader", r)
      BY <2>2, <1>0 DEF WorkingAfter
    <3>2. t # "reader" \/ r # s => Working(f, "reader", r) = Working(e, "reader", r)
      BY <1>1, <1>0 DEF WorkingAfter
    <3> QED BY <2>1, <2>2, <3>1, <3>2 DEF Joined
  <2>3. CASE Started(e, f, t, s, l)
    <3>1. f.out = e.out \o StartMessages(t, s)
      BY <2>3 DEF Started
    <3>2. CASE t # "reader"
      <4>1. server.inbox \o f.out = Append(ms, Msg(t, s))
        BY <1>1, <3>1, <3>2, StartedOut, SMTT(30)
      <4>2. Working(f, "reader", r) = Working(e, "reader", r)
        BY <1>1, <3>2, <1>0 DEF WorkingAfter
      <4> HIDE DEF ms
      <4>3. Will(Append(ms, Msg(t, s)), server.subscribed, r) <=> Will(ms, server.subscribed, r)
        BY <1>1, <1>2, AskSent
      <4> QED BY <2>1, <4>1, <4>2, <4>3
    <3>3. CASE t = "reader"
      <4>1. server.inbox \o f.out = Append(Append(ms, Msg("subscribe", s)), Msg("rconf", s))
        <5> DEFINE inbox == server.inbox
                   out == e.out
        <5>1. inbox \in Seq(WsMessage) /\ out \in Seq(WsMessage) /\ s \in WsSources /\ "reader" \in WsTypes
          BY <1>1
        <5>2. inbox \o f.out = inbox \o (out \o StartMessages("reader", s))
          BY <3>1, <3>3
        <5> HIDE DEF inbox, out
        <5>3. inbox \o (out \o StartMessages("reader", s))
                = Append(Append(inbox \o out, Msg("subscribe", s)), Msg("rconf", s))
          BY <5>1, StartedOut
        <5> QED BY <5>2, <5>3 DEF inbox, out
      <4>2. r # s => Working(f, "reader", r) = Working(e, "reader", r)
        BY <1>1, <1>0 DEF WorkingAfter
      <4>3. r = s => Working(f, "reader", r) # {}
        BY <2>3, <3>3, <1>0 DEF WorkingAfter
      <4> HIDE DEF ms
      <4>4. Will(Append(Append(ms, Msg("subscribe", s)), Msg("rconf", s)), server.subscribed, r)
              <=> r = s \/ Will(ms, server.subscribed, r)
        BY <1>1, <1>2, AskSent
      <4> QED BY <2>1, <4>1, <4>2, <4>3, <4>4
    <3> QED BY <3>2, <3>3
  <2> QED BY <2>2, <2>3 DEF AddsTo
<1> QED BY <1>3 DEF ServerWill

\* Who listens to the reader of a source is the same when another kind of action
\* is asked for; a reader that is asked for has one listener more, who is linked.
LEMMA AddedOthers ==
  ASSUME NEW e, NEW f, NEW t, NEW s, NEW l, AddsTo(e, f, t, s, l),
         NEW link, NEW r \in WsSources, t # "reader" \/ r # s, Serves(e, link, r)
  PROVE  Serves(f, link, r)
<1>0. SameActions(e, f, t, s, l) /\ WorkingAfter(e, f, t, s, l)
  BY AddedKeepsActions, WorkingAdded
<1>1. "reader" \in WsTypes
  BY DEF WsTypes
<1>2. Working(f, "reader", r) = Working(e, "reader", r)
  BY <1>1, <1>0 DEF WorkingAfter
<1>3. ASSUME NEW i \in Working(e, "reader", r) PROVE f.made[i].lis = e.made[i].lis
  <2>1. i \in 1..Len(e.made) /\ e.made[i].type = "reader" /\ e.made[i].src = r
    BY DEF Working
  <2>2. i \notin Working(e, t, s)
    BY <2>1 DEF Working
  <2> QED BY <1>0, <2>1, <2>2 DEF SameActions
<1> QED BY <1>2, <1>3 DEF Serves

\* After addAction the reader of the source has the new listener too.
LEMMA AddedReader ==
  ASSUME NEW e, NEW f, NEW s, NEW l, AddsTo(e, f, "reader", s, l),
         NEW link, NEW newLink, Serves(e, link, s), Linked(newLink, s) = Linked(link, s) \union {l}
  PROVE  Serves(f, newLink, s)
<1>0. SameActions(e, f, "reader", s, l) /\ WorkingAfter(e, f, "reader", s, l)
  BY AddedKeepsActions, WorkingAdded
<1>1. CASE Joined(e, f, "reader", s, l)
  <2>1. Working(f, "reader", s) = Working(e, "reader", s) /\ Working(f, "reader", s) # {}
    BY <1>1, <1>0 DEF WorkingAfter
  <2>2. ASSUME NEW i \in Working(e, "reader", s) PROVE f.made[i].lis = Linked(newLink, s)
    <3>1. i \in 1..Len(e.made)
      BY DEF Working
    <3>2. f.made[i].lis = e.made[i].lis \union {l}
      BY <1>0, <3>1 DEF SameActions
    <3>3. e.made[i].lis = Linked(link, s)
      BY DEF Serves
    <3> QED BY <3>2, <3>3
  <2> QED BY <2>1, <2>2 DEF Serves
<1>2. CASE Started(e, f, "reader", s, l)
  <2>1. Working(f, "reader", s) = {Len(e.made) + 1}
    BY <1>2, <1>0 DEF WorkingAfter
  <2>2. f.made[Len(e.made) + 1].lis = {l}
    BY <1>2, <1>0 DEF SameActions
  <2>3. Linked(link, s) = {}
    BY <1>2 DEF Started, Serves
  <2> QED BY <2>1, <2>2, <2>3 DEF Serves
<1> QED BY <1>1, <1>2 DEF AddsTo

-----------------------------------------------------------------------------
\* What is there after a listener has left the actions of a source: in those
\* that the walk finds it is no more, and the ones without a listener stop.
LeftBy(e, f, t, s, l) ==
  /\ EngineOK(e) /\ EngineOK(f) /\ t \in WsTypes /\ s \in WsSources /\ l \in WsListeners
  /\ Len(e.made) \in Nat /\ Len(f.made) = Len(e.made)
  /\ \A i \in 1..Len(e.made) :
       /\ f.made[i].type = e.made[i].type /\ f.made[i].src = e.made[i].src
       /\ i \in Found(e, t, s) =>
            /\ f.made[i].lis = e.made[i].lis \ {l}
            /\ f.made[i].exit <=> e.made[i].exit \/ i \in Stopped(e, t, s, l)
       /\ i \notin Found(e, t, s) =>
            f.made[i].lis = e.made[i].lis /\ f.made[i].exit = e.made[i].exit
  /\ t # "reader" => f.out = e.out
  /\ t = "reader" =>
       f.out = e.out \o [k \in 1..Cardinality(Stopped(e, t, s, l)) |-> Msg("unsubscribe", s)]

\* The walk of unlinkListener finds the action at work for the source, and none
\* of another.
LEMMA FoundAre ==
  ASSUME NEW e, EngineOK(e), NEW t, NEW s
  PROVE  /\ Working(e, t, s) \subseteq Found(e, t, s)
         /\ \A i \in Found(e, t, s) :
              i \in 1..Len(e.made) /\ e.made[i].type = t /\ e.made[i].src = s
         /\ IsFiniteSet(Found(e, t, s))
<1>1. {e.list[k] : k \in Active(e, t, s)} = Working(e, t, s)
  BY FoundWorking
<1>2. Working(e, t, s) \subseteq Found(e, t, s)
  BY <1>1 DEF Active, Found
<1>3. ASSUME NEW i \in Found(e, t, s) PROVE i \in 1..Len(e.made) /\ e.made[i].type = t /\ e.made[i].src = s
  BY DEF Found, Matches, EngineOK
<1>4. IsFiniteSet(Found(e, t, s))
  <2>1. Len(e.made) \in Nat
    BY EngineFields DEF EngineOK
  <2>2. IsFiniteSet(1..Len(e.made))
    BY <2>1, FS_Interval
  <2>3. Found(e, t, s) \subseteq 1..Len(e.made)
    BY <1>3
  <2> QED BY <2>2, <2>3, FS_Subset
<1> QED BY <1>2, <1>3, <1>4

\* unlinkListener takes the listener from all it finds, and stops what is left
\* without listeners.
LEMMA UnlinkedIs ==
  ASSUME NEW e, EngineOK(e), NEW t \in WsTypes, NEW s \in WsSources, NEW l \in WsListeners
  PROVE  LeftBy(e, Unlinked(e, t, s, l), t, s, l)
<1> DEFINE f == Unlinked(e, t, s, l)
           ids == Found(e, t, s)
           stopped == Stopped(e, t, s, l)
           sent == [k \in 1..Cardinality(stopped) |-> Msg("unsubscribe", s)]
           made == [i \in DOMAIN e.made |->
                      IF i \in ids THEN WithoutListener(e.made[i], l, i \in stopped) ELSE e.made[i]]
           bad == e.bad \/ Dangling(e, Len(e.list)) \/ (wsTelling.action \in ids /\ wsTelling.told = l)
           out == e.out \o (IF t = "reader" THEN sent ELSE <<>>)
<1>1. e \in WsEngine
  BY DEF EngineOK
<1>2. f = SendMessages([e EXCEPT !.made = made, !.bad = @ \/ Dangling(e, Len(e.list)) \/
                                                (wsTelling.action \in ids /\ wsTelling.told = l)],
                       IF t = "reader" THEN sent ELSE <<>>)
  BY DEF Unlinked
<1>3. f = [made |-> made, list |-> e.list, out |-> out, open |-> e.open, bad |-> bad]
  <2> HIDE DEF made, sent
  <2> QED BY <1>1, <1>2 DEF SendMessages, WsEngine
<1>4. /\ e.made \in Seq(WsAction) /\ Len(e.made) \in Nat /\ DOMAIN e.made = 1..Len(e.made)
      /\ e.out \in Seq(WsMessage) /\ e.list \in Seq(Nat)
  BY <1>1, EngineFields
<1>5. \A i \in 1..Len(e.made) :
        /\ made[i] \in WsAction /\ made[i].type = e.made[i].type /\ made[i].src = e.made[i].src
        /\ made[i].deleted = e.made[i].deleted
        /\ i \in ids => made[i].lis = e.made[i].lis \ {l} /\ (made[i].exit <=> e.made[i].exit \/ i \in stopped)
        /\ i \notin ids => made[i].lis = e.made[i].lis /\ made[i].exit = e.made[i].exit
  <2> HIDE DEF ids, stopped
  <2>1. ASSUME NEW i \in 1..Len(e.made)
        PROVE  /\ made[i] \in WsAction /\ made[i].type = e.made[i].type /\ made[i].src = e.made[i].src
               /\ made[i].deleted = e.made[i].deleted
               /\ i \in ids => made[i].lis = e.made[i].lis \ {l} /\ (made[i].exit <=> e.made[i].exit \/ i \in stopped)
               /\ i \notin ids => made[i].lis = e.made[i].lis /\ made[i].exit = e.made[i].exit
    <3>1. e.made[i] \in WsAction /\ e.made[i].lis \in SUBSET WsListeners
      BY <1>1, EngineFields
    <3>2. i \notin ids => made[i] = e.made[i]
      BY <1>4
    <3>3. i \in ids => made[i] = WithoutListener(e.made[i], l, i \in stopped)
      BY <1>4
    <3> DEFINE lis == e.made[i].lis \ {l}
               exit == e.made[i].exit \/ i \in stopped
    <3>4. exit \in BOOLEAN /\ lis \in SUBSET WsListeners
      BY <3>1
    <3>5. i \in ids => made[i] = [e.made[i] EXCEPT !.lis = lis, !.exit = exit]
      BY <3>1, <3>3 DEF WithoutListener, WsAction
    <3> HIDE DEF made
    <3>6. CASE i \notin ids
      BY <3>1, <3>2, <3>6
    <3>7. CASE i \in ids
      <4> HIDE DEF lis, exit
      <4>1. /\ made[i] \in WsAction /\ made[i].type = e.made[i].type /\ made[i].src = e.made[i].src
            /\ made[i].deleted = e.made[i].deleted /\ made[i].lis = lis /\ made[i].exit = exit
        BY <3>1, <3>4, <3>5, <3>7 DEF WsAction
      <4> QED BY <3>7, <4>1 DEF lis, exit
    <3> QED BY <3>6, <3>7
  <2> QED BY <2>1
<1>6. made \in Seq(WsAction) /\ Len(made) = Len(e.made)
  <2>1. made \in [1..Len(e.made) -> WsAction]
    <3>1. \A i \in 1..Len(e.made) : made[i] \in WsAction
      BY <1>5
    <3> QED BY <1>4, <3>1
  <2> HIDE DEF made
  <2> QED BY <1>4, <2>1, SMTT(30)
<1>7. out \in Seq(WsMessage) /\ (t # "reader" => out = e.out)
  <2>1. IsFiniteSet(stopped)
    BY FoundAre, FS_Subset DEF Stopped
  <2>2. Cardinality(stopped) \in Nat
    BY <2>1, FS_CardinalityType
  <2>3. Msg("unsubscribe", s) \in WsMessage
    BY DEF Msg, WsMessage
  <2> HIDE DEF stopped
  <2>4. sent \in Seq(WsMessage)
    BY <2>2, <2>3
  <2> HIDE DEF sent
  <2>5. CASE t = "reader"
    <3>1. out = e.out \o sent
      BY <2>5
    <3> HIDE DEF out
    <3> QED BY <1>4, <2>4, <2>5, <3>1
  <2>6. CASE t # "reader"
    <3>1. out = e.out \o <<>> /\ e.out \o <<>> = e.out
      BY <1>4, <2>6
    <3> HIDE DEF out
    <3> QED BY <1>4, <3>1
  <2> QED BY <2>5, <2>6
<1>8. bad \in BOOLEAN
  OBVIOUS
<1> HIDE DEF f, made, out, bad
<1>9. f \in WsEngine /\ f.made = made /\ f.list = e.list /\ f.out = out
  BY <1>1, <1>3, <1>6, <1>7, <1>8 DEF WsEngine
<1>10. \A u \in WsTypes, r \in WsSources : Working(f, u, r) \subseteq Working(e, u, r)
  <2>1. \A i \in 1..Len(e.made) : e.made[i].exit => made[i].exit
    BY <1>5
  <2> QED BY <1>5, <1>6, <1>9, <2>1 DEF Working
<1>11. EngineOK(f)
  <2>1. \A i \in 1..Len(e.made) : e.made[i].exit => made[i].exit
    BY <1>5
  <2>2. \A i \in 1..Len(f.made) : ~f.made[i].exit =>
             ~f.made[i].deleted /\ \E k \in 1..Len(f.list) : f.list[k] = i
    BY <1>5, <1>6, <1>9, <2>1 DEF EngineOK
  <2> QED BY <1>6, <1>9, <1>10, <2>2 DEF EngineOK
<1>12. t = "reader" => f.out = e.out \o sent
  BY <1>9 DEF out
<1> QED BY <1>4, <1>5, <1>6, <1>7, <1>9, <1>11, <1>12 DEF LeftBy, f

\* Of those that work, the ones that have a listener left go on.
LEMMA LeftWorking ==
  ASSUME NEW e, NEW f, NEW t, NEW s, NEW l, LeftBy(e, f, t, s, l)
  PROVE  /\ \A u, r : u # t \/ r # s => Working(f, u, r) = Working(e, u, r)
         /\ Working(f, t, s) = Working(e, t, s) \ Stopped(e, t, s, l)
         /\ \A u, r : u # t \/ r # s => \A i \in Working(e, u, r) : f.made[i].lis = e.made[i].lis
<1>1. /\ Working(e, t, s) \subseteq Found(e, t, s)
      /\ \A i \in Found(e, t, s) :
              i \in 1..Len(e.made) /\ e.made[i].type = t /\ e.made[i].src = s
  BY FoundAre DEF LeftBy
<1>2. \A i \in 1..Len(e.made) : i \notin Found(e, t, s) =>
         /\ f.made[i].lis = e.made[i].lis /\ f.made[i].exit = e.made[i].exit
         /\ f.made[i].type = e.made[i].type /\ f.made[i].src = e.made[i].src
  BY DEF LeftBy
<1>3. \A i \in Found(e, t, s) : f.made[i].type = t /\ f.made[i].src = s
  BY <1>1 DEF LeftBy
<1>4. ASSUME NEW u, NEW r, u # t \/ r # s
      PROVE  /\ Working(f, u, r) = Working(e, u, r)
             /\ \A i \in Working(e, u, r) : f.made[i].lis = e.made[i].lis
  <2>1. Len(f.made) = Len(e.made)
    BY DEF LeftBy
  <2>2. \A i \in Working(e, u, r) : i \notin Found(e, t, s) /\ i \in 1..Len(e.made)
    BY <1>1, <1>4 DEF Working
  <2>3. \A i \in Working(f, u, r) : i \notin Found(e, t, s) /\ i \in 1..Len(e.made)
    BY <1>3, <1>4, <2>1 DEF Working
  <2>4. \A i \in Working(e, u, r) : i \in Working(f, u, r)
    BY <1>2, <2>1, <2>2 DEF Working
  <2>5. \A i \in Working(f, u, r) : i \in Working(e, u, r)
    BY <1>2, <2>1, <2>3 DEF Working
  <2> QED BY <1>2, <2>2, <2>4, <2>5
<1>5. Working(f, t, s) = Working(e, t, s) \ Stopped(e, t, s, l)
  <2>1. Len(f.made) = Len(e.made)
    BY DEF LeftBy
  <2>2. \A i \in Found(e, t, s) : f.made[i].exit <=> e.made[i].exit \/ i \in Stopped(e, t, s, l)
    BY <1>1 DEF LeftBy
  <2>3. \A i \in Working(f, t, s) : i \in Found(e, t, s)
    <3>1. ASSUME NEW i \in Working(f, t, s), i \notin Found(e, t, s) PROVE FALSE
      <4>1. i \in 1..Len(e.made)
        BY <2>1 DEF Working
      <4>2. i \in Working(e, t, s)
        BY <1>2, <2>1, <3>1, <4>1 DEF Working
      <4> QED BY <1>1, <3>1, <4>2
    <3> QED BY <3>1
  <2>4. \A i \in Found(e, t, s) : i \in Working(f, t, s) <=> ~f.made[i].exit
    BY <1>1, <1>3, <2>1 DEF Working
  <2>5. \A i \in Found(e, t, s) : i \in Working(e, t, s) <=> ~e.made[i].exit
    BY <1>1 DEF Working
  <2>6. \A i \in Found(e, t, s) : i \in Working(f, t, s) <=> i \in Working(e, t, s) /\ i \notin Stopped(e, t, s, l)
    BY <2>2, <2>4, <2>5
  <2> QED BY <1>1, <2>3, <2>6
<1> QED BY <1>4, <1>5

\* Whoever stays is not with an action that has stopped.
LEMMA LeftTold ==
  ASSUME NEW e, NEW f, NEW t, NEW s, NEW l, LeftBy(e, f, t, s, l), NEW told, ToldOrWorking(e, told)
  PROVE  ToldOrWorking(f, told)
<1>1. ASSUME NEW i \in 1..Len(e.made), f.made[i].lis # {} PROVE ~f.made[i].exit \/ told = i
  <2>1. CASE i \in Found(e, t, s)
    <3>1. f.made[i].lis = e.made[i].lis \ {l} /\ (f.made[i].exit <=> e.made[i].exit \/ i \in Stopped(e, t, s, l))
      BY <2>1 DEF LeftBy
    <3>2. i \notin Stopped(e, t, s, l)
      BY <1>1, <3>1 DEF Stopped
    <3> QED BY <1>1, <3>1, <3>2 DEF ToldOrWorking
  <2>2. CASE i \notin Found(e, t, s)
    <3>1. f.made[i].lis = e.made[i].lis /\ f.made[i].exit = e.made[i].exit
      BY <2>2 DEF LeftBy
    <3> QED BY <1>1, <3>1 DEF ToldOrWorking
  <2> QED BY <2>1, <2>2
<1>2. Len(f.made) = Len(e.made)
  BY DEF LeftBy
<1> QED BY <1>1, <1>2 DEF ToldOrWorking

\* No action goes on without its request when a listener has left.
LEMMA LeftRequests ==
  ASSUME NEW e, NEW f, NEW t, NEW s, NEW l, LeftBy(e, f, t, s, l),
         NEW inbox, NEW arrived, RequestsOut(e, inbox, arrived)
  PROVE  RequestsOut(f, inbox, arrived)
<1>1. ToSet(e.out) \subseteq ToSet(f.out)
  <2>1. CASE t # "reader"
    BY <2>1 DEF LeftBy
  <2>2. CASE t = "reader"
    <3> DEFINE stopped == Stopped(e, t, s, l)
               sent == [k \in 1..Cardinality(stopped) |-> Msg("unsubscribe", s)]
    <3>1. IsFiniteSet(stopped)
      BY FoundAre, FS_Subset DEF Stopped, LeftBy
    <3>2. Cardinality(stopped) \in Nat
      BY <3>1, FS_CardinalityType
    <3>3. Msg("unsubscribe", s) \in WsMessage
      BY DEF Msg, WsMessage, LeftBy
    <3>4. f.out = e.out \o sent
      BY <2>2 DEF LeftBy
    <3>5. e.out \in Seq(WsMessage)
      BY EngineFields DEF EngineOK, LeftBy
    <3> HIDE DEF stopped
    <3>6. sent \in Seq(WsMessage)
      BY <3>2, <3>3
    <3> HIDE DEF sent
    <3> QED BY <3>4, <3>5, <3>6, ElementsConcatenated
  <2> QED BY <2>1, <2>2
<1>2. ASSUME NEW i \in 1..Len(f.made), f.made[i].type # "reader", ~f.made[i].exit
      PROVE  Msg(f.made[i].type, f.made[i].src) \in ToSet(f.out) \union ToSet(inbox) \union ToSet(arrived)
  <2>1. i \in 1..Len(e.made) /\ f.made[i].type = e.made[i].type /\ f.made[i].src = e.made[i].src
    BY DEF LeftBy
  <2>2. ~e.made[i].exit
    BY <1>2, <2>1 DEF LeftBy
  <2> QED BY <1>1, <1>2, <2>1, <2>2 DEF RequestsOut
<1> QED BY <1>2 DEF RequestsOut

\* Readers, and what the server is told of them, do not depend on other actions.
LEMMA LeftOthers ==
  ASSUME NEW e, NEW f, NEW t, NEW s, NEW l, LeftBy(e, f, t, s, l), t # "reader"
  PROVE  /\ \A link : ReadersServe(e, link) => ReadersServe(f, link)
         /\ \A server : ServerWill(e, server) => ServerWill(f, server)
<1>1. \A r : /\ Working(f, "reader", r) = Working(e, "reader", r)
             /\ \A i \in Working(e, "reader", r) : f.made[i].lis = e.made[i].lis
  BY LeftWorking
<1>2. f.out = e.out
  BY DEF LeftBy
<1> QED BY <1>1, <1>2 DEF ReadersServe, Serves, ServerWill

\* A listener leaves the reader of its source, which stops when it was alone.
LEMMA LeftReader ==
  ASSUME NEW e, NEW f, NEW s, NEW l, LeftBy(e, f, "reader", s, l),
         \A i \in Found(e, "reader", s) : ~e.made[i].exit,
         NEW link, NEW newLink, l \in Linked(link, s), Linked(newLink, s) = Linked(link, s) \ {l},
         \A r \in WsSources : r # s => Linked(newLink, r) = Linked(link, r),
         NEW server \in [inbox : Seq(WsMessage), subscribed : SUBSET WsSources],
         ReadersServe(e, link), ServerWill(e, server)
  PROVE  ReadersServe(f, newLink) /\ ServerWill(f, server)
<1> DEFINE stopped == Stopped(e, "reader", s, l)
           ms == server.inbox \o e.out
<1>1. /\ s \in WsSources /\ "reader" \in WsTypes /\ EngineOK(e)
      /\ e.out \in Seq(WsMessage) /\ server.inbox \in Seq(WsMessage) /\ ms \in Seq(WsMessage)
      /\ Msg("unsubscribe", s) \in WsMessage
  <2>1. s \in WsSources /\ "reader" \in WsTypes /\ EngineOK(e)
    BY DEF LeftBy, WsTypes
  <2>2. e.out \in Seq(WsMessage) /\ server.inbox \in Seq(WsMessage)
    BY <2>1, EngineFields DEF EngineOK
  <2>3. Msg("unsubscribe", s) \in WsMessage
    BY <2>1 DEF Msg, WsMessage
  <2> QED BY <2>1, <2>2, <2>3
<1>2. Found(e, "reader", s) = Working(e, "reader", s)
  BY <1>1, FoundAre DEF Working
<1>3. PICK i : Working(e, "reader", s) = {i} /\ i \in 1..Len(e.made)
  <2>1. Working(e, "reader", s) # {}
    BY <1>1 DEF ReadersServe, Serves
  <2>2. PICK i \in Working(e, "reader", s) : TRUE
    BY <2>1
  <2>3. \A j \in Working(e, "reader", s) : j = i
    BY <1>1, <2>2 DEF EngineOK
  <2> QED BY <2>2, <2>3 DEF Working
<1>4. e.made[i].lis = Linked(link, s) /\ f.made[i].lis = Linked(newLink, s)
  BY <1>1, <1>2, <1>3 DEF ReadersServe, Serves, LeftBy
<1>5. Working(f, "reader", s) = {i} \ stopped
  BY <1>3, LeftWorking
<1>6. ASSUME NEW r \in WsSources PROVE Serves(f, newLink, r)
  <2>1. CASE r # s
    BY <1>1, <2>1, LeftWorking DEF ReadersServe, Serves
  <2>2. CASE r = s
    <3>1. i \in stopped => Linked(newLink, s) = {}
      BY <1>4 DEF Stopped
    <3> QED BY <1>4, <1>5, <2>2, <3>1 DEF Serves
  <2> QED BY <2>1, <2>2
<1>7. ASSUME NEW r \in WsSources
      PROVE  Will(server.inbox \o f.out, server.subscribed, r) <=> Working(f, "reader", r) # {}
  <2>1. Will(ms, server.subscribed, r) <=> Working(e, "reader", r) # {}
    BY DEF ServerWill
  <2>2. f.out = e.out \o [k \in 1..Cardinality(stopped) |-> Msg("unsubscribe", s)]
    BY DEF LeftBy
  <2>3. r # s => Working(f, "reader", r) = Working(e, "reader", r)
    BY LeftWorking
  <2>4. CASE i \in stopped
    <3>1. stopped = {i}
      BY <1>2, <1>3, <2>4 DEF Stopped
    <3>2. Cardinality(stopped) = 1
      BY <3>1, FS_Singleton
    <3>3. f.out = Append(e.out, Msg("unsubscribe", s))
      <4>1. [k \in 1..1 |-> Msg("unsubscribe", s)] = <<Msg("unsubscribe", s)>>
        OBVIOUS
      <4>2. Append(e.out, Msg("unsubscribe", s)) = e.out \o <<Msg("unsubscribe", s)>>
        BY <1>1, AppendIsConcat
      <4> QED BY <2>2, <3>2, <4>1, <4>2
    <3>4. server.inbox \o f.out = Append(ms, Msg("unsubscribe", s))
      BY <1>1, <3>3, OneMore
    <3> HIDE DEF ms
    <3>5. Will(Append(ms, Msg("unsubscribe", s)), server.subscribed, r) <=> r # s /\ Will(ms, server.subscribed, r)
      BY <1>1, AskSent
    <3>6. r = s => Working(f, "reader", r) = {}
      BY <1>5, <2>4
    <3> QED BY <2>1, <2>3, <3>4, <3>5, <3>6
  <2>5. CASE i \notin stopped
    <3>1. stopped = {}
      BY <1>2, <1>3, <2>5 DEF Stopped
    <3>2. Cardinality(stopped) = 0
      BY <3>1, FS_EmptySet
    <3>3. f.out = e.out
      <4>1. [k \in 1..0 |-> Msg("unsubscribe", s)] = <<>>
        OBVIOUS
      <4>2. e.out \o <<>> = e.out
        BY <1>1
      <4> QED BY <2>2, <3>2, <4>1, <4>2
    <3>4. Working(f, "reader", r) = Working(e, "reader", r)
      BY <1>3, <1>5, <2>3, <2>5
    <3> QED BY <2>1, <3>3, <3>4
  <2> QED BY <2>4, <2>5
<1> QED BY <1>6, <1>7 DEF ReadersServe, ServerWill

-----------------------------------------------------------------------------
(* The steps                                                               *)

\* A listener that is linked to s is with no other source.
Relinked(link, newLink, l, s) ==
  /\ link \in [WsListeners -> WsSources \union {NoWs}] /\ l \in WsListeners
  /\ s \in WsSources \union {NoWs} /\ newLink = [link EXCEPT ![l] = s]

\* Who is linked to a source after a reader or a writer has changed its own.
LEMMA LinkedIs ==
  ASSUME NEW link, NEW newLink, NEW l, NEW s, Relinked(link, newLink, l, s)
  PROVE  /\ newLink \in [WsListeners -> WsSources \union {NoWs}]
         /\ l \in WsWriters => \A r : Linked(newLink, r) = Linked(link, r)
         /\ l \in WsReaders /\ link[l] = NoWs /\ s \in WsSources =>
              \A r \in WsSources :
                Linked(newLink, r) = IF r = s THEN Linked(link, r) \union {l} ELSE Linked(link, r)
         /\ l \in WsReaders /\ link[l] \in WsSources /\ s = NoWs =>
              /\ l \in Linked(link, link[l])
              /\ Linked(newLink, link[l]) = Linked(link, link[l]) \ {l}
              /\ \A r \in WsSources : r # link[l] => Linked(newLink, r) = Linked(link, r)
<1>1. \A k \in WsListeners : newLink[k] = IF k = l THEN s ELSE link[k]
  BY DEF Relinked
<1>2. \A k \in WsReaders : k \in WsListeners
  BY DEF WsListeners
<1>3. \A k \in WsWriters : k \notin WsReaders
  BY WsAssumption
<1>4. NoWs \notin WsSources
  BY WsAssumption
<1>5. newLink \in [WsListeners -> WsSources \union {NoWs}]
  BY DEF Relinked
<1>0. l \in WsListeners
  BY DEF Relinked
<1>6. \A r : \A k \in WsReaders : k # l => (k \in Linked(newLink, r) <=> k \in Linked(link, r))
  BY <1>1, <1>2 DEF Linked
<1>7. \A r : Linked(newLink, r) \subseteq WsReaders /\ Linked(link, r) \subseteq WsReaders
  BY DEF Linked
<1>8. ASSUME l \in WsWriters, NEW r PROVE Linked(newLink, r) = Linked(link, r)
  BY <1>3, <1>6, <1>7, <1>8
<1>9. l \in WsReaders => \A r : (l \in Linked(newLink, r) <=> r = s) /\ (l \in Linked(link, r) <=> r = link[l])
  BY <1>0, <1>1 DEF Linked
<1>10. ASSUME l \in WsReaders, link[l] = NoWs, s \in WsSources, NEW r \in WsSources
       PROVE  Linked(newLink, r) = IF r = s THEN Linked(link, r) \union {l} ELSE Linked(link, r)
  BY <1>4, <1>6, <1>7, <1>9, <1>10
<1>11. ASSUME l \in WsReaders, link[l] \in WsSources, s = NoWs
       PROVE  /\ l \in Linked(link, link[l])
              /\ Linked(newLink, link[l]) = Linked(link, link[l]) \ {l}
              /\ \A r \in WsSources : r # link[l] => Linked(newLink, r) = Linked(link, r)
  BY <1>4, <1>6, <1>7, <1>9, <1>11
<1> QED BY <1>5, <1>8, <1>10, <1>11

\* A step that lets a listener join.
LEMMA SetSourceServes ==
  ASSUME WsInv, NEW l \in WsReaders, NEW s \in WsSources, WsSetSource(l, s)
  PROVE  WsInv'
<1> DEFINE e1 == Added(ws, "rconf", s, l)
           e2 == Added(e1, "reader", s, l)
<1>1. ws' = e2 /\ wsLink' = [wsLink EXCEPT ![l] = s] /\ wsLink[l] = NoWs
      /\ UNCHANGED <<wsServer, wsIn, wsTelling>>
  BY DEF WsSetSource
<1>2. /\ EngineOK(ws) /\ l \in WsListeners /\ "rconf" \in WsTypes /\ "reader" \in WsTypes
      /\ wsLink \in [WsListeners -> WsSources \union {NoWs}]
      /\ wsServer \in [inbox : Seq(WsMessage), subscribed : SUBSET WsSources]
  BY DEF WsInv, TypeOKWs, WsListeners, WsTypes
<1>3. AddsTo(ws, e1, "rconf", s, l)
  BY <1>2, AddedIs DEF AddsTo
<1>4. EngineOK(e1)
  BY <1>3 DEF AddsTo
<1> HIDE DEF e1
<1>5. AddsTo(e1, e2, "reader", s, l)
  BY <1>2, <1>4, AddedIs DEF AddsTo
<1> HIDE DEF e2
<1>6. ToldOrWorking(e2, wsTelling.action)
  BY <1>3, <1>5, AddedTold DEF WsInv
<1>7. RequestsOut(e2, wsServer.inbox, wsIn)
  BY <1>3, <1>5, AddedRequests DEF WsInv
<1>8. ServerWill(e2, wsServer)
  <2>1. ServerWill(e1, wsServer)
    BY <1>2, <1>3, AddedWill DEF WsInv
  <2> QED BY <1>2, <1>5, <2>1, AddedWill
<1>9. ReadersServe(e2, wsLink')
  <2>1. \A r \in WsSources : Linked(wsLink', r) = IF r = s THEN Linked(wsLink, r) \union {l} ELSE Linked(wsLink, r)
    <3>1. Relinked(wsLink, wsLink', l, s)
      BY <1>1, <1>2 DEF Relinked
    <3> QED BY <1>1, <3>1, LinkedIs
  <2>2. ASSUME NEW r \in WsSources PROVE Serves(e2, wsLink', r)
    <3>1. Serves(ws, wsLink, r)
      BY DEF WsInv, ReadersServe
    <3>2. Serves(e1, wsLink, r)
      BY <1>3, <3>1, AddedOthers
    <3>3. CASE r = s
      BY <1>5, <2>1, <3>2, <3>3, AddedReader
    <3>4. CASE r # s
      <4>1. Serves(e2, wsLink, r)
        BY <1>5, <3>2, <3>4, AddedOthers
      <4> QED BY <2>1, <3>4, <4>1 DEF Serves
    <3> QED BY <3>3, <3>4
  <2> QED BY <2>2 DEF ReadersServe
<1>10. TypeOKWs'
  <2>1. EngineOK(e2)
    BY <1>5 DEF AddsTo
  <2>2. Len(ws.made) \in Nat /\ Len(e2.made) \in Nat /\ Len(e2.made) >= Len(ws.made)
    <3>1. SameActions(ws, e1, "rconf", s, l) /\ SameActions(e1, e2, "reader", s, l)
      BY <1>3, <1>5, AddedKeepsActions
    <3> QED BY <3>1 DEF SameActions
  <2>3. wsLink' \in [WsListeners -> WsSources \union {NoWs}]
    BY <1>1, <1>2
  <2>4. wsTelling.action \in 0..Len(ws.made)
    BY DEF WsInv, TypeOKWs
  <2>5. wsTelling.action \in 0..Len(e2.made)
    BY <2>2, <2>4
  <2> QED BY <1>1, <2>1, <2>3, <2>5 DEF WsInv, TypeOKWs
<1> QED BY <1>1, <1>6, <1>7, <1>8, <1>9, <1>10 DEF WsInv

\* A writer asks for an action; its target may change.
LEMMA WriterServes ==
  ASSUME WsInv, NEW l \in WsWriters, NEW s \in WsSources,
         NEW t \in {"wconf", "write"},
         ws' = Added(ws, t, s, l),
         wsLink' \in [WsListeners -> WsSources \union {NoWs}],
         \A r : Linked(wsLink', r) = Linked(wsLink, r),
         UNCHANGED <<wsServer, wsIn, wsTelling>>
  PROVE  WsInv'
<1> DEFINE e2 == Added(ws, t, s, l)
<1>1. ws' = e2
  OBVIOUS
<1>2. /\ EngineOK(ws) /\ l \in WsListeners /\ t \in WsTypes
      /\ wsServer \in [inbox : Seq(WsMessage), subscribed : SUBSET WsSources]
  BY DEF WsInv, TypeOKWs, WsListeners, WsTypes
<1>3. AddsTo(ws, e2, t, s, l)
  BY <1>2, AddedIs DEF AddsTo
<1> HIDE DEF e2
<1>4. ToldOrWorking(e2, wsTelling.action)
  BY <1>3, AddedTold DEF WsInv
<1>5. RequestsOut(e2, wsServer.inbox, wsIn)
  BY <1>3, AddedRequests DEF WsInv
<1>6. ServerWill(e2, wsServer)
  BY <1>2, <1>3, AddedWill DEF WsInv
<1>7. ReadersServe(e2, wsLink')
  <2>1. ASSUME NEW r \in WsSources PROVE Serves(e2, wsLink', r)
    <3>1. Serves(ws, wsLink, r)
      BY DEF WsInv, ReadersServe
    <3>2. Serves(e2, wsLink, r)
      BY <1>3, <3>1, AddedOthers
    <3> QED BY <3>2 DEF Serves
  <2> QED BY <2>1 DEF ReadersServe
<1>8. TypeOKWs'
  <2>1. EngineOK(e2)
    BY <1>3 DEF AddsTo
  <2>2. Len(ws.made) \in Nat /\ Len(e2.made) \in Nat /\ Len(e2.made) >= Len(ws.made)
    <3>1. SameActions(ws, e2, t, s, l)
      BY <1>3, AddedKeepsActions
    <3> QED BY <3>1 DEF SameActions
  <2>3. wsTelling.action \in 0..Len(ws.made)
    BY DEF WsInv, TypeOKWs
  <2>4. wsTelling.action \in 0..Len(e2.made)
    BY <2>2, <2>3
  <2> QED BY <1>1, <2>1, <2>4 DEF WsInv, TypeOKWs
<1> QED BY <1>1, <1>4, <1>5, <1>6, <1>7, <1>8 DEF WsInv

\* A writer gets a target.
LEMMA SetTargetServes ==
  ASSUME WsInv, NEW l \in WsWriters, NEW s \in WsSources, WsSetTarget(l, s)
  PROVE  WsInv'
<1>1. wsLink' = [wsLink EXCEPT ![l] = s] /\ l \in WsListeners
      /\ wsLink \in [WsListeners -> WsSources \union {NoWs}]
  BY DEF WsSetTarget, WsInv, TypeOKWs, WsListeners
<1>2. wsLink' \in [WsListeners -> WsSources \union {NoWs}] /\ \A r : Linked(wsLink', r) = Linked(wsLink, r)
  <2>1. Relinked(wsLink, wsLink', l, s)
    BY <1>1 DEF Relinked
  <2> QED BY <2>1, LinkedIs
<1> QED BY <1>2, WriterServes DEF WsSetTarget

\* A writer writes to its target.
LEMMA ExecuteServes ==
  ASSUME WsInv, NEW l \in WsWriters, WsExecuteTarget(l)
  PROVE  WsInv'
<1>1. wsLink' = wsLink /\ l \in WsListeners /\ wsLink[l] # NoWs
      /\ wsLink \in [WsListeners -> WsSources \union {NoWs}]
  BY DEF WsExecuteTarget, WsInv, TypeOKWs, WsListeners
<1>2. wsLink[l] \in WsSources
  BY <1>1
<1> QED BY <1>1, <1>2, WriterServes DEF WsExecuteTarget

\* A writer leaves the configuration of readers and the write of its target.
LEMMA ClearTargetServes ==
  ASSUME WsInv, NEW l \in WsWriters, WsClearTarget(l)
  PROVE  WsInv'
<1> DEFINE s == wsLink[l]
           e1 == Unlinked(ws, "rconf", s, l)
           e2 == Unlinked(e1, "write", s, l)
<1>1. ws' = e2 /\ wsLink' = [wsLink EXCEPT ![l] = NoWs] /\ s # NoWs
      /\ UNCHANGED <<wsServer, wsIn, wsTelling>>
  BY DEF WsClearTarget
<1>2. /\ EngineOK(ws) /\ l \in WsListeners /\ "rconf" \in WsTypes /\ "write" \in WsTypes
      /\ wsLink \in [WsListeners -> WsSources \union {NoWs}]
  BY DEF WsInv, TypeOKWs, WsListeners, WsTypes
<1>3. s \in WsSources
  BY <1>1, <1>2
<1>4. wsLink' \in [WsListeners -> WsSources \union {NoWs}] /\ \A r : Linked(wsLink', r) = Linked(wsLink, r)
  <2>1. Relinked(wsLink, wsLink', l, NoWs)
    BY <1>1, <1>2 DEF Relinked
  <2> QED BY <2>1, LinkedIs
<1> HIDE DEF s
<1>5. LeftBy(ws, e1, "rconf", s, l)
  BY <1>2, <1>3, UnlinkedIs
<1>6. EngineOK(e1)
  BY <1>5 DEF LeftBy
<1> HIDE DEF e1
<1>7. LeftBy(e1, e2, "write", s, l)
  BY <1>2, <1>3, <1>6, UnlinkedIs
<1> HIDE DEF e2
<1>8. ToldOrWorking(e2, wsTelling.action)
  BY <1>5, <1>7, LeftTold DEF WsInv
<1>9. RequestsOut(e2, wsServer.inbox, wsIn)
  BY <1>5, <1>7, LeftRequests DEF WsInv
<1>10. ReadersServe(e2, wsLink) /\ ServerWill(e2, wsServer)
  <2>1. ReadersServe(e1, wsLink) /\ ServerWill(e1, wsServer)
    BY <1>5, LeftOthers DEF WsInv
  <2> QED BY <1>7, <2>1, LeftOthers
<1>11. ReadersServe(e2, wsLink')
  BY <1>4, <1>10 DEF ReadersServe, Serves
<1>12. TypeOKWs'
  <2>1. EngineOK(e2) /\ Len(e2.made) = Len(ws.made)
    BY <1>5, <1>7 DEF LeftBy
  <2> QED BY <1>1, <1>4, <2>1 DEF WsInv, TypeOKWs
<1> QED BY <1>1, <1>8, <1>9, <1>10, <1>11, <1>12 DEF WsInv

\* A reader leaves its source.
LEMMA UnsetSourceServes ==
  ASSUME WsInv, ~LeaveAgain, NEW l \in WsReaders, WsUnsetSource(l)
  PROVE  WsInv'
<1> DEFINE s == wsLink[l]
           e2 == Unlinked(ws, "reader", s, l)
<1>1. ws' = e2 /\ wsLink' = [wsLink EXCEPT ![l] = NoWs] /\ s # NoWs
      /\ UNCHANGED <<wsServer, wsIn, wsTelling>>
  BY DEF WsUnsetSource
<1>2. /\ EngineOK(ws) /\ l \in WsListeners /\ "reader" \in WsTypes
      /\ wsLink \in [WsListeners -> WsSources \union {NoWs}]
      /\ wsServer \in [inbox : Seq(WsMessage), subscribed : SUBSET WsSources]
  BY DEF WsInv, TypeOKWs, WsListeners, WsTypes
<1>3. s \in WsSources
  BY <1>1, <1>2
<1>4. /\ wsLink' \in [WsListeners -> WsSources \union {NoWs}] /\ l \in Linked(wsLink, s)
      /\ Linked(wsLink', s) = Linked(wsLink, s) \ {l}
      /\ \A r \in WsSources : r # s => Linked(wsLink', r) = Linked(wsLink, r)
  <2>1. Relinked(wsLink, wsLink', l, NoWs)
    BY <1>1, <1>2 DEF Relinked
  <2> QED BY <1>3, <2>1, LinkedIs
<1>5. \A i \in Found(ws, "reader", s) : ~ws.made[i].exit
  BY DEF WsUnsetSource, Found
<1> HIDE DEF s
<1>6. LeftBy(ws, e2, "reader", s, l)
  BY <1>2, <1>3, UnlinkedIs
<1> HIDE DEF e2
<1>7. ToldOrWorking(e2, wsTelling.action)
  BY <1>6, LeftTold DEF WsInv
<1>8. RequestsOut(e2, wsServer.inbox, wsIn)
  BY <1>6, LeftRequests DEF WsInv
<1>9. ReadersServe(e2, wsLink') /\ ServerWill(e2, wsServer)
  BY <1>2, <1>4, <1>5, <1>6, LeftReader DEF WsInv
<1>10. TypeOKWs'
  <2>1. EngineOK(e2) /\ Len(e2.made) = Len(ws.made)
    BY <1>6 DEF LeftBy
  <2> QED BY <1>1, <1>4, <2>1 DEF WsInv, TypeOKWs
<1> QED BY <1>1, <1>7, <1>8, <1>9, <1>10 DEF WsInv

\* Two engines with the same actions at work, which have the same listeners.
SameWork(e, f) ==
  /\ Len(f.made) = Len(e.made)
  /\ \A i \in 1..Len(e.made) :
       /\ f.made[i].type = e.made[i].type /\ f.made[i].src = e.made[i].src
       /\ f.made[i].exit = e.made[i].exit
       /\ ~e.made[i].exit => f.made[i].lis = e.made[i].lis

\* Where the same actions work, with the same listeners, who reads is served as
\* before.
LEMMA SameWorkServes ==
  ASSUME NEW e, NEW f, SameWork(e, f)
  PROVE  /\ \A u, r : Working(f, u, r) = Working(e, u, r)
         /\ \A link : ReadersServe(e, link) => ReadersServe(f, link)
<1>1. \A u, r : Working(f, u, r) = Working(e, u, r)
  BY DEF SameWork, Working
<1>2. \A u, r : \A i \in Working(e, u, r) : f.made[i].lis = e.made[i].lis
  BY DEF SameWork, Working
<1>3. ASSUME NEW link, ReadersServe(e, link) PROVE ReadersServe(f, link)
  <2>1. ASSUME NEW r \in WsSources PROVE Serves(f, link, r)
    <3>1. Serves(e, link, r)
      BY <1>3 DEF ReadersServe
    <3> QED BY <1>1, <1>2, <3>1 DEF Serves
  <2> QED BY <2>1 DEF ReadersServe
<1> QED BY <1>1, <1>3

\* Of what is sent and taken in order the first is the first, and the rest follows.
LEMMA FirstOfBoth ==
  ASSUME NEW s \in Seq(WsMessage), s # <<>>, NEW u \in Seq(WsMessage)
  PROVE  s \o u # <<>> /\ Head(s \o u) = Head(s) /\ Tail(s \o u) = Tail(s) \o u
OBVIOUS

\* What goes from the head of one queue to the end of another stays in its place
\* between the others.
LEMMA PassedOn ==
  ASSUME NEW s \in Seq(WsMessage), NEW u \in Seq(WsMessage), u # <<>>
  PROVE  Append(s, Head(u)) \o Tail(u) = s \o u
OBVIOUS

\* A queue holds its head and what is in its tail.
LEMMA ElementsSplit ==
  ASSUME NEW u \in Seq(WsMessage), u # <<>>
  PROVE  ToSet(u) = {Head(u)} \union ToSet(Tail(u)) /\ Head(u) \in WsMessage /\ Tail(u) \in Seq(WsMessage)
<1>1. Head(u) \in WsMessage /\ Tail(u) \in Seq(WsMessage) /\ u = <<Head(u)>> \o Tail(u)
  OBVIOUS
<1>2. <<Head(u)>> \in Seq(WsMessage) /\ ToSet(<<Head(u)>>) = {Head(u)}
  BY <1>1 DEF ToSet
<1> DEFINE h == <<Head(u)>>
           r == Tail(u)
<1>3. ToSet(h \o r) = ToSet(h) \union ToSet(r)
  <2> HIDE DEF h, r
  <2>1. h \in Seq(WsMessage) /\ r \in Seq(WsMessage)
    BY <1>1, <1>2 DEF h, r
  <2> QED BY <2>1, ElementsConcatenated
<1> QED BY <1>1, <1>2, <1>3

\* The socket is connected.
LEMMA ConnectedServes ==
  ASSUME WsInv, OnConnected
  PROVE  WsInv'
<1>1. ws' = [ws EXCEPT !.open = TRUE] /\ UNCHANGED <<wsLink, wsServer, wsIn, wsTelling>>
  BY DEF OnConnected
<1>2. ws \in WsEngine
  BY DEF WsInv, TypeOKWs, EngineOK
<1>3. ws' \in WsEngine /\ ws'.made = ws.made /\ ws'.list = ws.list /\ ws'.out = ws.out
  BY <1>1, <1>2 DEF WsEngine
<1>4. SameWork(ws, ws')
  BY <1>3 DEF SameWork
<1>5. /\ \A u, r : Working(ws', u, r) = Working(ws, u, r)
      /\ \A link : ReadersServe(ws, link) => ReadersServe(ws', link)
  BY <1>4, SameWorkServes
<1>6. EngineOK(ws')
  BY <1>3, <1>5 DEF WsInv, TypeOKWs, EngineOK
<1>7. ToldOrWorking(ws', wsTelling.action) /\ RequestsOut(ws', wsServer.inbox, wsIn)
      /\ ServerWill(ws', wsServer)
  BY <1>3, <1>5 DEF WsInv, ToldOrWorking, RequestsOut, ServerWill
<1> QED BY <1>1, <1>3, <1>5, <1>6, <1>7 DEF WsInv, TypeOKWs

\* The server has one more message.
LEMMA TransmitServes ==
  ASSUME WsInv, Transmit
  PROVE  WsInv'
<1>1. /\ ws' = [ws EXCEPT !.out = Tail(@)] /\ ws.out # <<>>
      /\ wsServer' = [wsServer EXCEPT !.inbox = Append(@, Head(ws.out))]
      /\ UNCHANGED <<wsLink, wsIn, wsTelling>>
  BY DEF Transmit
<1>2. /\ ws \in WsEngine /\ ws.out \in Seq(WsMessage)
      /\ wsServer \in [inbox : Seq(WsMessage), subscribed : SUBSET WsSources]
  BY EngineFields DEF WsInv, TypeOKWs, EngineOK
<1> DEFINE out == ws.out
           inbox == wsServer.inbox
<1>3. out \in Seq(WsMessage) /\ out # <<>> /\ inbox \in Seq(WsMessage)
  BY <1>1, <1>2
<1>4. ws'.made = ws.made /\ ws'.list = ws.list /\ ws'.out = Tail(out) /\ ws'.open = ws.open
      /\ ws'.bad = ws.bad /\ ws' = [ws EXCEPT !.out = ws'.out]
      /\ wsServer'.inbox = Append(inbox, Head(out)) /\ wsServer'.subscribed = wsServer.subscribed
  BY <1>1, <1>2 DEF WsEngine
<1>5. SameWork(ws, ws')
  BY <1>4 DEF SameWork
<1>6. /\ \A u, r : Working(ws', u, r) = Working(ws, u, r)
      /\ \A link : ReadersServe(ws, link) => ReadersServe(ws', link)
  BY <1>5, SameWorkServes
<1> HIDE DEF out, inbox
<1>7. /\ ToSet(out) = {Head(out)} \union ToSet(Tail(out)) /\ Head(out) \in WsMessage /\ Tail(out) \in Seq(WsMessage)
      /\ ToSet(Append(inbox, Head(out))) = ToSet(inbox) \union {Head(out)}
      /\ Append(inbox, Head(out)) \in Seq(WsMessage)
  <2>1. ToSet(out) = {Head(out)} \union ToSet(Tail(out)) /\ Head(out) \in WsMessage /\ Tail(out) \in Seq(WsMessage)
    BY <1>3, ElementsSplit
  <2> DEFINE h == Head(out)
  <2>2. h \in WsMessage
    BY <2>1
  <2> HIDE DEF h
  <2>3. ToSet(Append(inbox, h)) = ToSet(inbox) \union {h} /\ Append(inbox, h) \in Seq(WsMessage)
    BY <1>3, <2>2, ElementsAppended
  <2> QED BY <2>1, <2>3 DEF h
<1>8. EngineOK(ws')
  <2>1. ws' \in WsEngine
    BY <1>2, <1>4, <1>7 DEF WsEngine
  <2> QED BY <1>4, <1>6, <2>1 DEF WsInv, TypeOKWs, EngineOK
<1>9. ServerWill(ws', wsServer')
  <2>1. Append(inbox, Head(out)) \o Tail(out) = inbox \o out
    BY <1>3, PassedOn
  <2>2. wsServer'.inbox \o ws'.out = wsServer.inbox \o ws.out
    BY <1>4, <2>1 DEF inbox, out
  <2> QED BY <1>4, <1>6, <2>2 DEF WsInv, ServerWill
<1>10. RequestsOut(ws', wsServer'.inbox, wsIn)
  <2>1. ToSet(ws'.out) \union ToSet(wsServer'.inbox) = ToSet(ws.out) \union ToSet(wsServer.inbox)
    BY <1>4, <1>7 DEF inbox, out
  <2> QED BY <1>4, <2>1 DEF WsInv, RequestsOut
<1>11. ToldOrWorking(ws', wsTelling.action)
  BY <1>4 DEF WsInv, ToldOrWorking
<1>12. wsServer' \in [inbox : Seq(WsMessage), subscribed : SUBSET WsSources]
  <2>1. wsServer' = [inbox |-> Append(inbox, Head(out)), subscribed |-> wsServer.subscribed]
    BY <1>1, <1>2 DEF inbox, out
  <2> QED BY <1>2, <1>7, <2>1
<1> QED BY <1>1, <1>4, <1>6, <1>8, <1>9, <1>10, <1>11, <1>12 DEF WsInv, TypeOKWs

\* The readers that have stopped are deleted.
LEMMA DeleteServes ==
  ASSUME WsInv, DeleteStopped
  PROVE  WsInv'
<1> DEFINE made == [i \in DOMAIN ws.made |-> OnceDeleted(ws.made[i])]
<1>1. ws' = [ws EXCEPT !.made = made] /\ UNCHANGED <<wsLink, wsServer, wsIn, wsTelling>>
  BY DEF DeleteStopped
<1>2. /\ ws \in WsEngine /\ ws.made \in Seq(WsAction) /\ Len(ws.made) \in Nat /\ DOMAIN ws.made = 1..Len(ws.made)
  BY EngineFields DEF WsInv, TypeOKWs, EngineOK
<1>3. ASSUME NEW i \in 1..Len(ws.made)
      PROVE  /\ made[i] \in WsAction /\ made[i].type = ws.made[i].type /\ made[i].src = ws.made[i].src
             /\ made[i].lis = ws.made[i].lis /\ made[i].exit = ws.made[i].exit
             /\ ~made[i].exit => made[i].deleted = ws.made[i].deleted
  <2>1. ws.made[i] \in WsAction
    BY <1>2
  <2>2. made[i] = OnceDeleted(ws.made[i])
    BY <1>2
  <2> HIDE DEF made
  <2> QED BY <2>1, <2>2 DEF OnceDeleted, WsAction
<1>4. made \in Seq(WsAction) /\ Len(made) = Len(ws.made)
  <2>1. made \in [1..Len(ws.made) -> WsAction]
    <3>1. \A i \in 1..Len(ws.made) : made[i] \in WsAction
      BY <1>3
    <3> QED BY <1>2, <3>1
  <2> HIDE DEF made
  <2> QED BY <1>2, <2>1
<1> HIDE DEF made
<1>5. ws' \in WsEngine /\ ws'.made = made /\ ws'.list = ws.list /\ ws'.out = ws.out
  BY <1>1, <1>2, <1>4 DEF WsEngine
<1>6. SameWork(ws, ws')
  BY <1>3, <1>4, <1>5 DEF SameWork
<1>7. /\ \A u, r : Working(ws', u, r) = Working(ws, u, r)
      /\ \A link : ReadersServe(ws, link) => ReadersServe(ws', link)
  BY <1>6, SameWorkServes
<1>8. EngineOK(ws')
  <2>1. \A i \in 1..Len(ws'.made) : ~ws'.made[i].exit =>
             ~ws'.made[i].deleted /\ \E k \in 1..Len(ws'.list) : ws'.list[k] = i
    BY <1>3, <1>4, <1>5 DEF WsInv, TypeOKWs, EngineOK
  <2> QED BY <1>4, <1>5, <1>7, <2>1 DEF WsInv, TypeOKWs, EngineOK
<1>9. ToldOrWorking(ws', wsTelling.action) /\ RequestsOut(ws', wsServer.inbox, wsIn)
      /\ ServerWill(ws', wsServer)
  BY <1>3, <1>4, <1>5, <1>7 DEF WsInv, ToldOrWorking, RequestsOut, ServerWill
<1> QED BY <1>1, <1>4, <1>5, <1>7, <1>8, <1>9 DEF WsInv, TypeOKWs

\* The server takes the first message: a request is answered.
LEMMA ServeServes ==
  ASSUME WsInv, Serve
  PROVE  WsInv'
<1> DEFINE inbox == wsServer.inbox
           m == Head(inbox)
           rest == Tail(inbox)
           sub == wsServer.subscribed
<1>1. inbox # <<>> /\ UNCHANGED <<ws, wsLink, wsTelling>>
  BY DEF Serve
<1>2. /\ wsServer \in [inbox : Seq(WsMessage), subscribed : SUBSET WsSources]
      /\ inbox \in Seq(WsMessage) /\ ws.out \in Seq(WsMessage) /\ wsIn \in Seq(WsMessage)
  BY EngineFields DEF WsInv, TypeOKWs, EngineOK
<1>3. /\ wsServer'.inbox = rest /\ wsServer'.subscribed = SubscribedAfter(m, sub)
      /\ wsServer' = [inbox |-> rest, subscribed |-> SubscribedAfter(m, sub)]
  <2>1. CASE m.op \in {"subscribe", "unsubscribe"}
    <3>1. wsServer' = [inbox |-> rest,
                       subscribed |-> IF m.op = "subscribe" THEN sub \union {m.src} ELSE sub \ {m.src}]
      BY <2>1 DEF Serve
    <3>2. SubscribedAfter(m, sub) = IF m.op = "subscribe" THEN sub \union {m.src} ELSE sub \ {m.src}
      BY <2>1 DEF SubscribedAfter
    <3> HIDE DEF rest
    <3> QED BY <3>1, <3>2
  <2>2. CASE m.op \notin {"subscribe", "unsubscribe"}
    <3>1. wsServer' = [wsServer EXCEPT !.inbox = rest]
      BY <2>2 DEF Serve
    <3> QED BY <1>2, <2>2, <3>1 DEF SubscribedAfter
  <2> QED BY <2>1, <2>2
<1>4. ToSet(inbox) = {m} \union ToSet(rest) /\ m \in WsMessage /\ rest \in Seq(WsMessage)
  <2> HIDE DEF inbox
  <2> QED BY <1>1, <1>2, ElementsSplit
<1>5. /\ wsIn' \in Seq(WsMessage) /\ ToSet(wsIn) \subseteq ToSet(wsIn')
      /\ m.op \notin {"subscribe", "unsubscribe"} => m \in ToSet(wsIn')
  <2>1. CASE m.op \in {"subscribe", "unsubscribe"}
    BY <1>2, <2>1 DEF Serve
  <2>2. CASE m.op \notin {"subscribe", "unsubscribe"}
    <3>1. PICK early \in {<<>>} \union (IF m.op = "write" THEN {<<Msg("error", m.src)>>} ELSE {}) :
            wsIn' = wsIn \o early \o <<m>>
      BY <2>2 DEF Serve
    <3>2. early \in Seq(WsMessage)
      <4>1. Msg("error", m.src) \in WsMessage
        BY <1>4 DEF Msg, WsMessage
      <4>2. early = <<>> \/ early = <<Msg("error", m.src)>>
        BY <3>1
      <4> DEFINE w == Msg("error", m.src)
      <4> HIDE DEF w
      <4>3. <<w>> \in Seq(WsMessage) /\ <<>> \in Seq(WsMessage)
        BY <4>1 DEF w
      <4>4. early = <<>> \/ early = <<w>>
        BY <4>2 DEF w
      <4> QED BY <4>3, <4>4
    <3> HIDE DEF m
    <3>3. <<m>> \in Seq(WsMessage) /\ ToSet(<<m>>) = {m}
      BY <1>4 DEF ToSet
    <3> DEFINE a == wsIn \o early
               b == <<m>>
    <3>4. a \in Seq(WsMessage) /\ ToSet(a) = ToSet(wsIn) \union ToSet(early)
      BY <1>2, <3>2, ElementsConcatenated
    <3> HIDE DEF a, b
    <3>5. b \in Seq(WsMessage) /\ ToSet(b) = {m}
      BY <3>3 DEF b
    <3>6. a \o b \in Seq(WsMessage) /\ ToSet(a \o b) = ToSet(a) \union ToSet(b)
      BY <3>4, <3>5, ElementsConcatenated
    <3>7. wsIn' = a \o b
      BY <3>1 DEF a, b
    <3> QED BY <3>4, <3>5, <3>6, <3>7
  <2> QED BY <2>1, <2>2
<1>6. wsServer' \in [inbox : Seq(WsMessage), subscribed : SUBSET WsSources]
  <2>1. m.src \in WsSources /\ sub \in SUBSET WsSources
    BY <1>2, <1>4 DEF WsMessage
  <2>2. SubscribedAfter(m, sub) \in SUBSET WsSources
    <3> HIDE DEF m, sub
    <3> QED BY <2>1 DEF SubscribedAfter
  <2> QED BY <1>3, <1>4, <2>2
<1> HIDE DEF m, rest
<1>7. ServerWill(ws, wsServer')
  <2> DEFINE ms == inbox \o ws.out
  <2>1. ms \in Seq(WsMessage) /\ ms # <<>> /\ Head(ms) = m /\ Tail(ms) = rest \o ws.out
    <3> HIDE DEF inbox
    <3>1. ms \in Seq(WsMessage)
      BY <1>2
    <3> QED BY <1>1, <1>2, <3>1, FirstOfBoth DEF m, rest
  <2> HIDE DEF ms, sub
  <2>2. ASSUME NEW r \in WsSources
        PROVE  Will(rest \o ws.out, SubscribedAfter(m, sub), r) <=> Will(ms, sub, r)
    <3>1. Will(Tail(ms), SubscribedAfter(Head(ms), sub), r) <=> Will(ms, sub, r)
      BY <2>1, WillServed
    <3> QED BY <2>1, <3>1
  <2>3. \A r \in WsSources : Will(ms, sub, r) <=> Working(ws, "reader", r) # {}
    BY DEF WsInv, ServerWill, ms, sub
  <2> QED BY <1>3, <2>2, <2>3 DEF ServerWill
<1>8. RequestsOut(ws, wsServer'.inbox, wsIn')
  <2>1. ASSUME NEW i \in 1..Len(ws.made), ws.made[i].type # "reader", ~ws.made[i].exit
        PROVE  Msg(ws.made[i].type, ws.made[i].src) \in ToSet(ws.out) \union ToSet(wsServer'.inbox) \union ToSet(wsIn')
    <3>1. Msg(ws.made[i].type, ws.made[i].src) \in ToSet(ws.out) \union ToSet(inbox) \union ToSet(wsIn)
      BY <2>1 DEF WsInv, RequestsOut
    <3>2. CASE Msg(ws.made[i].type, ws.made[i].src) = m
      <4>1. ws.made[i].type \in WsTypes
        BY EngineFields DEF WsInv, TypeOKWs, EngineOK
      <4>2. m.op \notin {"subscribe", "unsubscribe"}
        BY <3>2, <4>1 DEF Msg, WsTypes
      <4> QED BY <1>5, <3>2, <4>2
    <3> QED BY <1>3, <1>4, <1>5, <3>1, <3>2
  <2> QED BY <2>1 DEF RequestsOut
<1> QED BY <1>1, <1>5, <1>6, <1>7, <1>8 DEF WsInv, TypeOKWs

\* The server sends an event.
LEMMA PublishServes ==
  ASSUME WsInv, NEW s \in WsSources, PublishWs(s)
  PROVE  WsInv'
<1> DEFINE m == Msg("reader", s)
<1>1. wsIn' = Append(wsIn, m) /\ UNCHANGED <<ws, wsLink, wsServer, wsTelling>>
  BY DEF PublishWs
<1>2. wsIn \in Seq(WsMessage) /\ m \in WsMessage
  BY DEF WsInv, TypeOKWs, Msg, WsMessage, WsTypes
<1> HIDE DEF m
<1>3. wsIn' \in Seq(WsMessage) /\ ToSet(wsIn) \subseteq ToSet(wsIn')
  BY <1>1, <1>2, ElementsAppended
<1>4. RequestsOut(ws, wsServer.inbox, wsIn')
  BY <1>3 DEF WsInv, RequestsOut
<1> QED BY <1>1, <1>3, <1>4 DEF WsInv, TypeOKWs

\* A listener is called.
LEMMA TellServes ==
  ASSUME WsInv, TellWsListener
  PROVE  WsInv'
<1>1. PICK l \in ws.made[wsTelling.action].lis \ wsTelling.done :
        wsTelling' = [wsTelling EXCEPT !.done = @ \union {l}, !.told = l]
  BY DEF TellWsListener
<1>2. UNCHANGED <<ws, wsLink, wsServer, wsIn>> /\ wsTelling.action # 0
  BY DEF TellWsListener
<1>3. wsTelling \in [action : 0..Len(ws.made), todo : SUBSET WsListeners, done : SUBSET WsListeners,
                     told : WsListeners \union {NoWs}, more : BOOLEAN]
  BY DEF WsInv, TypeOKWs
<1>4. l \in WsListeners
  <2>1. wsTelling.action \in 1..Len(ws.made)
    <3>1. Len(ws.made) \in Nat
      BY EngineFields DEF WsInv, TypeOKWs, EngineOK
    <3> QED BY <1>2, <1>3, <3>1
  <2>2. ws.made[wsTelling.action].lis \in SUBSET WsListeners
    BY <2>1, EngineFields DEF WsInv, TypeOKWs, EngineOK
  <2> QED BY <2>2
<1>5. /\ wsTelling' \in [action : 0..Len(ws.made), todo : SUBSET WsListeners, done : SUBSET WsListeners,
                         told : WsListeners \union {NoWs}, more : BOOLEAN]
      /\ wsTelling'.action = wsTelling.action
  BY <1>1, <1>3, <1>4
<1> QED BY <1>2, <1>5 DEF WsInv, TypeOKWs

\* A message goes to the action that works for its source; the one that has its
\* answer stops, and is told.
LEMMA DeliverServes ==
  ASSUME WsInv, DeliverMsg
  PROVE  WsInv'
<1> DEFINE m == Head(wsIn)
           ks == Active(ws, TypeOf(m), m.src)
           i == ws.list[FirstOf(ks)]
           next == [Quiet EXCEPT !.more = Len(wsIn) > 1]
<1>1. /\ wsIn # <<>> /\ wsIn' = Tail(wsIn) /\ wsTelling.action = 0 /\ UNCHANGED <<wsLink, wsServer>>
      /\ ks = {} => ws' = [ws EXCEPT !.bad = Dangling(ws, Len(ws.list))] /\ wsTelling' = next
      /\ ks # {} => /\ ws' = [ws EXCEPT !.bad = Dangling(ws, FirstOf(ks)),
                                        !.made[i].exit = m.op \notin {"reader", "error"}]
                    /\ wsTelling' = [next EXCEPT !.action = i, !.todo = ws.made[i].lis]
  BY DEF DeliverMsg
<1>2. /\ ws \in WsEngine /\ EngineOK(ws) /\ wsIn \in Seq(WsMessage) /\ ws.made \in Seq(WsAction)
      /\ Len(ws.made) \in Nat /\ DOMAIN ws.made = 1..Len(ws.made)
  BY EngineFields DEF WsInv, TypeOKWs, EngineOK
<1>3. ToSet(wsIn) = {m} \union ToSet(Tail(wsIn)) /\ m \in WsMessage /\ Tail(wsIn) \in Seq(WsMessage)
  BY <1>1, <1>2, ElementsSplit
<1>4. {ws.list[k] : k \in ks} = Working(ws, TypeOf(m), m.src) /\ (ks # {} => i \in Working(ws, TypeOf(m), m.src))
  BY <1>2, FoundWorking
<1>5. next \in [action : {0}, todo : {{}}, done : {{}}, told : {NoWs}, more : BOOLEAN]
  <2> DEFINE more == Len(wsIn) > 1
  <2>1. next = [Quiet EXCEPT !.more = more] /\ more \in BOOLEAN
    OBVIOUS
  <2> HIDE DEF more
  <2> QED BY <2>1 DEF Quiet
<1> HIDE DEF m, ks, i, next
<1>6. ASSUME NEW j \in 1..Len(ws.made), ws.made[j].type # "reader", ~ws.made[j].exit,
             Msg(ws.made[j].type, ws.made[j].src) = m
      PROVE  j \in Working(ws, TypeOf(m), m.src) /\ m.op \notin {"reader", "error"}
  <2>1. ws.made[j].type \in WsTypes
    BY <1>2, EngineFields
  <2>2. m.op = ws.made[j].type /\ m.src = ws.made[j].src
    BY <1>6 DEF Msg
  <2> QED BY <1>6, <2>1, <2>2 DEF TypeOf, Working, WsTypes
<1>7. ASSUME NEW j \in 1..Len(ws.made), ws.made[j].lis # {} PROVE ~ws.made[j].exit
  <2>1. 0 \notin 1..Len(ws.made)
    BY <1>2
  <2> QED BY <1>1, <1>7, <2>1 DEF WsInv, ToldOrWorking
<1>8. CASE ks = {}
  <2> DEFINE bad == Dangling(ws, Len(ws.list))
  <2>1. ws' = [ws EXCEPT !.bad = bad] /\ wsTelling' = next /\ bad \in BOOLEAN
    BY <1>1, <1>8 DEF Dangling
  <2> HIDE DEF bad
  <2>2. ws' \in WsEngine /\ ws'.made = ws.made /\ ws'.list = ws.list /\ ws'.out = ws.out
    BY <1>2, <2>1 DEF WsEngine
  <2>3. SameWork(ws, ws')
    BY <2>2 DEF SameWork
  <2>4. /\ \A u, r : Working(ws', u, r) = Working(ws, u, r)
        /\ \A link : ReadersServe(ws, link) => ReadersServe(ws', link)
    BY <2>3, SameWorkServes
  <2>5. EngineOK(ws')
    BY <1>2, <2>2, <2>4 DEF EngineOK
  <2>6. ToldOrWorking(ws', 0)
    BY <1>7, <2>2 DEF ToldOrWorking
  <2>7. ServerWill(ws', wsServer)
    BY <2>2, <2>4 DEF WsInv, ServerWill
  <2>8. RequestsOut(ws', wsServer.inbox, wsIn')
    <3>1. ASSUME NEW j \in 1..Len(ws.made), ws.made[j].type # "reader", ~ws.made[j].exit
          PROVE  Msg(ws.made[j].type, ws.made[j].src) \in ToSet(ws.out) \union ToSet(wsServer.inbox) \union ToSet(Tail(wsIn))
      <4>1. Msg(ws.made[j].type, ws.made[j].src) # m
        BY <1>4, <1>6, <1>8, <3>1
      <4> QED BY <1>3, <3>1, <4>1 DEF WsInv, RequestsOut
    <3> QED BY <1>1, <2>2, <3>1 DEF RequestsOut
  <2>9. wsTelling'.action = 0 /\ wsTelling' \in [action : 0..Len(ws.made), todo : SUBSET WsListeners, done : SUBSET WsListeners,
                           told : WsListeners \union {NoWs}, more : BOOLEAN]
    BY <1>2, <1>5, <2>1
  <2> QED BY <1>1, <1>3, <2>2, <2>4, <2>5, <2>6, <2>7, <2>8, <2>9 DEF WsInv, TypeOKWs
<1>9. CASE ks # {}
  <2> DEFINE bad == Dangling(ws, FirstOf(ks))
             stops == m.op \notin {"reader", "error"}
             made == [ws.made EXCEPT ![i].exit = stops]
  <2>1. i \in Working(ws, TypeOf(m), m.src) /\ i \in 1..Len(ws.made) /\ ~ws.made[i].exit
        /\ ws.made[i].type = TypeOf(m) /\ ws.made[i].src = m.src
    BY <1>4, <1>9 DEF Working
  <2>2. bad \in BOOLEAN /\ stops \in BOOLEAN
    BY DEF Dangling
  <2>3. ws' = [ws EXCEPT !.bad = bad, !.made[i].exit = stops]
    BY <1>1, <1>9
  <2> HIDE DEF bad, stops
  <2>4. ws' = [made |-> made, list |-> ws.list, out |-> ws.out, open |-> ws.open, bad |-> bad]
    BY <1>2, <2>3 DEF WsEngine
  <2>5. ASSUME NEW j \in 1..Len(ws.made)
        PROVE  /\ made[j] \in WsAction /\ made[j].type = ws.made[j].type /\ made[j].src = ws.made[j].src
               /\ made[j].lis = ws.made[j].lis /\ made[j].deleted = ws.made[j].deleted
               /\ (made[j].exit <=> ws.made[j].exit \/ (j = i /\ stops))
    <3>1. ws.made[j] \in WsAction
      BY <1>2
    <3>2. j # i => made[j] = ws.made[j]
      BY <1>2
    <3>3. j = i => made[j] = [ws.made[i] EXCEPT !.exit = stops]
      BY <1>2
    <3> HIDE DEF made
    <3> QED BY <2>1, <2>2, <3>1, <3>2, <3>3 DEF WsAction
  <2>6. made \in Seq(WsAction) /\ Len(made) = Len(ws.made)
    <3>1. made \in [1..Len(ws.made) -> WsAction]
      <4>1. \A j \in 1..Len(ws.made) : made[j] \in WsAction
        BY <2>5
      <4>2. DOMAIN made = 1..Len(ws.made)
        BY <1>2
      <4>3. made = [j \in 1..Len(ws.made) |-> made[j]]
        BY <1>2
      <4> HIDE DEF made
      <4> QED BY <4>1, <4>3
    <3> HIDE DEF made
    <3> QED BY <1>2, <3>1
  <2> HIDE DEF made
  <2>7. ws' \in WsEngine /\ ws'.made = made /\ ws'.list = ws.list /\ ws'.out = ws.out
    BY <1>2, <2>2, <2>4, <2>6 DEF WsEngine
  <2>8. \A u, r : Working(ws', u, r) \subseteq Working(ws, u, r)
    BY <2>5, <2>6, <2>7 DEF Working
  <2>9. \A u, r : u # TypeOf(m) \/ ~stops => Working(ws', u, r) = Working(ws, u, r)
    <3>1. ASSUME NEW u, NEW r, u # TypeOf(m) \/ ~stops PROVE Working(ws', u, r) = Working(ws, u, r)
      <4>1. \A j \in Working(ws, u, r) : j \in 1..Len(ws.made) /\ ~(j = i /\ stops)
        BY <2>1, <3>1 DEF Working
      <4>2. \A j \in Working(ws, u, r) : j \in Working(ws', u, r)
        BY <2>5, <2>6, <2>7, <4>1 DEF Working
      <4> QED BY <2>8, <4>2
    <3> QED BY <3>1
  <2>10. stops => TypeOf(m) # "reader"
    BY DEF stops, TypeOf
  <2>11. \A r : Working(ws', "reader", r) = Working(ws, "reader", r)
    BY <2>9, <2>10
  <2>12. EngineOK(ws')
    <3>1. \A j \in 1..Len(ws'.made) : ~ws'.made[j].exit =>
             ~ws'.made[j].deleted /\ \E k \in 1..Len(ws'.list) : ws'.list[k] = j
      BY <1>2, <2>5, <2>6, <2>7 DEF EngineOK
    <3> QED BY <1>2, <2>6, <2>7, <2>8, <3>1 DEF EngineOK
  <2>13. ReadersServe(ws', wsLink)
    <3>1. ASSUME NEW r \in WsSources PROVE Serves(ws', wsLink, r)
      <4>1. Serves(ws, wsLink, r)
        BY DEF WsInv, ReadersServe
      <4>2. \A j \in Working(ws, "reader", r) : ws'.made[j].lis = ws.made[j].lis
        BY <2>5, <2>7 DEF Working
      <4> QED BY <2>11, <4>1, <4>2 DEF Serves
    <3> QED BY <3>1 DEF ReadersServe
  <2>14. ToldOrWorking(ws', i)
    BY <1>7, <2>5, <2>6, <2>7 DEF ToldOrWorking
  <2>15. ServerWill(ws', wsServer)
    BY <2>7, <2>11 DEF WsInv, ServerWill
  <2>16. RequestsOut(ws', wsServer.inbox, wsIn')
    <3>1. ASSUME NEW j \in 1..Len(ws.made), ws'.made[j].type # "reader", ~ws'.made[j].exit
          PROVE  Msg(ws'.made[j].type, ws'.made[j].src)
                   \in ToSet(ws'.out) \union ToSet(wsServer.inbox) \union ToSet(wsIn')
      <4>1. ws'.made[j].type = ws.made[j].type /\ ws'.made[j].src = ws.made[j].src /\ ~ws.made[j].exit
            /\ ~(j = i /\ stops)
        BY <2>5, <2>7, <3>1
      <4>2. Msg(ws.made[j].type, ws.made[j].src) # m
        <5>1. ASSUME Msg(ws.made[j].type, ws.made[j].src) = m PROVE FALSE
          <6>1. j \in Working(ws, TypeOf(m), m.src) /\ m.op \notin {"reader", "error"}
            BY <1>6, <3>1, <4>1, <5>1
          <6>2. j = i
            <7>1. TypeOf(m) \in WsTypes /\ m.src \in WsSources
              <8>1. ws.made[i].type \in WsTypes /\ ws.made[i].src \in WsSources
                BY <1>2, <2>1, EngineFields
              <8> QED BY <2>1, <8>1
            <7> QED BY <1>2, <2>1, <6>1, <7>1 DEF EngineOK
          <6> QED BY <4>1, <6>1, <6>2 DEF stops
        <5> QED BY <5>1
      <4>3. Msg(ws.made[j].type, ws.made[j].src) \in ToSet(ws.out) \union ToSet(wsServer.inbox) \union ToSet(wsIn)
        BY <3>1, <4>1 DEF WsInv, RequestsOut
      <4> QED BY <1>1, <1>3, <2>7, <4>1, <4>2, <4>3
    <3> QED BY <2>6, <2>7, <3>1 DEF RequestsOut
  <2>17. /\ wsTelling'.action = i
         /\ wsTelling' \in [action : 0..Len(ws.made), todo : SUBSET WsListeners, done : SUBSET WsListeners,
                            told : WsListeners \union {NoWs}, more : BOOLEAN]
    <3>1. ws.made[i].lis \in SUBSET WsListeners
      BY <1>2, <2>1, EngineFields
    <3>2. i \in 0..Len(ws.made)
      BY <1>2, <2>1
    <3> DEFINE todo == ws.made[i].lis
    <3>3. wsTelling' = [next EXCEPT !.action = i, !.todo = todo]
      BY <1>1, <1>9
    <3> HIDE DEF todo
    <3>4. wsTelling' = [action |-> i, todo |-> todo, done |-> {}, told |-> NoWs, more |-> next.more]
      BY <1>5, <3>3
    <3> QED BY <1>5, <3>1, <3>2, <3>4 DEF todo
  <2> QED BY <1>1, <1>3, <2>6, <2>7, <2>12, <2>13, <2>14, <2>15, <2>16, <2>17 DEF WsInv, TypeOKWs
<1> QED BY <1>8, <1>9

\* When all have been told, the action that has stopped leaves the list with the
\* others of its type and source that have.
LEMMA EndServes ==
  ASSUME WsInv, EndWsMessage
  PROVE  WsInv'
<1> DEFINE x == wsTelling.action
           a == ws.made[x]
           Leaves(j) == LET b == ws.made[j] IN b.type = a.type /\ b.src = a.src /\ b.exit
<1>1. /\ x # 0 /\ wsTelling' = [Quiet EXCEPT !.more = wsTelling.more] /\ UNCHANGED <<wsLink, wsServer, wsIn>>
      /\ ~a.exit => ws' = ws
      /\ a.exit => ws' = [ws EXCEPT !.list = Kept(@, {k \in 1..Len(@) : ~Leaves(@[k])}),
                                    !.made[wsTelling.action] = [@ EXCEPT !.lis = {}, !.deleted = TRUE],
                                    !.bad = @ \/ Dangling(ws, Len(ws.list))]
  BY DEF EndWsMessage
<1>2. /\ ws \in WsEngine /\ EngineOK(ws) /\ ws.made \in Seq(WsAction) /\ ws.list \in Seq(Nat)
      /\ Len(ws.made) \in Nat /\ DOMAIN ws.made = 1..Len(ws.made)
  BY EngineFields DEF WsInv, TypeOKWs, EngineOK
<1>3. wsTelling \in [action : 0..Len(ws.made), todo : SUBSET WsListeners, done : SUBSET WsListeners,
                     told : WsListeners \union {NoWs}, more : BOOLEAN]
  BY DEF WsInv, TypeOKWs
<1>4. x \in 1..Len(ws.made) /\ a \in WsAction
  BY <1>1, <1>2, <1>3
<1>5. wsTelling' \in [action : {0}, todo : {{}}, done : {{}}, told : {NoWs}, more : BOOLEAN]
  BY <1>1, <1>3 DEF Quiet
<1>6. ASSUME NEW n \in Nat
      PROVE  wsTelling' \in [action : 0..n, todo : SUBSET WsListeners, done : SUBSET WsListeners,
                             told : WsListeners \union {NoWs}, more : BOOLEAN]
             /\ wsTelling'.action = 0
  BY <1>5
<1>7. CASE ~a.exit
  <2>1. ws' = ws
    BY <1>1, <1>7
  <2>2. ToldOrWorking(ws, 0)
    BY <1>7 DEF WsInv, ToldOrWorking
  <2> QED BY <1>1, <1>2, <1>6, <2>1, <2>2 DEF WsInv, TypeOKWs
<1>8. CASE a.exit
  <2> DEFINE ps == {k \in 1..Len(ws.list) : ~Leaves(ws.list[k])}
             list == Kept(ws.list, ps)
             made == [ws.made EXCEPT ![x] = [a EXCEPT !.lis = {}, !.deleted = TRUE]]
             bad == ws.bad \/ Dangling(ws, Len(ws.list))
  <2>1. ws' = [ws EXCEPT !.list = list, !.made = made, !.bad = bad]
    BY <1>1, <1>2, <1>4, <1>8 DEF WsEngine
  <2>2. bad \in BOOLEAN
    OBVIOUS
  <2>3. /\ list \in Seq(Nat) /\ Len(list) \in Nat
        /\ \A k \in 1..Len(list) : \E p \in ps : list[k] = ws.list[p]
        /\ \A p \in ps : \E k \in 1..Len(list) : list[k] = ws.list[p]
    <3> DEFINE ls == ws.list
    <3>1. ls \in Seq(Nat) /\ ps \in SUBSET (1..Len(ls))
      BY <1>2
    <3> HIDE DEF ps, ls
    <3>2. /\ Kept(ls, ps) \in Seq(Nat) /\ Len(Kept(ls, ps)) \in Nat
          /\ \A k \in 1..Len(Kept(ls, ps)) : \E p \in ps : Kept(ls, ps)[k] = ls[p]
          /\ \A p \in ps : \E k \in 1..Len(Kept(ls, ps)) : Kept(ls, ps)[k] = ls[p]
      BY <3>1, KeptOnly
    <3> QED BY <3>2 DEF ls
  <2>4. ASSUME NEW j \in 1..Len(ws.made)
        PROVE  /\ made[j] \in WsAction /\ made[j].type = ws.made[j].type /\ made[j].src = ws.made[j].src
               /\ made[j].exit = ws.made[j].exit
               /\ ~ws.made[j].exit => made[j].deleted = ws.made[j].deleted
               /\ made[j].lis = IF j = x THEN {} ELSE ws.made[j].lis
    <3>1. ws.made[j] \in WsAction
      BY <1>2
    <3>2. j # x => made[j] = ws.made[j]
      BY <1>2
    <3>3. j = x => made[j] = [a EXCEPT !.lis = {}, !.deleted = TRUE]
      BY <1>2, <1>4
    <3> HIDE DEF made
    <3>4. CASE j # x
      BY <1>4, <3>1, <3>2, <3>4
    <3>5. CASE j = x
      <4>1. a = ws.made[j] /\ a.exit
        BY <1>4, <1>8, <3>5
      <4>2. /\ made[j].type = a.type /\ made[j].src = a.src /\ made[j].exit = a.exit
            /\ made[j].lis = {} /\ made[j].deleted = TRUE
        BY <3>1, <3>3, <3>5, <4>1 DEF WsAction
      <4>3. made[j] \in WsAction
        BY <3>1, <3>3, <3>5, <4>1 DEF WsAction
      <4> QED BY <3>5, <4>1, <4>2, <4>3
    <3> QED BY <3>4, <3>5
  <2>5. made \in Seq(WsAction) /\ Len(made) = Len(ws.made)
    <3>1. \A j \in 1..Len(ws.made) : made[j] \in WsAction
      BY <2>4
    <3>2. made = [j \in 1..Len(ws.made) |-> made[j]]
      BY <1>2
    <3> HIDE DEF made
    <3> QED BY <1>2, <3>1, <3>2, SMTT(30)
  <2> HIDE DEF bad, list, made
  <2>6. ws' \in WsEngine /\ ws'.made = made /\ ws'.list = list /\ ws'.out = ws.out
    BY <1>2, <2>1, <2>2, <2>3, <2>5 DEF WsEngine
  <2>7. SameWork(ws, ws')
    BY <1>8, <2>4, <2>5, <2>6 DEF SameWork
  <2>8. /\ \A u, r : Working(ws', u, r) = Working(ws, u, r)
        /\ \A link : ReadersServe(ws, link) => ReadersServe(ws', link)
    BY <2>7, SameWorkServes
  <2>9. EngineOK(ws')
    <3>1. \A k \in 1..Len(list) : list[k] \in 1..Len(made)
      BY <1>2, <2>3, <2>5 DEF EngineOK
    <3>2. ASSUME NEW j \in 1..Len(made), ~made[j].exit
          PROVE  ~made[j].deleted /\ \E k \in 1..Len(list) : list[k] = j
      <4>1. j \in 1..Len(ws.made) /\ ~ws.made[j].exit /\ made[j].deleted = ws.made[j].deleted
        BY <2>4, <2>5, <3>2
      <4>2. ~ws.made[j].deleted
        BY <1>2, <4>1 DEF EngineOK
      <4>3. PICK p \in 1..Len(ws.list) : ws.list[p] = j
        BY <1>2, <4>1 DEF EngineOK
      <4>4. p \in ps
        BY <4>1, <4>3
      <4> QED BY <2>3, <4>1, <4>2, <4>3, <4>4
    <3> QED BY <1>2, <2>6, <2>8, <3>1, <3>2 DEF EngineOK
  <2>10. ToldOrWorking(ws', 0)
    <3>1. ASSUME NEW j \in 1..Len(ws.made), made[j].lis # {} PROVE ~made[j].exit
      <4>1. j # x /\ made[j].lis = ws.made[j].lis /\ made[j].exit = ws.made[j].exit
        BY <2>4, <3>1
      <4> QED BY <3>1, <4>1 DEF WsInv, ToldOrWorking
    <3> QED BY <2>5, <2>6, <3>1 DEF ToldOrWorking
  <2>11. ServerWill(ws', wsServer) /\ RequestsOut(ws', wsServer.inbox, wsIn)
    <3>1. ServerWill(ws', wsServer)
      BY <2>6, <2>8 DEF WsInv, ServerWill
    <3>2. RequestsOut(ws', wsServer.inbox, wsIn)
      BY <2>4, <2>5, <2>6 DEF WsInv, RequestsOut
    <3> QED BY <3>1, <3>2
  <2>12. Len(ws'.made) \in Nat
    BY <1>2, <2>5, <2>6
  <2> QED BY <1>1, <1>6, <2>8, <2>9, <2>10, <2>11, <2>12 DEF WsInv, TypeOKWs
<1> QED BY <1>7, <1>8

\* The engine starts without actions and without messages.
LEMMA NothingToServe ==
  ASSUME InitWs
  PROVE  WsInv
<1>1. ws = [made |-> <<>>, list |-> <<>>, out |-> <<>>, open |-> FALSE, bad |-> FALSE]
      /\ wsServer = [inbox |-> <<>>, subscribed |-> {}] /\ wsIn = <<>> /\ wsTelling = Quiet
  BY DEF InitWs
<1>2. Len(ws.made) = 0 /\ Len(ws.list) = 0 /\ wsServer.inbox \o ws.out = <<>>
  BY <1>1
<1>3. \A u, r : Working(ws, u, r) = {}
  BY <1>2 DEF Working
<1>4. EngineOK(ws)
  <2>1. ws \in WsEngine
    BY <1>1 DEF WsEngine
  <2> QED BY <1>2, <1>3, <2>1 DEF EngineOK
<1>5. TypeOKWs
  <2>1. wsLink \in [WsListeners -> WsSources \union {NoWs}]
    BY DEF InitWs
  <2>2. wsTelling \in [action : 0..Len(ws.made), todo : SUBSET WsListeners, done : SUBSET WsListeners,
                       told : WsListeners \union {NoWs}, more : BOOLEAN]
    BY <1>1, <1>2 DEF Quiet
  <2> QED BY <1>1, <1>4, <2>1, <2>2 DEF TypeOKWs
<1>6. ReadersServe(ws, wsLink)
  <2>1. \A l \in WsReaders : wsLink[l] = NoWs
    BY DEF InitWs, WsListeners
  <2>2. \A r \in WsSources : Linked(wsLink, r) = {}
    BY <2>1, WsAssumption DEF Linked
  <2> QED BY <1>3, <2>2 DEF ReadersServe, Serves
<1>7. ServerWill(ws, wsServer)
  <2>1. \A r : Changes(<<>>, r) = {}
    BY DEF Changes
  <2> QED BY <1>1, <1>2, <1>3, <2>1 DEF ServerWill, Will
<1>8. ToldOrWorking(ws, wsTelling.action) /\ RequestsOut(ws, wsServer.inbox, wsIn)
  BY <1>2 DEF ToldOrWorking, RequestsOut
<1> QED BY <1>5, <1>6, <1>7, <1>8 DEF WsInv

\* Until it has met a deleted reader the engine keeps the invariant.
ServesOrBad == ws.bad \/ WsInv

\* Every step keeps the invariant or meets what is undefined, when a source is
\* not left while a stopped reader of it is in the list, and one-shot actions
\* start with `exit' unset.
LEMMA StepServes ==
  ASSUME ServesOrBad, ~LeaveAgain, [NextWs]_wsVars
  PROVE  ServesOrBad'
<1>1. CASE UNCHANGED wsVars
  BY <1>1 DEF wsVars, ServesOrBad, WsInv, TypeOKWs
<1>2. CASE NextWs
  <2>1. WsInv
    BY <1>2 DEF NextWs, ServesOrBad
  <2>2. CASE OnConnected
    BY <2>1, <2>2, ConnectedServes DEF ServesOrBad
  <2>3. CASE Transmit
    BY <2>1, <2>3, TransmitServes DEF ServesOrBad
  <2>4. CASE Serve
    BY <2>1, <2>4, ServeServes DEF ServesOrBad
  <2>5. CASE DeleteStopped
    BY <2>1, <2>5, DeleteServes DEF ServesOrBad
  <2>6. CASE DeliverMsg
    BY <2>1, <2>6, DeliverServes DEF ServesOrBad
  <2>7. CASE TellWsListener
    BY <2>1, <2>7, TellServes DEF ServesOrBad
  <2>8. CASE EndWsMessage
    BY <2>1, <2>8, EndServes DEF ServesOrBad
  <2>9. CASE \E s \in WsSources : PublishWs(s)
    BY <2>1, <2>9, PublishServes DEF ServesOrBad
  <2>10. ASSUME NEW l \in WsReaders, WsUnsetSource(l) \/ \E s \in WsSources : WsSetSource(l, s)
         PROVE  ServesOrBad'
    BY <2>1, <2>10, UnsetSourceServes, SetSourceServes DEF ServesOrBad
  <2>11. ASSUME NEW l \in WsWriters,
                WsClearTarget(l) \/ WsExecuteTarget(l) \/ \E s \in WsSources : WsSetTarget(l, s)
         PROVE  ServesOrBad'
    BY <2>1, <2>11, ClearTargetServes, ExecuteServes, SetTargetServes DEF ServesOrBad
  <2> QED BY <1>2, <2>2, <2>3, <2>4, <2>5, <2>6, <2>7, <2>8, <2>9, <2>10, <2>11 DEF NextWs
<1> QED BY <1>1, <1>2

\* The invariant says what WsServes asks.
LEMMA InvServes ==
  ASSUME ServesOrBad
  PROVE  WsServes
<1> SUFFICES ASSUME ~ws.bad PROVE WsServes
  BY DEF WsServes
<1>1. WsInv /\ EngineOK(ws) /\ Len(ws.made) \in Nat /\ ws.made \in Seq(WsAction)
  BY EngineFields DEF ServesOrBad, WsInv, TypeOKWs, EngineOK
<1>2. ASSUME NEW s \in WsSources
      PROVE  LET readers == {ws.list[k] : k \in Active(ws, "reader", s)}
             IN  /\ Cardinality(readers) <= 1
                 /\ WillBeSubscribed(s) <=> readers # {}
                 /\ \A i \in readers : ws.made[i].lis = {l \in WsReaders : wsLink[l] = s}
                 /\ readers = {} => \A l \in WsReaders : wsLink[l] # s
  <2> DEFINE readers == {ws.list[k] : k \in Active(ws, "reader", s)}
  <2>1. readers = Working(ws, "reader", s)
    BY <1>1, FoundWorking
  <2> HIDE DEF readers
  <2>2. \A i, j \in readers : i = j
    BY <1>1, <2>1 DEF EngineOK, WsTypes
  <2>3. Cardinality(readers) <= 1
    <3>1. CASE readers = {}
      BY <3>1, FS_EmptySet
    <3>2. CASE readers # {}
      <4>1. PICK i \in readers : TRUE
        BY <3>2
      <4>2. readers = {i}
        BY <2>2, <4>1
      <4> QED BY <4>2, FS_Singleton
    <3> QED BY <3>1, <3>2
  <2>4. Serves(ws, wsLink, s)
    BY <1>1 DEF WsInv, ReadersServe
  <2>5. Linked(wsLink, s) = {l \in WsReaders : wsLink[l] = s}
    BY DEF Linked
  <2>6. WillBeSubscribed(s) <=> Will(wsServer.inbox \o ws.out, wsServer.subscribed, s)
    <3> DEFINE ms == wsServer.inbox \o ws.out
               ks == {k \in 1..Len(ms) : ms[k].src = s /\ ms[k].op \in {"subscribe", "unsubscribe"}}
    <3>1. WillBeSubscribed(s) <=> IF ks = {} THEN s \in wsServer.subscribed ELSE ms[Max(ks)].op = "subscribe"
      BY DEF WillBeSubscribed
    <3>2. Changes(ms, s) = ks
      BY DEF Changes, Subscribes
    <3> HIDE DEF ks
    <3>3. Will(ms, wsServer.subscribed, s) <=>
            (ks = {} /\ s \in wsServer.subscribed) \/ (ks # {} /\ ms[Max(ks)].op = "subscribe")
      BY <3>2 DEF Will
    <3> QED BY <3>1, <3>3
  <2>7. Will(wsServer.inbox \o ws.out, wsServer.subscribed, s) <=> Working(ws, "reader", s) # {}
    BY <1>1 DEF WsInv, ServerWill
  <2>8. \A i \in readers : ws.made[i].lis = {l \in WsReaders : wsLink[l] = s}
    BY <2>1, <2>4, <2>5 DEF Serves
  <2>9. readers = {} => \A l \in WsReaders : wsLink[l] # s
    BY <2>1, <2>4, <2>5 DEF Serves
  <2> QED BY <2>1, <2>3, <2>6, <2>7, <2>8, <2>9 DEF readers
<1>3. ASSUME NEW i \in DOMAIN ws.made
      PROVE  LET a == ws.made[i]
             IN  /\ a.type # "reader" /\ ~a.exit => InFlight(Msg(a.type, a.src))
                 /\ a.lis # {} => ~a.exit \/ wsTelling.action = i
  <2>1. i \in 1..Len(ws.made)
    BY <1>1
  <2>2. ws.made[i].lis # {} => ~ws.made[i].exit \/ wsTelling.action = i
    BY <1>1, <2>1 DEF WsInv, ToldOrWorking
  <2>3. \A m : m \in ToSet(ws.out) \union ToSet(wsServer.inbox) \union ToSet(wsIn) => InFlight(m)
    <3>1. /\ ws.out \in Seq(WsMessage) /\ wsServer.inbox \in Seq(WsMessage) /\ wsIn \in Seq(WsMessage)
      BY <1>1, EngineFields DEF WsInv, TypeOKWs, EngineOK
    <3>2. \A q \in Seq(WsMessage) : \A m \in ToSet(q) : Contains(q, m)
      BY DEF ToSet, Contains
    <3> QED BY <3>1, <3>2 DEF InFlight
  <2> QED BY <1>1, <2>1, <2>2, <2>3 DEF WsInv, RequestsOut
<1> QED BY <1>2, <1>3 DEF WsServes

\* Until it meets a deleted reader the engine serves whoever asks and keeps the
\* server subscribed to what is read, however sources are left and set again
\* (cuwsactionfactoryservice.cpp:34-38), when no listener leaves a source again
\* before its stopped reader is deleted.
THEOREM WsAlwaysServes ==
  ASSUME ~LeaveAgain
  PROVE  SpecWs => []WsServes
<1>1. InitWs => ServesOrBad
  BY NothingToServe DEF ServesOrBad
<1>2. ServesOrBad /\ [NextWs]_wsVars => ServesOrBad'
  BY StepServes
<1>3. ServesOrBad => WsServes
  BY InvServes
<1> QED BY <1>1, <1>2, <1>3, PTL DEF SpecWs

-----------------------------------------------------------------------------
(* The trend plot: points of a curve                                       *)

PlotYs == PlotValues \union {DefaultY, PlotGarbage}
PlotPoint == [x : Int, y : PlotYs, n : Nat]

\* What was merged is after earlier instants only, and live values are in the
\* order they came.
Before(p, q) == IF q.n = 0 THEN p.x < q.x ELSE p.n < q.n
InOrder(pts) == \A i, j \in 1..Len(pts) : i < j => Before(pts[i], pts[j])

\* What tells the points of a curve.
IdOf(p) == <<p.x, p.n>>
Ids(pts) == {IdOf(pts[k]) : k \in 1..Len(pts)}
Ascending(xs) == \A i, j \in 1..Len(xs) : i < j => xs[i] < xs[j]

\* A point has an instant.
LEMMA PointTyped ==
  ASSUME NEW e \in PlotPoint
  PROVE  e.x \in Int /\ e.y \in PlotYs /\ e.n \in Nat
BY DEF PlotPoint

LEMMA LivePointTyped ==
  ASSUME NEW x \in Int, NEW y \in PlotYs, NEW n \in Nat
  PROVE  LivePoint(x, y, n) \in PlotPoint
BY DEF LivePoint, PlotPoint

LEMMA MergedPoint ==
  ASSUME NEW x \in Int, NEW y \in PlotYs
  PROVE  /\ Point(x, y) \in PlotPoint
         /\ Point(x, y).x = x /\ Point(x, y).y = y /\ Point(x, y).n = 0
BY DEF Point, LivePoint, PlotPoint

\* The instants of a curve and what tells its points.
LEMMA IdsOfPoints ==
  ASSUME NEW pts
  PROVE  /\ \A i \in Ids(pts) : \E k \in 1..Len(pts) : i = <<pts[k].x, pts[k].n>>
         /\ \A k \in 1..Len(pts) : <<pts[k].x, pts[k].n>> \in Ids(pts)
         /\ Instants(pts) = {i[1] : i \in Ids(pts)}
<1>1. \A k \in 1..Len(pts) : <<pts[k].x, pts[k].n>>[1] = pts[k].x
  OBVIOUS
<1>2. Ids(pts) = {<<pts[k].x, pts[k].n>> : k \in 1..Len(pts)}
  BY DEF Ids, IdOf
<1>3. {i[1] : i \in Ids(pts)} \subseteq Instants(pts)
  BY <1>1, <1>2 DEF Instants
<1>4. Instants(pts) \subseteq {i[1] : i \in Ids(pts)}
  BY <1>1, <1>2 DEF Instants
<1> QED BY <1>2, <1>3, <1>4

\* q is s and then t; q is p with e at a place.
JoinOf(T, q, s, t) ==
  /\ q \in Seq(T) /\ Len(q) = Len(s) + Len(t)
  /\ \A k \in 1..Len(s) : q[k] = s[k]
  /\ \A k \in 1..Len(t) : q[Len(s) + k] = t[k]
InsertionOf(T, q, p, at, e) ==
  /\ q \in Seq(T) /\ Len(q) = Len(p) + 1
  /\ \A k \in 1..Len(q) : q[k] = IF k < at THEN p[k] ELSE IF k = at THEN e ELSE p[k - 1]

\* Two sequences in one.
LEMMA Concatenated ==
  ASSUME NEW T, NEW s \in Seq(T), NEW t \in Seq(T)
  PROVE  JoinOf(T, s \o t, s, t)
<1>1. Len(s) \in Nat /\ Len(t) \in Nat
  OBVIOUS
<1>2. /\ s \o t \in Seq(T) /\ Len(s \o t) = Len(s) + Len(t)
      /\ \A k \in 1..Len(s) : (s \o t)[k] = s[k]
  BY ConcatProperties
<1>3. ASSUME NEW k \in 1..Len(t) PROVE (s \o t)[Len(s) + k] = t[k]
  <2>1. Len(s) + k \in 1..(Len(s) + Len(t)) /\ ~(Len(s) + k <= Len(s)) /\ (Len(s) + k) - Len(s) = k
    BY <1>1
  <2>2. (s \o t)[Len(s) + k] = IF Len(s) + k <= Len(s) THEN s[Len(s) + k] ELSE t[(Len(s) + k) - Len(s)]
    BY <2>1, ConcatProperties
  <2> QED BY <2>1, <2>2
<1> QED BY <1>2, <1>3 DEF JoinOf

\* q is the part of p from a place to another.
SubSeqOf(T, q, p, m, n) ==
  /\ q \in Seq(T) /\ Len(q) = n - m + 1
  /\ \A k \in 1..Len(q) : q[k] = p[m + k - 1]

\* A part of a sequence.
LEMMA CutOut ==
  ASSUME NEW T, NEW p \in Seq(T), NEW m \in 1..(Len(p) + 1), NEW n \in (m - 1)..Len(p)
  PROVE  SubSeqOf(T, SubSeq(p, m, n), p, m, n)
<1> DEFINE q == SubSeq(p, m, n)
<1>1. Len(p) \in Nat
  OBVIOUS
<1>2. q \in Seq(T) /\ Len(q) = n - m + 1 /\ \A k \in 1..(n - m + 1) : q[k] = p[m + k - 1]
  BY <1>1, SubSeqProperties, SMTT(30)
<1> HIDE DEF q
<1>3. SubSeqOf(T, q, p, m, n)
  BY <1>2 DEF SubSeqOf
<1> QED BY <1>3 DEF q

\* There is a value to show at each index.
LEMMA YvalTyped ==
  ASSUME NEW pts \in Seq(PlotPoint), NEW given \in Seq(PlotValues), NEW idx \in Nat
  PROVE  GetYVal(given, idx, pts) \in PlotYs
<1> DEFINE i == IF idx - 1 > Len(pts) THEN Len(pts) ELSE idx - 1
<1>1. i \in Int /\ Len(pts) \in Nat /\ Len(given) \in Nat
  OBVIOUS
<1>2. CASE idx < Len(given)
  <2>1. GetYVal(given, idx, pts) = given[idx + 1]
    BY <1>2 DEF GetYVal
  <2>2. idx + 1 \in 1..Len(given)
    BY <1>1, <1>2
  <2>3. given[idx + 1] \in PlotValues
    BY <2>2
  <2> QED BY <2>1, <2>3 DEF PlotYs
<1>3. CASE ~(idx < Len(given)) /\ i < 0
  BY <1>3 DEF GetYVal, PlotYs
<1>4. CASE ~(idx < Len(given)) /\ ~(i < 0) /\ i < Len(pts)
  <2>1. GetYVal(given, idx, pts) = pts[i + 1].y
    BY <1>4 DEF GetYVal
  <2> HIDE DEF i
  <2>2. i + 1 \in 1..Len(pts)
    BY <1>1, <1>4
  <2>3. pts[i + 1] \in PlotPoint
    BY <2>2
  <2> QED BY <2>1, <2>3 DEF PlotPoint
<1>5. CASE ~(idx < Len(given)) /\ ~(i < 0) /\ ~(i < Len(pts))
  BY <1>5 DEF GetYVal, PlotYs
<1> QED BY <1>2, <1>3, <1>4, <1>5

\* An element is inserted at a place: those from there on move by one.
LEMMA InsertedAt ==
  ASSUME NEW T, NEW p \in Seq(T), NEW at \in 1..Len(p), NEW e \in T
  PROVE  InsertionOf(T, InsertAt(p, at, e), p, at, e)
<1> DEFINE before == SubSeq(p, 1, at - 1)
           upto == before \o <<e>>
           after == SubSeq(p, at, Len(p))
<1>1. Len(p) \in Nat /\ at \in Nat
  OBVIOUS
<1>2. before \in Seq(T) /\ Len(before) = at - 1 /\ \A k \in 1..(at - 1) : before[k] = p[k]
  <2>1. 1 \in 1..(Len(p) + 1) /\ at - 1 \in 0..Len(p)
    BY <1>1
  <2> QED BY <1>1, <2>1, SubSeqProperties, SMTT(30)
<1>3. /\ after \in Seq(T) /\ Len(after) = Len(p) - at + 1
      /\ \A k \in 1..(Len(p) - at + 1) : after[k] = p[at + k - 1]
  <2>1. at \in 1..(Len(p) + 1) /\ Len(p) \in 0..Len(p)
    BY <1>1
  <2> QED BY <1>1, <2>1, SubSeqProperties, SMTT(30)
<1> HIDE DEF before, after
<1>4. <<e>> \in Seq(T) /\ Len(<<e>>) = 1 /\ <<e>>[1] = e
  OBVIOUS
<1>5. /\ upto \in Seq(T) /\ Len(upto) = at
      /\ \A k \in 1..(at - 1) : upto[k] = p[k]
      /\ upto[at] = e
  <2>1. /\ upto \in Seq(T) /\ Len(upto) = Len(before) + 1
        /\ \A k \in 1..Len(before) : upto[k] = before[k]
        /\ upto[Len(before) + 1] = <<e>>[1]
    BY <1>2, <1>4, ConcatProperties
  <2> QED BY <1>1, <1>2, <1>4, <2>1
<1> HIDE DEF upto
<1>6. InsertAt(p, at, e) = upto \o after
  BY Zenon DEF InsertAt, upto, before, after
<1>7. /\ upto \o after \in Seq(T) /\ Len(upto \o after) = Len(p) + 1
      /\ \A k \in 1..at : (upto \o after)[k] = upto[k]
      /\ \A k \in 1..(Len(p) - at + 1) : (upto \o after)[at + k] = after[k]
  <2>1. /\ upto \o after \in Seq(T) /\ Len(upto \o after) = Len(upto) + Len(after)
        /\ \A k \in 1..Len(upto) : (upto \o after)[k] = upto[k]
        /\ \A k \in 1..Len(after) : (upto \o after)[Len(upto) + k] = after[k]
    <3>1. JoinOf(T, upto \o after, upto, after)
      BY <1>3, <1>5, Concatenated
    <3> QED BY <3>1 DEF JoinOf
  <2> QED BY <1>1, <1>3, <1>5, <2>1, SMTT(30)
<1>8. ASSUME NEW k \in 1..(Len(p) + 1)
      PROVE  (upto \o after)[k] = IF k < at THEN p[k] ELSE IF k = at THEN e ELSE p[k - 1]
  <2>1. CASE k < at
    <3>1. k \in 1..at /\ k \in 1..(at - 1)
      BY <1>1, <2>1
    <3> QED BY <1>5, <1>7, <2>1, <3>1
  <2>2. CASE k = at
    <3>1. at \in 1..at
      BY <1>1
    <3> QED BY <1>5, <1>7, <2>2, <3>1
  <2>3. CASE k > at
    <3>1. k - at \in 1..(Len(p) - at + 1) /\ at + (k - at) = k /\ at + (k - at) - 1 = k - 1
      BY <1>1, <2>3
    <3>2. (upto \o after)[at + (k - at)] = after[k - at] /\ after[k - at] = p[at + (k - at) - 1]
      BY <1>3, <1>7, <3>1
    <3>3. (upto \o after)[k] = p[k - 1]
      BY <3>1, <3>2, Zenon
    <3>4. ~(k < at) /\ k # at
      BY <1>1, <2>3
    <3> QED BY <3>3, <3>4
  <2>4. k < at \/ k = at \/ k > at
    BY <1>1
  <2> QED BY <2>1, <2>2, <2>3, <2>4, Zenon
<1> QED BY <1>6, <1>7, <1>8 DEF InsertionOf

\* The first point of a curve that is not before an instant.
PlaceFor(p, x) == CHOOSE k \in 1..Len(p) : x <= p[k].x /\ \A h \in 1..(k - 1) : p[h].x < x
LEMMA PlaceFound ==
  ASSUME NEW p \in Seq(PlotPoint), NEW x \in Int, \E k \in 1..Len(p) : x <= p[k].x
  PROVE  /\ PlaceFor(p, x) \in 1..Len(p) /\ x <= p[PlaceFor(p, x)].x
         /\ \A h \in 1..(PlaceFor(p, x) - 1) : p[h].x < x
<1> DEFINE ps == {k \in 1..Len(p) : x <= p[k].x}
<1>1. Len(p) \in Nat /\ \A k \in 1..Len(p) : p[k].x \in Int
  BY PointTyped
<1>2. PICK at \in ps : \A k \in ps : at <= k
  <2>1. ps \in SUBSET (1..Len(p)) /\ ps # {}
    OBVIOUS
  <2> HIDE DEF ps
  <2> QED BY <1>1, <2>1, LeastPlace
<1>3. at \in 1..Len(p) /\ x <= p[at].x
  OBVIOUS
<1>4. ASSUME NEW h \in 1..(at - 1) PROVE p[h].x < x
  <2>1. h \in 1..Len(p) /\ ~(at <= h)
    BY <1>1, <1>3
  <2>2. ~(x <= p[h].x)
    BY <1>2, <2>1
  <2> QED BY <1>1, <2>1, <2>2
<1>5. \E k \in 1..Len(p) : x <= p[k].x /\ \A h \in 1..(k - 1) : p[h].x < x
  BY <1>3, <1>4
<1> QED BY <1>5, Zenon DEF PlaceFor

\* e is one point more, of instant x.
OneMorePoint(q, p, e, x) ==
  /\ q \in Seq(PlotPoint) /\ InOrder(q) /\ Len(q) = Len(p) + 1
  /\ \A k \in 1..Len(q) : q[k] = e \/ \E i \in 1..Len(p) : q[k] = p[i]
  /\ Ids(q) = Ids(p) \union {<<x, 0>>}

\* A new instant among those of a curve.
LEMMA PlacedNew ==
  ASSUME NEW p \in Seq(PlotPoint), InOrder(p), NEW xs \in Seq(Int), NEW j \in 1..Len(xs),
         xs[j] \notin Instants(p), \E k \in 1..Len(p) : xs[j] <= p[k].x,
         NEW given \in Seq(PlotValues),
         NEW q, q = Placed(p, xs, given, j), NEW e, e = Point(xs[j], GetYVal(given, j - 1, p))
  PROVE  OneMorePoint(q, p, e, xs[j])
<1> DEFINE at == PlaceFor(p, xs[j])
<1>1. xs[j] \in Int /\ Len(p) \in Nat /\ j \in Nat /\ j - 1 \in Nat
  OBVIOUS
<1>2. at \in 1..Len(p) /\ xs[j] <= p[at].x /\ \A h \in 1..(at - 1) : p[h].x < xs[j]
  BY <1>1, PlaceFound
<1>3. e \in PlotPoint /\ e.x = xs[j] /\ e.n = 0
  <2>1. GetYVal(given, j - 1, p) \in PlotYs
    BY <1>1, YvalTyped
  <2> QED BY <1>1, <2>1, MergedPoint
<1>4. q = InsertAt(p, at, e)
  <2>1. p[at].x # xs[j]
    BY <1>2 DEF Instants
  <2>2. q = IF p[at].x = xs[j]
            THEN [p EXCEPT ![at].y = GetYVal(given, at - 1, p)]
            ELSE InsertAt(p, at, Point(xs[j], GetYVal(given, j - 1, p)))
    BY Zenon DEF Placed, PlaceFor
  <2> QED BY <2>1, <2>2, Zenon
<1> HIDE DEF at
<1>5. /\ q \in Seq(PlotPoint) /\ Len(q) = Len(p) + 1
      /\ \A k \in 1..Len(q) :
           q[k] = IF k < at THEN p[k] ELSE IF k = at THEN e ELSE p[k - 1]
  <2>1. InsertionOf(PlotPoint, q, p, at, e)
    BY <1>2, <1>3, <1>4, InsertedAt
  <2> QED BY <2>1 DEF InsertionOf
<1>6. \A k \in 1..Len(p) : p[k].x \in Int /\ p[k].n \in Nat
  BY PointTyped
<1>7. ASSUME NEW k \in at..Len(p) PROVE Before(e, p[k])
  <2>1. k \in 1..Len(p) /\ (k = at \/ at < k)
    BY <1>1, <1>2
  <2>2. xs[j] # p[k].x
    BY <2>1 DEF Instants
  <2>3. p[at].x \in Int /\ p[k].x \in Int /\ p[k].n \in Nat
    BY <1>2, <1>6, <2>1
  <2>4. CASE p[k].n = 0
    <3>1. ASSUME at < k PROVE p[at].x < p[k].x
      <4>1. Before(p[at], p[k])
        BY <1>2, <2>1, <3>1 DEF InOrder
      <4> QED BY <2>4, <4>1 DEF Before
    <3> QED BY <1>1, <1>2, <1>3, <2>1, <2>2, <2>3, <2>4, <3>1 DEF Before
  <2>5. CASE p[k].n # 0
    <3>1. 0 < p[k].n
      BY <2>3, <2>5
    <3> QED BY <1>3, <2>5, <3>1 DEF Before
  <2> QED BY <2>4, <2>5
<1>8. InOrder(q)
  <2> SUFFICES ASSUME NEW i \in 1..Len(q), NEW k \in 1..Len(q), i < k PROVE Before(q[i], q[k])
    BY DEF InOrder
  <2>1. /\ q[i] = IF i < at THEN p[i] ELSE IF i = at THEN e ELSE p[i - 1]
        /\ q[k] = IF k < at THEN p[k] ELSE IF k = at THEN e ELSE p[k - 1]
        /\ Len(q) = Len(p) + 1 /\ at \in 1..Len(p)
    BY <1>2, <1>5
  <2>2. CASE i < at /\ k < at
    <3>1. i \in 1..Len(p) /\ k \in 1..Len(p) /\ q[i] = p[i] /\ q[k] = p[k]
      BY <1>1, <2>1, <2>2, SMTT(30)
    <3> QED BY <3>1 DEF InOrder
  <2>3. CASE i < at /\ k = at
    <3>1. i \in 1..(at - 1) /\ q[i] = p[i] /\ q[k] = e
      BY <1>1, <2>1, <2>3
    <3> QED BY <1>2, <1>3, <3>1 DEF Before
  <2>4. CASE i < at /\ k > at
    <3>1. i \in 1..Len(p) /\ k - 1 \in 1..Len(p) /\ i < k - 1 /\ q[i] = p[i] /\ q[k] = p[k - 1]
      BY <1>1, <2>1, <2>4, SMTT(30)
    <3> QED BY <3>1 DEF InOrder
  <2>5. CASE i = at
    <3>1. k - 1 \in at..Len(p) /\ q[i] = e /\ q[k] = p[k - 1]
      BY <1>1, <2>1, <2>5
    <3> QED BY <1>7, <3>1
  <2>6. CASE i > at
    <3>1. i - 1 \in 1..Len(p) /\ k - 1 \in 1..Len(p) /\ i - 1 < k - 1 /\ q[i] = p[i - 1] /\ q[k] = p[k - 1]
      BY <1>1, <2>1, <2>6, SMTT(30)
    <3> QED BY <3>1 DEF InOrder
  <2>7. i \in Int /\ k \in Int /\ at \in Int
    BY <2>1
  <2> QED BY <2>2, <2>3, <2>4, <2>5, <2>6, <2>7
<1>9. ASSUME NEW k \in 1..Len(q) PROVE q[k] = e \/ \E i \in 1..Len(p) : q[k] = p[i]
  <2>1. /\ q[k] = IF k < at THEN p[k] ELSE IF k = at THEN e ELSE p[k - 1]
        /\ Len(q) = Len(p) + 1 /\ at \in 1..Len(p)
    BY <1>2, <1>5
  <2>2. CASE k < at
    BY <1>1, <2>1, <2>2
  <2>3. CASE k = at
    BY <2>1, <2>3
  <2>4. CASE k > at
    <3>1. k - 1 \in 1..Len(p) /\ q[k] = p[k - 1]
      BY <1>1, <2>1, <2>4
    <3> QED BY <3>1
  <2> QED BY <2>1, <2>2, <2>3, <2>4
<1>10. ASSUME NEW i \in 1..Len(p) PROVE \E k \in 1..Len(q) : q[k] = p[i]
  <2>1. at \in 1..Len(p) /\ Len(q) = Len(p) + 1
    BY <1>2, <1>5
  <2>2. CASE i < at
    <3>1. i \in 1..Len(q) /\ q[i] = p[i]
      BY <1>1, <1>5, <2>1, <2>2
    <3> QED BY <3>1
  <2>3. CASE ~(i < at)
    <3>1. i + 1 \in 1..Len(q) /\ ~(i + 1 < at) /\ i + 1 # at /\ (i + 1) - 1 = i
      BY <1>1, <2>1, <2>3
    <3>2. q[i + 1] = p[(i + 1) - 1]
      BY <1>5, <3>1
    <3> QED BY <3>1, <3>2
  <2> QED BY <2>2, <2>3
<1>11. at \in 1..Len(q) /\ q[at] = e
  BY <1>1, <1>2, <1>5
<1>12. Ids(q) = Ids(p) \union {<<xs[j], 0>>}
  <2>1. IdOf(e) = <<xs[j], 0>>
    BY <1>3 DEF IdOf
  <2>2. ASSUME NEW k \in 1..Len(q) PROVE IdOf(q[k]) \in Ids(p) \union {IdOf(e)}
    BY <1>9 DEF Ids
  <2>3. ASSUME NEW i \in 1..Len(p) PROVE IdOf(p[i]) \in Ids(q)
    BY <1>10 DEF Ids
  <2>4. IdOf(e) \in Ids(q)
    BY <1>11 DEF Ids
  <2>5. Ids(q) \subseteq Ids(p) \union {IdOf(e)}
    BY <2>2 DEF Ids
  <2>6. Ids(p) \subseteq Ids(q)
    BY <2>3 DEF Ids
  <2> QED BY <2>1, <2>4, <2>5, <2>6
<1> QED BY <1>5, <1>8, <1>9, <1>12 DEF OneMorePoint

-----------------------------------------------------------------------------
(* The trend plot: new instants are merged with those of a curve           *)

\* The curve after each of the first m instants of xs.
PlacesAlong(f, pts, xs, given, m) ==
  f = [j \in 0..m |-> IF j = 0 THEN pts ELSE Placed(f[j - 1], xs, given, j)]

\* The instants can be placed one by one.
LEMMA PlacingExists ==
  ASSUME NEW pts, NEW xs, NEW given, NEW m \in Nat
  PROVE  \E f : PlacesAlong(f, pts, xs, given, m)
<1> DEFINE bad == {n \in Nat : ~\E f : PlacesAlong(f, pts, xs, given, n)}
<1>1. ASSUME bad # {} PROVE FALSE
  <2>1. PICK n \in bad : \A i \in bad : n <= i
    <3>1. bad \in SUBSET Nat
      OBVIOUS
    <3> HIDE DEF bad
    <3> QED BY <1>1, <3>1, LeastNatural
  <2>2. n \in Nat /\ ~\E f : PlacesAlong(f, pts, xs, given, n)
    BY <2>1
  <2>3. n # 0
    <3> DEFINE f0 == [i \in 0..0 |-> pts]
    <3>1. f0 = [i \in 0..0 |-> IF i = 0 THEN pts ELSE Placed(f0[i - 1], xs, given, i)]
      OBVIOUS
    <3>2. PlacesAlong(f0, pts, xs, given, 0)
      BY <3>1, Zenon DEF PlacesAlong
    <3> QED BY <2>2, <3>2
  <2>4. n - 1 \in Nat /\ n - 1 \notin bad
    <3> HIDE DEF bad
    <3> QED BY <2>1, <2>2, <2>3
  <2>5. PICK f : PlacesAlong(f, pts, xs, given, n - 1)
    BY <2>4
  <2> DEFINE g == [i \in 0..n |-> IF i = n THEN Placed(f[n - 1], xs, given, n) ELSE f[i]]
  <2>6. ASSUME NEW i \in 0..n
        PROVE  g[i] = IF i = 0 THEN pts ELSE Placed(g[i - 1], xs, given, i)
    <3>1. CASE i = n
      <4>1. g[i - 1] = f[n - 1]
        BY <2>2, <2>3, <3>1
      <4> QED BY <2>3, <3>1, <4>1
    <3>2. CASE i # n
      <4>1. i \in 0..(n - 1) /\ g[i] = f[i] /\ (i # 0 => g[i - 1] = f[i - 1])
        BY <2>2, <3>2
      <4>2. f[i] = IF i = 0 THEN pts ELSE Placed(f[i - 1], xs, given, i)
        BY <2>5, <4>1, Zenon DEF PlacesAlong
      <4> QED BY <4>1, <4>2
    <3> QED BY <3>1, <3>2
  <2>7. PlacesAlong(g, pts, xs, given, n)
    <3>1. g = [i \in 0..n |-> g[i]]
      OBVIOUS
    <3> HIDE DEF g
    <3>2. g = [i \in 0..n |-> IF i = 0 THEN pts ELSE Placed(g[i - 1], xs, given, i)]
      BY <2>6, <3>1
    <3> QED BY <3>2, Zenon DEF PlacesAlong
  <2> QED BY <2>2, <2>7
<1> QED BY <1>1

\* The places of the instants that are not beyond the end of the curve, and the
\* points of those that are.
Amongst(pts, xs) == {j \in 1..Len(xs) : \E k \in 1..Len(pts) : xs[j] <= pts[k].x}
Beyond(p, xs, given, m) ==
  [j \in 1..(Len(xs) - m) |-> Point(xs[m + j], GetYVal(given, m + j - 1, p))]

MergedAlong(f, pts, xs, given, m) ==
  /\ PlacesAlong(f, pts, xs, given, m)
  /\ Merged(pts, xs, given) = f[m] \o Beyond(f[m], xs, given, m)

\* The first instants are placed, the others appended.
LEMMA MergedIs ==
  ASSUME NEW pts, NEW xs, NEW given, NEW m \in Nat, m = Cardinality(Amongst(pts, xs))
  PROVE  \E f : MergedAlong(f, pts, xs, given, m)
<1> DEFINE c == Cardinality(Amongst(pts, xs))
           F(f) == f = [j \in 0..c |-> IF j = 0 THEN pts ELSE Placed(f[j - 1], xs, given, j)]
           h == CHOOSE f : F(f)
<1>1. Merged(pts, xs, given) = h[c] \o Beyond(h[c], xs, given, c)
  BY Zenon DEF Merged, Amongst, Beyond
<1>2. \E f : F(f)
  <2>1. PICK f : PlacesAlong(f, pts, xs, given, m)
    BY PlacingExists
  <2>2. F(f)
    BY <2>1, Zenon DEF PlacesAlong
  <2> QED BY <2>2, Zenon
<1>3. F(h)
  BY <1>2, Zenon
<1> HIDE DEF h
<1>4. PlacesAlong(h, pts, xs, given, c)
  BY <1>3, Zenon DEF PlacesAlong
<1>5. MergedAlong(h, pts, xs, given, m)
  BY <1>1, <1>4, Zenon DEF MergedAlong
<1> QED BY <1>5, Zenon

\* The instants that are placed come first.
LEMMA AmongstFirst ==
  ASSUME NEW pts \in Seq(PlotPoint), NEW xs \in Seq(Int), Ascending(xs),
         NEW m, m = Cardinality(Amongst(pts, xs))
  PROVE  m \in 0..Len(xs) /\ \A j \in 1..Len(xs) : j <= m <=> j \in Amongst(pts, xs)
<1> DEFINE S == Amongst(pts, xs)
           out == {j \in 1..(Len(xs) + 1) : j \notin S}
<1>1. Len(xs) \in Nat /\ S \in SUBSET (1..Len(xs))
  BY DEF Amongst
<1>2. ASSUME NEW i \in 1..Len(xs), NEW j \in S, i < j PROVE i \in S
  <2>1. PICK k \in 1..Len(pts) : xs[j] <= pts[k].x
    BY <1>2 DEF Amongst
  <2>2. j \in 1..Len(xs) /\ xs[i] \in Int /\ xs[j] \in Int /\ pts[k].x \in Int
    BY <1>1, PointTyped
  <2>3. xs[i] < xs[j]
    BY <1>2, <2>2 DEF Ascending
  <2>4. xs[i] <= pts[k].x
    BY <2>1, <2>2, <2>3
  <2> QED BY <2>4 DEF Amongst
<1>3. PICK b \in out : \A i \in out : b <= i
  <2>1. Len(xs) + 1 \in out
    <3>1. Len(xs) + 1 \in 1..(Len(xs) + 1) /\ Len(xs) + 1 \notin 1..Len(xs)
      BY <1>1
    <3> HIDE DEF S
    <3> QED BY <1>1, <3>1
  <2>2. out \in SUBSET Nat
    BY <1>1
  <2> HIDE DEF out
  <2> QED BY <2>1, <2>2, LeastNatural
<1>4. b \in 1..(Len(xs) + 1) /\ b \notin S
  BY <1>3
<1> HIDE DEF S
<1>5. \A i \in 1..(Len(xs) + 1) : i < b => i \in S
  BY <1>1, <1>3, <1>4
<1>6. \A i \in S : i < b
  BY <1>1, <1>2, <1>4
<1>7. S = 1..(b - 1)
  <2>1. ASSUME NEW i \in S PROVE i \in 1..(b - 1)
    BY <1>1, <1>4, <1>6
  <2>2. ASSUME NEW i \in 1..(b - 1) PROVE i \in S
    <3>1. i \in 1..(Len(xs) + 1) /\ i < b
      BY <1>1, <1>4
    <3> QED BY <1>5, <3>1
  <2> QED BY <2>1, <2>2
<1>8. m = b - 1
  <2>1. b - 1 \in Int /\ b - 1 >= 0
    BY <1>1, <1>4
  <2>2. Cardinality(1..(b - 1)) = b - 1
    BY <2>1, FS_Interval
  <2> QED BY <1>7, <2>2 DEF S
<1> QED BY <1>1, <1>4, <1>7, <1>8 DEF S

\* What a curve has after j new instants: those it had, and these, with the
\* values given for them if there are.
PointsFrom(q, pts, xs, given, j) ==
  \A k \in 1..Len(q) :
    \/ \E i \in 1..Len(pts) : q[k] = pts[i]
    \/ \E i \in 1..j : q[k].x = xs[i] /\ q[k].n = 0 /\ (given # <<>> => q[k].y = given[i])
NewIds(xs, j) == {<<xs[i], 0>> : i \in 1..j}
WithInstants(q, pts, xs, given, j) ==
  /\ q \in Seq(PlotPoint) /\ InOrder(q) /\ Len(q) = Len(pts) + j
  /\ Ids(q) = Ids(pts) \union NewIds(xs, j)
  /\ PointsFrom(q, pts, xs, given, j)

\* Instants in order, with a value each or none.
AnswerWith(xs, given) ==
  /\ xs \in Seq(Int) /\ Ascending(xs)
  /\ given \in Seq(PlotValues) /\ (given # <<>> => Len(given) = Len(xs))

\* One more new instant among those of the curve.
LEMMA OneMorePlaced ==
  ASSUME NEW pts \in Seq(PlotPoint), NEW xs, NEW given, AnswerWith(xs, given),
         NEW j \in 1..Len(xs), j \in Amongst(pts, xs), xs[j] \notin Instants(pts),
         NEW p, WithInstants(p, pts, xs, given, j - 1)
  PROVE  WithInstants(Placed(p, xs, given, j), pts, xs, given, j)
<1> DEFINE q == Placed(p, xs, given, j)
           e == Point(xs[j], GetYVal(given, j - 1, p))
<1>1. /\ xs \in Seq(Int) /\ Ascending(xs) /\ given \in Seq(PlotValues)
      /\ p \in Seq(PlotPoint) /\ InOrder(p) /\ Len(p) = Len(pts) + (j - 1)
      /\ Ids(p) = Ids(pts) \union NewIds(xs, j - 1)
      /\ PointsFrom(p, pts, xs, given, j - 1) /\ (given # <<>> => Len(given) = Len(xs))
  BY DEF WithInstants, AnswerWith
<1>2. Len(xs) \in Nat /\ j \in Nat /\ Len(pts) \in Nat /\ \A i \in 1..Len(xs) : xs[i] \in Int
  BY <1>1
<1>3. xs[j] \notin Instants(p)
  <2>1. ASSUME NEW i \in 1..(j - 1) PROVE xs[i] # xs[j]
    <3>1. i \in 1..Len(xs) /\ i < j
      BY <1>2
    <3>2. xs[i] < xs[j]
      BY <1>1, <3>1 DEF Ascending
    <3> QED BY <1>2, <3>1, <3>2
  <2>2. ASSUME NEW z \in Ids(p) PROVE z[1] # xs[j]
    <3>1. CASE z \in Ids(pts)
      BY <3>1, IdsOfPoints
    <3>2. CASE z \in NewIds(xs, j - 1)
      BY <2>1, <3>2 DEF NewIds
    <3> QED BY <1>1, <3>1, <3>2
  <2> QED BY <2>2, IdsOfPoints
<1>4. \E k \in 1..Len(p) : xs[j] <= p[k].x
  <2>1. PICK i \in 1..Len(pts) : xs[j] <= pts[i].x
    BY DEF Amongst
  <2>2. IdOf(pts[i]) \in Ids(p)
    BY <1>1 DEF Ids
  <2>3. PICK k \in 1..Len(p) : p[k].x = pts[i].x
    BY <2>2 DEF Ids, IdOf
  <2> QED BY <2>1, <2>3
<1>5. /\ q \in Seq(PlotPoint) /\ InOrder(q) /\ Len(q) = Len(p) + 1
      /\ \A k \in 1..Len(q) : q[k] = e \/ \E i \in 1..Len(p) : q[k] = p[i]
      /\ Ids(q) = Ids(p) \union {<<xs[j], 0>>}
  <2> HIDE DEF q, e
  <2>1. q = Placed(p, xs, given, j) /\ e = Point(xs[j], GetYVal(given, j - 1, p))
    BY DEF q, e
  <2>2. OneMorePoint(q, p, e, xs[j])
    BY <1>1, <1>3, <1>4, <2>1, PlacedNew
  <2> QED BY <2>2 DEF OneMorePoint
<1>6. e.x = xs[j] /\ e.n = 0 /\ (given # <<>> => e.y = given[j])
  <2>1. e.x = xs[j] /\ e.n = 0 /\ e.y = GetYVal(given, j - 1, p)
    BY DEF Point, LivePoint
  <2>2. ASSUME given # <<>> PROVE GetYVal(given, j - 1, p) = given[j]
    <3>1. j - 1 < Len(given) /\ (j - 1) + 1 = j
      BY <1>1, <1>2, <2>2
    <3> QED BY <3>1 DEF GetYVal
  <2> QED BY <2>1, <2>2
<1> HIDE DEF q, e
<1>7. NewIds(xs, j) = NewIds(xs, j - 1) \union {<<xs[j], 0>>}
  <2>1. 1..j = 1..(j - 1) \union {j}
    BY <1>2
  <2> QED BY <2>1 DEF NewIds
<1>8. PointsFrom(q, pts, xs, given, j)
  <2> SUFFICES ASSUME NEW k \in 1..Len(q)
               PROVE  \/ \E i \in 1..Len(pts) : q[k] = pts[i]
                      \/ \E i \in 1..j : q[k].x = xs[i] /\ q[k].n = 0 /\ (given # <<>> => q[k].y = given[i])
    BY DEF PointsFrom
  <2>1. CASE q[k] = e
    <3>1. j \in 1..j
      BY <1>2
    <3> QED BY <1>6, <2>1, <3>1
  <2>2. ASSUME NEW h \in 1..Len(p), q[k] = p[h]
        PROVE  \/ \E i \in 1..Len(pts) : q[k] = pts[i]
               \/ \E i \in 1..j : q[k].x = xs[i] /\ q[k].n = 0 /\ (given # <<>> => q[k].y = given[i])
    <3>1. \/ \E i \in 1..Len(pts) : p[h] = pts[i]
          \/ \E i \in 1..(j - 1) : p[h].x = xs[i] /\ p[h].n = 0 /\ (given # <<>> => p[h].y = given[i])
      BY <1>1 DEF PointsFrom
    <3>2. 1..(j - 1) \subseteq 1..j
      BY <1>2
    <3> QED BY <2>2, <3>1, <3>2
  <2> QED BY <1>5, <2>1, <2>2
<1>9. Len(q) = Len(pts) + j
  BY <1>1, <1>2, <1>5
<1>10. Ids(q) = Ids(pts) \union NewIds(xs, j)
  BY <1>1, <1>5, <1>7
<1> QED BY <1>5, <1>8, <1>9, <1>10 DEF WithInstants, q

\* New instants are placed one by one.
LEMMA AllPlaced ==
  ASSUME NEW pts \in Seq(PlotPoint), InOrder(pts), NEW xs, NEW given, AnswerWith(xs, given),
         \A j \in 1..Len(xs) : xs[j] \notin Instants(pts),
         NEW m \in 0..Len(xs), \A j \in 1..m : j \in Amongst(pts, xs),
         NEW f, PlacesAlong(f, pts, xs, given, m), NEW n \in 0..m
  PROVE  WithInstants(f[n], pts, xs, given, n)
<1> DEFINE bad == {i \in 0..m : ~WithInstants(f[i], pts, xs, given, i)}
<1>1. xs \in Seq(Int) /\ Len(xs) \in Nat /\ m \in Nat /\ Len(pts) \in Nat
  BY DEF AnswerWith
<1>2. ASSUME bad # {} PROVE FALSE
  <2>1. PICK b \in bad : \A i \in bad : b <= i
    <3>1. bad \in SUBSET Nat
      BY <1>1
    <3> HIDE DEF bad
    <3> QED BY <1>2, <3>1, LeastNatural
  <2>2. b \in 0..m /\ ~WithInstants(f[b], pts, xs, given, b)
    BY <2>1
  <2>3. f[b] = IF b = 0 THEN pts ELSE Placed(f[b - 1], xs, given, b)
    BY <2>2, Zenon DEF PlacesAlong
  <2>4. CASE b = 0
    <3>1. f[b] = pts /\ NewIds(xs, 0) = {}
      BY <2>3, <2>4 DEF NewIds
    <3>2. PointsFrom(pts, pts, xs, given, 0)
      BY DEF PointsFrom
    <3> QED BY <1>1, <2>2, <2>4, <3>1, <3>2 DEF WithInstants
  <2>5. CASE b # 0
    <3>1. b - 1 \in 0..m /\ b - 1 \notin bad /\ b \in 1..Len(xs) /\ b \in 1..m
      <4> HIDE DEF bad
      <4> QED BY <1>1, <2>1, <2>2, <2>5
    <3>2. WithInstants(f[b - 1], pts, xs, given, b - 1)
      BY <3>1
    <3> QED BY <2>2, <2>3, <2>5, <3>1, <3>2, OneMorePlaced
  <2> QED BY <2>4, <2>5
<1> QED BY <1>2

\* New instants join those of the curve in order, whatever they are.
LEMMA MergedNew ==
  ASSUME NEW pts \in Seq(PlotPoint), InOrder(pts), NEW xs, NEW given, AnswerWith(xs, given),
         \A j \in 1..Len(xs) : xs[j] \notin Instants(pts)
  PROVE  WithInstants(Merged(pts, xs, given), pts, xs, given, Len(xs))
<1> DEFINE n == Len(xs)
           m == Cardinality(Amongst(pts, xs))
<1>1. /\ xs \in Seq(Int) /\ Ascending(xs) /\ n \in Nat /\ Len(pts) \in Nat
      /\ given \in Seq(PlotValues) /\ (given # <<>> => Len(given) = n)
      /\ \A i \in 1..n : xs[i] \in Int
  BY DEF AnswerWith
<1>2. m \in 0..n /\ \A j \in 1..n : j <= m <=> j \in Amongst(pts, xs)
  BY <1>1, AmongstFirst
<1> HIDE DEF m
<1>3. PICK f : PlacesAlong(f, pts, xs, given, m) /\ Merged(pts, xs, given) = f[m] \o Beyond(f[m], xs, given, m)
  <2>1. m \in Nat /\ m = Cardinality(Amongst(pts, xs))
    BY <1>2 DEF m
  <2>2. \E f : MergedAlong(f, pts, xs, given, m)
    BY <2>1, MergedIs
  <2> QED BY <2>2 DEF MergedAlong
<1> DEFINE p == f[m]
           t == Beyond(p, xs, given, m)
           q == p \o t
<1>4. /\ p \in Seq(PlotPoint) /\ InOrder(p) /\ Len(p) = Len(pts) + m
      /\ Ids(p) = Ids(pts) \union NewIds(xs, m)
      /\ PointsFrom(p, pts, xs, given, m)
  <2>1. \A j \in 1..m : j \in Amongst(pts, xs)
    BY <1>1, <1>2
  <2>2. m \in 0..m
    BY <1>2
  <2>3. WithInstants(f[m], pts, xs, given, m)
    BY <1>2, <1>3, <2>1, <2>2, AllPlaced
  <2> QED BY <2>3 DEF WithInstants
<1> HIDE DEF p
<1>5. /\ t \in Seq(PlotPoint) /\ Len(t) = n - m
      /\ \A j \in 1..(n - m) :
           t[j].x = xs[m + j] /\ t[j].n = 0 /\ (given # <<>> => t[j].y = given[m + j])
  <2>1. n - m \in Nat
    BY <1>1, <1>2
  <2>2. ASSUME NEW j \in 1..(n - m)
        PROVE  /\ Point(xs[m + j], GetYVal(given, m + j - 1, p)) \in PlotPoint
               /\ given # <<>> => GetYVal(given, m + j - 1, p) = given[m + j]
    <3>1. m + j \in 1..n /\ m + j - 1 \in Nat /\ (m + j - 1) + 1 = m + j
      BY <1>1, <1>2
    <3>2. GetYVal(given, m + j - 1, p) \in PlotYs
      BY <1>1, <1>4, <3>1, YvalTyped
    <3>3. given # <<>> => m + j - 1 < Len(given)
      BY <1>1, <3>1
    <3> QED BY <1>1, <3>1, <3>2, <3>3, MergedPoint DEF GetYVal
  <2>3. t = [j \in 1..(n - m) |-> Point(xs[m + j], GetYVal(given, m + j - 1, p))]
    BY DEF Beyond
  <2>4. /\ t \in [1..(n - m) -> PlotPoint]
        /\ \A j \in 1..(n - m) : t[j] = Point(xs[m + j], GetYVal(given, m + j - 1, p))
    BY <2>2, <2>3
  <2> HIDE DEF t
  <2>5. t \in Seq(PlotPoint) /\ Len(t) = n - m
    BY <2>1, <2>4
  <2> QED BY <2>2, <2>4, <2>5 DEF Point, LivePoint
<1> HIDE DEF t, n
<1>6. JoinOf(PlotPoint, q, p, t)
  BY <1>4, <1>5, Concatenated
<1> HIDE DEF q
<1>7. /\ q \in Seq(PlotPoint) /\ Len(q) = Len(pts) + n
      /\ \A k \in 1..Len(p) : q[k] = p[k]
      /\ \A j \in 1..(n - m) : q[Len(p) + j] = t[j]
  <2>1. /\ q \in Seq(PlotPoint) /\ Len(q) = Len(p) + Len(t)
        /\ \A k \in 1..Len(p) : q[k] = p[k]
        /\ \A j \in 1..Len(t) : q[Len(p) + j] = t[j]
    BY <1>6 DEF JoinOf
  <2>2. Len(t) = n - m /\ Len(p) + Len(t) = Len(pts) + n
    BY <1>1, <1>2, <1>4, <1>5
  <2> QED BY <2>1, <2>2
<1>8. ASSUME NEW k \in 1..Len(q)
      PROVE  \/ k \in 1..Len(p) /\ q[k] = p[k]
             \/ \E j \in 1..(n - m) : k = Len(p) + j /\ q[k] = t[j]
  <2>1. CASE k <= Len(p)
    BY <1>1, <1>2, <1>4, <1>7, <2>1
  <2>2. CASE ~(k <= Len(p))
    <3>1. k - Len(p) \in 1..(n - m) /\ k = Len(p) + (k - Len(p))
      BY <1>1, <1>2, <1>4, <1>7, <2>2
    <3> QED BY <1>7, <3>1
  <2> QED BY <2>1, <2>2
<1>9. ASSUME NEW i \in 1..Len(p), NEW j \in 1..(n - m) PROVE p[i].x < t[j].x
  <2>1. m + j \in 1..n /\ ~(m + j <= m) /\ t[j].x = xs[m + j]
    <3>1. t[j].x = xs[m + j]
      BY <1>5
    <3>2. m + j \in 1..n /\ ~(m + j <= m)
      BY <1>1, <1>2
    <3> QED BY <3>1, <3>2
  <2>2. m + j \notin Amongst(pts, xs)
    BY <1>2, <2>1
  <2>3. \A h \in 1..Len(pts) : pts[h].x < xs[m + j]
    <3>1. \A h \in 1..Len(pts) : ~(xs[m + j] <= pts[h].x) /\ pts[h].x \in Int
      BY <2>1, <2>2, PointTyped DEF Amongst, n
    <3> QED BY <1>1, <2>1, <3>1, SMTT(30)
  <2>4. \A h \in 1..m : xs[h] < xs[m + j]
    <3>1. \A h \in 1..m : h \in 1..n /\ h < m + j
      BY <1>1, <1>2, <2>1
    <3> QED BY <1>1, <2>1, <3>1 DEF Ascending, n
  <2>5. IdOf(p[i]) \in Ids(pts) \union NewIds(xs, m)
    BY <1>4 DEF Ids
  <2>6. CASE IdOf(p[i]) \in Ids(pts)
    <3>1. PICK h \in 1..Len(pts) : p[i].x = pts[h].x
      BY <2>6 DEF Ids, IdOf
    <3> QED BY <2>1, <2>3, <3>1
  <2>7. CASE IdOf(p[i]) \in NewIds(xs, m)
    <3>1. PICK h \in 1..m : p[i].x = xs[h]
      BY <2>7 DEF NewIds, IdOf
    <3> QED BY <2>1, <2>4, <3>1
  <2> QED BY <2>5, <2>6, <2>7
<1>10. InOrder(q)
  <2> SUFFICES ASSUME NEW i \in 1..Len(q), NEW k \in 1..Len(q), i < k PROVE Before(q[i], q[k])
    BY DEF InOrder
  <2>1. CASE k \in 1..Len(p)
    <3>1. i \in 1..Len(p)
      BY <1>1, <1>4, <2>1
    <3> QED BY <1>4, <1>7, <2>1, <3>1 DEF InOrder
  <2>2. ASSUME NEW j \in 1..(n - m), k = Len(p) + j, q[k] = t[j], i \in 1..Len(p), q[i] = p[i]
        PROVE  Before(q[i], q[k])
    BY <1>5, <1>9, <2>2 DEF Before
  <2>3. ASSUME NEW j \in 1..(n - m), k = Len(p) + j, q[k] = t[j],
               NEW h \in 1..(n - m), i = Len(p) + h, q[i] = t[h]
        PROVE  Before(q[i], q[k])
    <3>1. m + h \in 1..n /\ m + j \in 1..n /\ m + h < m + j
      BY <1>1, <1>2, <1>4, <2>3
    <3>2. xs[m + h] < xs[m + j]
      BY <1>1, <3>1 DEF Ascending, n
    <3> QED BY <1>5, <2>3, <3>2 DEF Before
  <2> QED BY <1>8, <2>1, <2>2, <2>3
<1>11. Ids(q) = Ids(pts) \union NewIds(xs, n)
  <2>1. ASSUME NEW k \in 1..Len(q) PROVE IdOf(q[k]) \in Ids(p) \union NewIds(xs, n)
    <3>1. CASE k \in 1..Len(p) /\ q[k] = p[k]
      BY <3>1 DEF Ids
    <3>2. ASSUME NEW j \in 1..(n - m), q[k] = t[j] PROVE IdOf(q[k]) \in NewIds(xs, n)
      <4>1. m + j \in 1..n
        BY <1>1, <1>2
      <4>2. IdOf(q[k]) = <<xs[m + j], 0>>
        BY <1>5, <3>2 DEF IdOf
      <4> QED BY <4>1, <4>2 DEF NewIds
    <3> QED BY <1>8, <3>1, <3>2
  <2>2. Ids(p) \subseteq Ids(q)
    <3>1. \A k \in 1..Len(p) : k \in 1..Len(q) /\ q[k] = p[k]
      BY <1>1, <1>2, <1>4, <1>7
    <3> QED BY <3>1 DEF Ids
  <2>3. ASSUME NEW i \in 1..n PROVE <<xs[i], 0>> \in Ids(q)
    <3>1. CASE i <= m
      <4>1. i \in 1..m
        BY <1>1, <1>2, <3>1
      <4> QED BY <1>4, <2>2, <4>1 DEF NewIds
    <3>2. CASE ~(i <= m)
      <4>1. i - m \in 1..(n - m) /\ m + (i - m) = i /\ Len(p) + (i - m) \in 1..Len(q)
        BY <1>1, <1>2, <1>4, <1>7, <3>2
      <4>2. IdOf(q[Len(p) + (i - m)]) = <<xs[i], 0>>
        BY <1>5, <1>7, <4>1 DEF IdOf
      <4> QED BY <4>1, <4>2 DEF Ids
    <3> QED BY <3>1, <3>2
  <2>4. NewIds(xs, m) \subseteq NewIds(xs, n)
    <3>1. 1..m \subseteq 1..n
      BY <1>1, <1>2
    <3> QED BY <3>1 DEF NewIds
  <2>5. Ids(q) \subseteq Ids(pts) \union NewIds(xs, n)
    BY <1>4, <2>1, <2>4 DEF Ids
  <2>6. Ids(pts) \subseteq Ids(q)
    BY <1>4, <2>2
  <2>7. NewIds(xs, n) \subseteq Ids(q)
    BY <2>3 DEF NewIds
  <2> QED BY <2>5, <2>6, <2>7
<1>12. PointsFrom(q, pts, xs, given, n)
  <2> SUFFICES ASSUME NEW k \in 1..Len(q)
               PROVE  \/ \E i \in 1..Len(pts) : q[k] = pts[i]
                      \/ \E i \in 1..n : q[k].x = xs[i] /\ q[k].n = 0 /\ (given # <<>> => q[k].y = given[i])
    BY DEF PointsFrom
  <2>1. CASE k \in 1..Len(p) /\ q[k] = p[k]
    <3>1. \/ \E i \in 1..Len(pts) : p[k] = pts[i]
          \/ \E i \in 1..m : p[k].x = xs[i] /\ p[k].n = 0 /\ (given # <<>> => p[k].y = given[i])
      BY <1>4, <2>1 DEF PointsFrom
    <3>2. 1..m \subseteq 1..n
      BY <1>1, <1>2
    <3> QED BY <2>1, <3>1, <3>2
  <2>2. ASSUME NEW j \in 1..(n - m), q[k] = t[j]
        PROVE  \E i \in 1..n : q[k].x = xs[i] /\ q[k].n = 0 /\ (given # <<>> => q[k].y = given[i])
    <3>1. m + j \in 1..n
      BY <1>1, <1>2
    <3> QED BY <1>5, <2>2, <3>1
  <2> QED BY <1>8, <2>1, <2>2
<1>13. Merged(pts, xs, given) = q
  BY <1>3 DEF q, t, p
<1> QED BY <1>7, <1>10, <1>11, <1>12, <1>13 DEF WithInstants, n

-----------------------------------------------------------------------------
(* The trend plot: the latest points                                       *)

\* q has the latest points of pts: all, or n.
LatestOf(q, pts, n) ==
  /\ q \in Seq(PlotPoint) /\ InOrder(q)
  /\ Len(q) = IF n > 0 /\ Len(pts) > n THEN n ELSE Len(pts)
  /\ \A k \in 1..Len(q) : Len(pts) - Len(q) + k \in 1..Len(pts) /\ q[k] = pts[Len(pts) - Len(q) + k]
  /\ Ids(q) \subseteq Ids(pts)

\* The oldest points are dropped.
LEMMA LatestKept ==
  ASSUME NEW pts \in Seq(PlotPoint), InOrder(pts), NEW n \in Int
  PROVE  LatestOf(Latest(pts, n), pts, n)
<1> DEFINE q == Latest(pts, n)
           from == Len(pts) - Len(q)
<1>1. Len(pts) \in Nat
  OBVIOUS
<1>2. /\ q \in Seq(PlotPoint) /\ Len(q) = IF n > 0 /\ Len(pts) > n THEN n ELSE Len(pts)
      /\ \A k \in 1..Len(q) : q[k] = pts[from + k]
  <2>1. CASE n > 0 /\ Len(pts) > n
    <3>1. q = SubSeq(pts, Len(pts) - n + 1, Len(pts))
      BY <2>1 DEF Latest
    <3>2. Len(pts) - n + 1 \in 1..(Len(pts) + 1) /\ Len(pts) \in ((Len(pts) - n + 1) - 1)..Len(pts)
      BY <1>1, <2>1
    <3>3. SubSeqOf(PlotPoint, q, pts, Len(pts) - n + 1, Len(pts))
      BY <3>1, <3>2, CutOut
    <3> HIDE DEF q
    <3>4. q \in Seq(PlotPoint) /\ Len(q) = n
      BY <1>1, <2>1, <3>3 DEF SubSeqOf
    <3>5. ASSUME NEW k \in 1..Len(q) PROVE q[k] = pts[Len(pts) - Len(q) + k]
      <4>1. (Len(pts) - n + 1) + k - 1 = Len(pts) - Len(q) + k
        BY <1>1, <2>1, <3>4
      <4>2. q[k] = pts[(Len(pts) - n + 1) + k - 1]
        BY <3>3 DEF SubSeqOf
      <4> QED BY <4>1, <4>2
    <3> QED BY <2>1, <3>4, <3>5
  <2>2. CASE ~(n > 0 /\ Len(pts) > n)
    <3>1. q = pts
      BY <2>2 DEF Latest
    <3>2. \A k \in 1..Len(q) : Len(pts) - Len(q) + k = k
      BY <1>1, <3>1
    <3> HIDE DEF q
    <3> QED BY <2>2, <3>1, <3>2
  <2> QED BY <2>1, <2>2
<1> HIDE DEF q
<1>3. /\ Len(q) \in Nat /\ Len(q) <= Len(pts)
      /\ \A k \in 1..Len(q) : from + k \in 1..Len(pts)
  <2>1. Len(q) \in Nat
    BY <1>2
  <2>2. Len(q) <= Len(pts)
    BY <1>1, <1>2
  <2> QED BY <1>1, <2>1, <2>2
<1>4. InOrder(q)
  <2> SUFFICES ASSUME NEW i \in 1..Len(q), NEW k \in 1..Len(q), i < k PROVE Before(q[i], q[k])
    BY DEF InOrder
  <2>1. from + i \in 1..Len(pts) /\ from + k \in 1..Len(pts) /\ from + i < from + k
    BY <1>1, <1>3
  <2> HIDE DEF from
  <2> QED BY <1>2, <2>1 DEF InOrder
<1>5. Ids(q) \subseteq Ids(pts)
  BY <1>2, <1>3 DEF Ids
<1>6. \A k \in 1..Len(q) : Len(pts) - Len(q) + k \in 1..Len(pts) /\ q[k] = pts[Len(pts) - Len(q) + k]
  BY <1>2, <1>3
<1> QED BY <1>2, <1>4, <1>5, <1>6 DEF LatestOf, q

\* The latest of c live values are there from one on without a gap.
NoGap(pts, c) ==
  \A k \in 1..Len(pts) : pts[k].n > 0 => \A n \in pts[k].n..c : \E h \in 1..Len(pts) : pts[h].n = n

\* Dropping the oldest points leaves no gap,
LEMMA LatestNoGap ==
  ASSUME NEW pts \in Seq(PlotPoint), InOrder(pts), NEW c \in Nat, NoGap(pts, c),
         NEW b \in Int, NEW q, LatestOf(q, pts, b)
  PROVE  NoGap(q, c)
<1> DEFINE from == Len(pts) - Len(q)
<1>1. /\ q \in Seq(PlotPoint) /\ Len(pts) \in Nat /\ Len(q) \in Nat /\ from \in Int
      /\ \A k \in 1..Len(q) : from + k \in 1..Len(pts) /\ q[k] = pts[from + k]
      /\ \A k \in 1..Len(pts) : pts[k].n \in Nat
  <2>1. q \in Seq(PlotPoint) /\ \A k \in 1..Len(q) : from + k \in 1..Len(pts) /\ q[k] = pts[from + k]
    BY DEF LatestOf
  <2>2. \A k \in 1..Len(pts) : pts[k].n \in Nat
    BY PointTyped
  <2>3. Len(pts) \in Nat /\ Len(q) \in Nat
    BY <2>1
  <2>4. from \in Int
    BY <2>3
  <2> HIDE DEF from
  <2> QED BY <2>1, <2>2, <2>3, <2>4
<1> SUFFICES ASSUME NEW k \in 1..Len(q), q[k].n > 0, NEW n \in q[k].n..c
             PROVE  \E h \in 1..Len(q) : q[h].n = n
  BY DEF NoGap
<1>2. from + k \in 1..Len(pts) /\ q[k] = pts[from + k] /\ q[k].n \in Nat /\ n >= q[k].n
  BY <1>1
<1>3. PICK h \in 1..Len(pts) : pts[h].n = n
  BY <1>2 DEF NoGap
<1> HIDE DEF from
<1>4. ~(h < from + k)
  <2>1. ASSUME h < from + k PROVE FALSE
    <3>1. Before(pts[h], pts[from + k])
      BY <1>2, <2>1 DEF InOrder
    <3> QED BY <1>1, <1>2, <1>3, <3>1 DEF Before
  <2> QED BY <2>1
<1>5. h - from \in 1..Len(q) /\ from + (h - from) = h
  BY <1>1, <1>2, <1>4 DEF from
<1>6. q[h - from] = pts[h]
  BY <1>1, <1>5
<1> QED BY <1>3, <1>5, <1>6

\* nor does merging.
LEMMA MergedNoGap ==
  ASSUME NEW pts \in Seq(PlotPoint), NEW c \in Nat, NoGap(pts, c), NEW xs, NEW j,
         NEW q \in Seq(PlotPoint), Ids(q) = Ids(pts) \union NewIds(xs, j)
  PROVE  NoGap(q, c)
<1> SUFFICES ASSUME NEW k \in 1..Len(q), q[k].n > 0, NEW n \in q[k].n..c
             PROVE  \E h \in 1..Len(q) : q[h].n = n
  BY DEF NoGap
<1>1. IdOf(q[k]) \in Ids(pts)
  <2>1. IdOf(q[k]) \in Ids(q)
    BY DEF Ids
  <2>2. IdOf(q[k]) \notin NewIds(xs, j)
    BY DEF NewIds, IdOf
  <2> QED BY <2>1, <2>2
<1>2. PICK i \in 1..Len(pts) : pts[i].n = q[k].n
  BY <1>1 DEF Ids, IdOf
<1>3. PICK h \in 1..Len(pts) : pts[h].n = n
  BY <1>2 DEF NoGap
<1>4. IdOf(pts[h]) \in Ids(q)
  BY DEF Ids
<1> QED BY <1>3, <1>4 DEF Ids, IdOf

\* As many as there are places, if no two places have the same.
EachOnce(S, f, n) ==
  /\ S = {f[i] : i \in 1..n}
  /\ \A i, j \in 1..n : f[i] = f[j] => i = j
LEMMA EachAtOnePlace ==
  ASSUME NEW n \in Nat, NEW f, NEW S, EachOnce(S, f, n)
  PROVE  IsFiniteSet(S) /\ Cardinality(S) = n
<1> DEFINE g == [i \in 1..n |-> f[i]]
<1>1. g \in Bijection(1..n, S)
  <2>1. g \in [1..n -> S]
    BY DEF EachOnce
  <2>2. \A i, j \in 1..n : g[i] = g[j] => i = j
    BY DEF EachOnce
  <2>3. \A t \in S : \E i \in 1..n : g[i] = t
    BY DEF EachOnce
  <2> HIDE DEF g
  <2>4. g \in Injection(1..n, S)
    BY <2>1, <2>2 DEF Injection, IsInjective
  <2>5. g \in Surjection(1..n, S)
    BY <2>1, <2>3 DEF Surjection
  <2> QED BY <2>4, <2>5 DEF Bijection
<1>2. ExistsBijection(1..n, S)
  BY <1>1 DEF ExistsBijection
<1>3. IsFiniteSet(1..n) /\ Cardinality(1..n) = n
  BY FS_Interval
<1> QED BY <1>2, <1>3, FS_Bijection

\* The points of a curve are told from each other.
LEMMA IdsCounted ==
  ASSUME NEW pts \in Seq(PlotPoint), InOrder(pts)
  PROVE  IsFiniteSet(Ids(pts)) /\ Cardinality(Ids(pts)) = Len(pts)
<1> DEFINE f == [i \in 1..Len(pts) |-> IdOf(pts[i])]
<1>1. Len(pts) \in Nat /\ \A i \in 1..Len(pts) : pts[i].x \in Int /\ pts[i].n \in Nat
  BY PointTyped
<1>2. ASSUME NEW i \in 1..Len(pts), NEW j \in 1..Len(pts), f[i] = f[j] PROVE i = j
  <2>1. pts[i].x = pts[j].x /\ pts[i].n = pts[j].n
    BY <1>2 DEF IdOf
  <2>2. ~(i < j) /\ ~(j < i)
    BY <1>1, <2>1 DEF InOrder, Before
  <2> QED BY <1>1, <2>2
<1>3. Ids(pts) = {f[i] : i \in 1..Len(pts)}
  BY DEF Ids
<1> HIDE DEF f
<1>4. EachOnce(Ids(pts), f, Len(pts))
  BY <1>2, <1>3 DEF EachOnce
<1> QED BY <1>1, <1>4, EachAtOnePlace

\* What PlotShowsLatest says of the points of a curve and of what was received
\* for it, ids and c live values.
AsManyAsHeld(pts, ids) ==
  IF PlotBuffer <= 0 \/ Cardinality(ids) <= PlotBuffer
  THEN Len(pts) = Cardinality(ids)
  ELSE Len(pts) \in {PlotBuffer, PlotBuffer + 1}
ShowsLatest(pts, ids, c) ==
  /\ pts \in Seq(PlotPoint) /\ InOrder(pts) /\ NoGap(pts, c)
  /\ IsFiniteSet(ids) /\ Ids(pts) \subseteq ids /\ \A i \in ids : i[2] \in 0..c
  /\ AsManyAsHeld(pts, ids)

\* What a curve has is dropped down to the buffer after new instants joined it.
LEMMA CutShowsLatest ==
  ASSUME NEW pts, NEW ids, NEW c \in Nat, ShowsLatest(pts, ids, c),
         NEW new, IsFiniteSet(new), new \intersect Ids(pts) = {}, \A i \in new : i[2] = 0,
         NEW q \in Seq(PlotPoint), InOrder(q), NoGap(q, c), Ids(q) = Ids(pts) \union new
  PROVE  ShowsLatest(Latest(q, PlotBuffer), ids \union new, c)
<1> DEFINE r == Latest(q, PlotBuffer)
           all == ids \union new
<1>1. /\ pts \in Seq(PlotPoint) /\ InOrder(pts) /\ IsFiniteSet(ids)
      /\ Ids(pts) \subseteq ids /\ PlotBuffer \in Int /\ Len(pts) \in Nat /\ Len(q) \in Nat
      /\ \A i \in ids : i[2] \in 0..c
  BY PlotAssumption DEF ShowsLatest
<1>2. LatestOf(r, q, PlotBuffer)
  BY <1>1, LatestKept
<1> HIDE DEF r
<1>3. NoGap(r, c)
  BY <1>1, <1>2, LatestNoGap
<1>4. Len(q) = Len(pts) + Cardinality(new) /\ Cardinality(new) \in Nat
  <2>1. IsFiniteSet(Ids(pts)) /\ Cardinality(Ids(pts)) = Len(pts)
    BY <1>1, IdsCounted
  <2>2. Cardinality(Ids(q)) = Len(q)
    BY IdsCounted
  <2>3. Cardinality(Ids(pts) \cap new) = 0
    <3>1. Ids(pts) \cap new = {}
      OBVIOUS
    <3> QED BY <3>1, FS_EmptySet
  <2>4. Cardinality(Ids(pts) \cup new)
          = Cardinality(Ids(pts)) + Cardinality(new) - Cardinality(Ids(pts) \cap new)
    BY <2>1, FS_Union
  <2>5. Cardinality(new) \in Nat
    BY FS_CardinalityType
  <2> QED BY <1>1, <2>1, <2>2, <2>3, <2>4, <2>5
<1>5. /\ IsFiniteSet(all) /\ Cardinality(all) \in Nat /\ Cardinality(ids) \in Nat
      /\ Cardinality(ids) <= Cardinality(all)
  <2>1. IsFiniteSet(ids \cup new)
    BY <1>1, FS_Union
  <2> QED BY <1>1, <2>1, FS_Subset, FS_CardinalityType
<1>6. Cardinality(ids) = Len(pts) => Cardinality(all) = Len(q)
  <2> SUFFICES ASSUME Cardinality(ids) = Len(pts) PROVE Cardinality(all) = Len(q)
    OBVIOUS
  <2>1. Cardinality(Ids(pts)) = Len(pts)
    BY <1>1, IdsCounted
  <2>2. Ids(pts) = ids
    BY <1>1, <2>1, FS_Subset
  <2>3. all = Ids(q)
    BY <2>2
  <2> QED BY <2>3, IdsCounted
<1> HIDE DEF all
<1>7. /\ r \in Seq(PlotPoint) /\ InOrder(r) /\ Ids(r) \subseteq Ids(q)
      /\ Len(r) = IF PlotBuffer > 0 /\ Len(q) > PlotBuffer THEN PlotBuffer ELSE Len(q)
  BY <1>2 DEF LatestOf
<1>8. AsManyAsHeld(r, all)
  <2>1. IF PlotBuffer <= 0 \/ Cardinality(ids) <= PlotBuffer
        THEN Len(pts) = Cardinality(ids)
        ELSE Len(pts) \in {PlotBuffer, PlotBuffer + 1}
    BY DEF ShowsLatest, AsManyAsHeld
  <2>2. CASE PlotBuffer <= 0 \/ Cardinality(ids) <= PlotBuffer
    <3>1. Cardinality(all) = Len(q)
      BY <1>6, <2>1, <2>2
    <3> QED BY <1>1, <1>7, <3>1 DEF AsManyAsHeld
  <2>3. CASE ~(PlotBuffer <= 0 \/ Cardinality(ids) <= PlotBuffer)
    BY <1>1, <1>4, <1>5, <1>7, <2>1, <2>3 DEF AsManyAsHeld
  <2> QED BY <2>2, <2>3
<1>9. Ids(r) \subseteq all /\ \A i \in all : i[2] \in 0..c
  BY <1>1, <1>7 DEF all
<1> QED BY <1>3, <1>5, <1>7, <1>8, <1>9 DEF ShowsLatest, r, all

\* A live value is appended, whatever its instant.
OneMoreThan(q, pts, e) == \A k \in 1..Len(q) : q[k] = e \/ \E i \in 1..Len(pts) : q[k] = pts[i]
LEMMA AppendShowsLatest ==
  ASSUME NEW pts, NEW ids, NEW c \in Nat, ShowsLatest(pts, ids, c), NEW e \in PlotPoint, e.n = c + 1
  PROVE  /\ ShowsLatest(AppendData(pts, e), ids \union {IdOf(e)}, c + 1)
         /\ OneMoreThan(AppendData(pts, e), pts, e)
<1> DEFINE r == Latest(pts, PlotBuffer)
           q == AppendData(pts, e)
           all == ids \union {IdOf(e)}
<1>1. /\ pts \in Seq(PlotPoint) /\ InOrder(pts) /\ NoGap(pts, c) /\ IsFiniteSet(ids)
      /\ Ids(pts) \subseteq ids /\ PlotBuffer \in Int /\ Len(pts) \in Nat
      /\ \A i \in ids : i[2] \in 0..c
  BY PlotAssumption DEF ShowsLatest
<1>2. LatestOf(r, pts, PlotBuffer)
  BY <1>1, LatestKept
<1> HIDE DEF r
<1>3. NoGap(r, c)
  BY <1>1, <1>2, LatestNoGap
<1>4. /\ r \in Seq(PlotPoint) /\ InOrder(r) /\ Ids(r) \subseteq Ids(pts)
      /\ Len(r) = IF PlotBuffer > 0 /\ Len(pts) > PlotBuffer THEN PlotBuffer ELSE Len(pts)
      /\ \A k \in 1..Len(r) : Len(pts) - Len(r) + k \in 1..Len(pts) /\ r[k] = pts[Len(pts) - Len(r) + k]
  BY <1>2 DEF LatestOf
<1>5. q = Append(r, e)
  BY DEF AppendData, r
<1> HIDE DEF q
<1>6. /\ q \in Seq(PlotPoint) /\ Len(q) = Len(r) + 1 /\ Len(r) \in Nat /\ q[Len(r) + 1] = e
      /\ \A k \in 1..Len(r) : q[k] = r[k]
  BY <1>4, <1>5, AppendProperties
<1>7. ASSUME NEW k \in 1..Len(q) PROVE (k \in 1..Len(r) /\ q[k] = r[k]) \/ (k = Len(r) + 1 /\ q[k] = e)
  <2>1. k \in 1..Len(r) \/ k = Len(r) + 1
    BY <1>6
  <2> QED BY <1>6, <2>1
<1>8. \A k \in 1..Len(r) : r[k].n \in 0..c
  <2> SUFFICES ASSUME NEW k \in 1..Len(r) PROVE r[k].n \in 0..c
    OBVIOUS
  <2>1. IdOf(r[k]) \in ids
    BY <1>1, <1>4 DEF Ids
  <2> QED BY <1>1, <2>1 DEF IdOf
<1>9. InOrder(q)
  <2> SUFFICES ASSUME NEW i \in 1..Len(q), NEW k \in 1..Len(q), i < k PROVE Before(q[i], q[k])
    BY DEF InOrder
  <2>1. i \in 1..Len(r) /\ q[i] = r[i]
    BY <1>6, <1>7
  <2>2. CASE k \in 1..Len(r) /\ q[k] = r[k]
    BY <1>4, <2>1, <2>2 DEF InOrder
  <2>3. CASE q[k] = e
    BY <1>8, <2>1, <2>3 DEF Before
  <2> QED BY <1>7, <2>2, <2>3
<1>10. Ids(q) = Ids(r) \union {IdOf(e)}
  <2>1. \A k \in 1..Len(r) : k \in 1..Len(q) /\ q[k] = r[k]
    BY <1>6
  <2>2. Len(r) + 1 \in 1..Len(q)
    BY <1>6
  <2> QED BY <1>6, <1>7, <2>1, <2>2 DEF Ids
<1>11. NoGap(q, c + 1)
  <2> SUFFICES ASSUME NEW k \in 1..Len(q), q[k].n > 0, NEW n \in q[k].n..(c + 1)
               PROVE  \E h \in 1..Len(q) : q[h].n = n
    BY DEF NoGap
  <2>1. Len(r) + 1 \in 1..Len(q) /\ q[Len(r) + 1].n = c + 1
    BY <1>6
  <2>2. CASE n = c + 1
    BY <2>1, <2>2
  <2>3. CASE n # c + 1
    <3>1. k \in 1..Len(r) /\ q[k] = r[k] /\ n \in r[k].n..c /\ r[k].n > 0
      <4>1. q[k].n \in Int
        BY <1>6, PointTyped
      <4>2. q[k].n <= n /\ n <= c
        BY <2>3, <4>1
      <4>3. q[k] # e
        BY <4>1, <4>2
      <4>4. k \in 1..Len(r) /\ q[k] = r[k]
        BY <1>7, <4>3
      <4> QED BY <4>1, <4>2, <4>4
    <3>2. PICK h \in 1..Len(r) : r[h].n = n
      BY <1>3, <3>1 DEF NoGap
    <3>3. h \in 1..Len(q) /\ q[h] = r[h]
      BY <1>6
    <3> QED BY <3>2, <3>3
  <2> QED BY <2>2, <2>3
<1>12. IsFiniteSet(all) /\ Cardinality(all) = Cardinality(ids) + 1 /\ Cardinality(ids) \in Nat
  <2>1. IdOf(e) \notin ids
    <3>1. IdOf(e)[2] \notin 0..c
      BY DEF IdOf
    <3> QED BY <1>1, <3>1
  <2> QED BY <1>1, <2>1, FS_AddElement, FS_CardinalityType
<1>13. AsManyAsHeld(q, all)
  <2>1. IF PlotBuffer <= 0 \/ Cardinality(ids) <= PlotBuffer
        THEN Len(pts) = Cardinality(ids)
        ELSE Len(pts) \in {PlotBuffer, PlotBuffer + 1}
    BY DEF ShowsLatest, AsManyAsHeld
  <2> HIDE DEF all
  <2> QED BY <1>1, <1>4, <1>6, <1>12, <2>1 DEF AsManyAsHeld
<1>14. Ids(q) \subseteq all /\ \A i \in all : i[2] \in 0..(c + 1)
  <2>1. IdOf(e)[2] \in 0..(c + 1)
    BY DEF IdOf
  <2>2. 0..c \subseteq 0..(c + 1)
    OBVIOUS
  <2> QED BY <1>1, <1>4, <1>10, <2>1, <2>2
<1>15. ShowsLatest(q, all, c + 1)
  BY <1>6, <1>9, <1>11, <1>12, <1>13, <1>14 DEF ShowsLatest
<1>16. OneMoreThan(q, pts, e)
  BY <1>4, <1>7 DEF OneMoreThan
<1> QED BY <1>15, <1>16 DEF q

-----------------------------------------------------------------------------
(* The trend plot: vectors without a time scale                            *)

\* The number of points of a curve that was given m instants at once.
Held(m) == IF PlotBuffer <= 0 \/ m <= PlotBuffer THEN m ELSE PlotBuffer

\* The latest of the indexes from 0 to m - 1.
VectorOf(pts, m) ==
  /\ pts \in Seq(PlotPoint) /\ Len(pts) = Held(m)
  /\ \A k \in 1..Len(pts) : pts[k].x = m - Len(pts) + k - 1 /\ pts[k].n = 0

\* The indexes of a vector of n values.
IndexesOf(xs, n) == xs \in Seq(Int) /\ Len(xs) = n /\ \A j \in 1..n : xs[j] = j - 1

\* What the curve has of m indexes after the first j values of another vector:
\* the indexes that had been dropped are inserted, the others get new values.
Missing(pts, m, j) == IF j <= m - Len(pts) THEN j ELSE m - Len(pts)
Replaced(q, pts, given, j, by) ==
  \A k \in 1..Len(q) : q[k] = IF k <= j THEN Point(k - 1, given[k]) ELSE pts[k - by]
VectorStage(q, pts, m, given, j) ==
  /\ q \in Seq(PlotPoint) /\ Len(q) = Len(pts) + Missing(pts, m, j)
  /\ Replaced(q, pts, given, j, Missing(pts, m, j))

\* The curve has what it holds, and the last index if there is one.
LEMMA VectorHeld ==
  ASSUME NEW m \in Nat, NEW pts, VectorOf(pts, m)
  PROVE  /\ pts \in Seq(PlotPoint) /\ Len(pts) \in Nat /\ Len(pts) <= m /\ (m > 0 => Len(pts) > 0)
         /\ \A k \in 1..Len(pts) : pts[k].x = m - Len(pts) + k - 1 /\ pts[k].n = 0
<1>1. pts \in Seq(PlotPoint) /\ Len(pts) \in Nat /\ Len(pts) = Held(m)
  BY DEF VectorOf
<1>2. Len(pts) <= m /\ (m > 0 => Len(pts) > 0)
  BY <1>1, PlotAssumption DEF Held
<1> QED BY <1>1, <1>2 DEF VectorOf

\* One more value of a vector.
LEMMA OneMoreIndex ==
  ASSUME NEW m \in Nat, NEW pts, VectorOf(pts, m), NEW n \in Nat, NEW xs, IndexesOf(xs, n),
         NEW given \in [1..n -> PlotValues], NEW j \in Nat, j < n, j < m,
         NEW p, VectorStage(p, pts, m, given, j)
  PROVE  VectorStage(Placed(p, xs, given, j + 1), pts, m, given, j + 1)
<1> DEFINE d == m - Len(pts)
           by == Missing(pts, m, j)
           q == Placed(p, xs, given, j + 1)
           e == Point(j, given[j + 1])
           at == PlaceFor(p, xs[j + 1])
<1>1. /\ pts \in Seq(PlotPoint) /\ Len(pts) \in Nat /\ Len(pts) > 0 /\ d \in Nat
      /\ \A k \in 1..Len(pts) : pts[k].x = d + k - 1 /\ pts[k].n = 0
  BY VectorHeld
<1>2. /\ p \in Seq(PlotPoint) /\ Len(p) = Len(pts) + by
      /\ \A k \in 1..Len(p) : p[k] = IF k <= j THEN Point(k - 1, given[k]) ELSE pts[k - by]
  BY DEF VectorStage, Replaced
<1>3. by = IF j <= d THEN j ELSE d
  BY DEF Missing
<1>4. /\ j + 1 \in 1..n /\ xs \in Seq(Int) /\ Len(xs) = n /\ xs[j + 1] = j
      /\ j < Len(given) /\ given[j + 1] \in PlotValues /\ given \in Seq(PlotValues)
  BY DEF IndexesOf
<1> HIDE DEF by
<1>5. by \in Nat /\ by <= j /\ by <= d /\ Len(p) \in Nat /\ j + 1 \in 1..Len(p)
  BY <1>1, <1>2, <1>3
<1>6. ASSUME NEW k \in 1..Len(p) PROVE p[k].x = (IF k <= j THEN k - 1 ELSE d + k - by - 1) /\ p[k].n = 0
  <2>1. CASE k <= j
    BY <1>2, <2>1 DEF Point, LivePoint
  <2>2. CASE ~(k <= j)
    <3>1. k - by \in 1..Len(pts) /\ p[k] = pts[k - by]
      BY <1>1, <1>2, <1>5, <2>2
    <3>2. pts[k - by].x = d + (k - by) - 1 /\ pts[k - by].n = 0
      BY <1>1, <3>1
    <3> QED BY <1>1, <1>5, <2>2, <3>1, <3>2
  <2> QED BY <2>1, <2>2
<1> HIDE DEF d
<1>7. at = j + 1
  <2>1. j + 1 \in 1..Len(p) /\ j <= p[j + 1].x
    BY <1>1, <1>3, <1>5, <1>6
  <2>2. at \in 1..Len(p) /\ j <= p[at].x /\ \A h \in 1..(at - 1) : p[h].x < j
    BY <1>2, <1>4, <2>1, PlaceFound
  <2> HIDE DEF at
  <2>3. ~(at <= j)
    <3>1. ASSUME at <= j PROVE FALSE
      <4>1. p[at].x = at - 1
        BY <1>6, <2>2, <3>1
      <4> QED BY <2>2, <3>1, <4>1
    <3> QED BY <3>1
  <2>4. ~(j + 1 <= at - 1)
    <3>1. ASSUME j + 1 \in 1..(at - 1) PROVE FALSE
      <4>1. p[j + 1].x < j /\ p[j + 1].x \in Int
        BY <1>2, <2>1, <2>2, <3>1, PointTyped
      <4> QED BY <2>1, <4>1
    <3> QED BY <2>2, <3>1
  <2> QED BY <2>2, <2>3, <2>4
<1>8. GetYVal(given, at - 1, p) = given[j + 1] /\ GetYVal(given, (j + 1) - 1, p) = given[j + 1]
  BY <1>4, <1>7 DEF GetYVal
<1>9. q = IF p[at].x = xs[j + 1]
          THEN [p EXCEPT ![at].y = GetYVal(given, at - 1, p)]
          ELSE InsertAt(p, at, Point(xs[j + 1], GetYVal(given, (j + 1) - 1, p)))
  BY Zenon DEF Placed, PlaceFor
<1> HIDE DEF at
<1>10. e \in PlotPoint /\ e.x = j /\ e.y = given[j + 1] /\ e.n = 0
  BY <1>4, MergedPoint DEF PlotYs
<1>11. CASE j < d
  <2>1. by = j /\ p[j + 1].x # j
    BY <1>1, <1>3, <1>5, <1>6, <1>11
  <2>2. q = InsertAt(p, j + 1, e)
    BY <1>4, <1>7, <1>8, <1>9, <2>1
  <2> HIDE DEF q
  <2>3. InsertionOf(PlotPoint, q, p, j + 1, e)
    BY <1>2, <1>5, <1>10, <2>2, InsertedAt
  <2> HIDE DEF e
  <2>4. /\ q \in Seq(PlotPoint) /\ Len(q) = Len(p) + 1
        /\ \A k \in 1..Len(q) : q[k] = IF k < j + 1 THEN p[k] ELSE IF k = j + 1 THEN e ELSE p[k - 1]
    BY <2>3 DEF InsertionOf
  <2>5. Missing(pts, m, j + 1) = j + 1
    BY <1>1, <1>11 DEF Missing, d
  <2>6. ASSUME NEW k \in 1..Len(q)
        PROVE  q[k] = IF k <= j + 1 THEN Point(k - 1, given[k]) ELSE pts[k - (j + 1)]
    <3>1. q[k] = IF k < j + 1 THEN p[k] ELSE IF k = j + 1 THEN e ELSE p[k - 1]
      BY <2>4
    <3>2. CASE k < j + 1
      <4>1. k \in 1..Len(p) /\ k <= j /\ k <= j + 1
        BY <1>5, <3>2
      <4> QED BY <1>2, <3>1, <3>2, <4>1
    <3>3. CASE k = j + 1
      BY <3>1, <3>3 DEF e
    <3>4. CASE k > j + 1
      <4>1. k - 1 \in 1..Len(p) /\ ~(k - 1 <= j) /\ (k - 1) - by = k - (j + 1) /\ ~(k < j + 1)
            /\ k # j + 1 /\ ~(k <= j + 1)
        BY <1>5, <2>1, <2>4, <3>4
      <4>2. p[k - 1] = pts[(k - 1) - by]
        BY <1>2, <4>1
      <4> QED BY <3>1, <4>1, <4>2
    <3> QED BY <3>2, <3>3, <3>4
  <2>7. Replaced(q, pts, given, j + 1, j + 1)
    BY <2>6 DEF Replaced
  <2>8. Len(q) = Len(pts) + (j + 1)
    BY <1>2, <2>1, <2>4, <1>1
  <2>9. VectorStage(q, pts, m, given, j + 1)
    BY <2>4, <2>5, <2>7, <2>8 DEF VectorStage
  <2> QED BY <2>9 DEF q
<1>12. CASE ~(j < d)
  <2>1. by = d /\ p[j + 1].x = j /\ p[j + 1].n = 0
    <3>1. by = d /\ d \in Nat
      BY <1>1, <1>3, <1>12
    <3>2. p[j + 1].x = (IF j + 1 <= j THEN (j + 1) - 1 ELSE d + (j + 1) - by - 1) /\ p[j + 1].n = 0
      BY <1>5, <1>6
    <3> QED BY <3>1, <3>2
  <2>2. q = [p EXCEPT ![j + 1].y = given[j + 1]]
    BY <1>4, <1>7, <1>8, <1>9, <2>1
  <2>3. p[j + 1] \in PlotPoint
    BY <1>2, <1>5
  <2>4. [p[j + 1] EXCEPT !.y = given[j + 1]] = e
    BY <2>1, <2>3 DEF PlotPoint, Point, LivePoint
  <2>5. q = [p EXCEPT ![j + 1] = e]
    BY <2>2, <2>4
  <2> HIDE DEF q, e
  <2>6. /\ q \in Seq(PlotPoint) /\ Len(q) = Len(p) /\ q[j + 1] = e
        /\ \A k \in 1..Len(p) : k # j + 1 => q[k] = p[k]
    BY <1>2, <1>5, <1>10, <2>5
  <2>7. Missing(pts, m, j + 1) = by
    BY <1>1, <1>12, <2>1 DEF Missing, d
  <2>8. ASSUME NEW k \in 1..Len(q)
        PROVE  q[k] = IF k <= j + 1 THEN Point(k - 1, given[k]) ELSE pts[k - by]
    <3>1. CASE k = j + 1
      BY <2>6, <3>1 DEF e
    <3>2. CASE k # j + 1
      <4>1. q[k] = p[k] /\ k \in 1..Len(p) /\ (k <= j + 1 <=> k <= j)
        BY <1>5, <2>6, <3>2
      <4> QED BY <1>2, <4>1
    <3> QED BY <3>1, <3>2
  <2>9. Replaced(q, pts, given, j + 1, by)
    BY <2>8 DEF Replaced
  <2>10. VectorStage(q, pts, m, given, j + 1)
    BY <1>2, <2>6, <2>7, <2>9 DEF VectorStage
  <2> QED BY <2>10 DEF q
<1> QED BY <1>11, <1>12

\* The values of a vector at the indexes that the curve can have, one by one.
LEMMA AllIndexes ==
  ASSUME NEW m \in Nat, NEW pts, VectorOf(pts, m), NEW n \in Nat, NEW xs, IndexesOf(xs, n),
         NEW given \in [1..n -> PlotValues], NEW a \in Nat, a <= n, a <= m,
         NEW f, PlacesAlong(f, pts, xs, given, a), NEW j \in 0..a
  PROVE  VectorStage(f[j], pts, m, given, j)
<1> DEFINE bad == {i \in 0..a : ~VectorStage(f[i], pts, m, given, i)}
<1>1. /\ pts \in Seq(PlotPoint) /\ Len(pts) \in Nat /\ Len(pts) <= m
  BY VectorHeld
<1>2. ASSUME bad # {} PROVE FALSE
  <2>1. PICK b \in bad : \A i \in bad : b <= i
    <3>1. bad \in SUBSET Nat
      OBVIOUS
    <3> HIDE DEF bad
    <3> QED BY <1>2, <3>1, LeastNatural
  <2>2. b \in 0..a /\ ~VectorStage(f[b], pts, m, given, b)
    BY <2>1
  <2>3. f[b] = IF b = 0 THEN pts ELSE Placed(f[b - 1], xs, given, b)
    BY <2>2, Zenon DEF PlacesAlong
  <2>4. CASE b = 0
    <3>1. f[b] = pts /\ Missing(pts, m, 0) = 0
      BY <1>1, <2>3, <2>4 DEF Missing
    <3>2. Replaced(pts, pts, given, 0, 0)
      BY <1>1 DEF Replaced
    <3> QED BY <1>1, <2>2, <2>4, <3>1, <3>2 DEF VectorStage
  <2>5. CASE b # 0
    <3>1. b - 1 \in 0..a /\ b - 1 \in Nat /\ b - 1 < n /\ b - 1 < m /\ b - 1 \notin bad /\ (b - 1) + 1 = b
      <4> HIDE DEF bad
      <4> QED BY <2>1, <2>2, <2>5
    <3>2. VectorStage(f[b - 1], pts, m, given, b - 1)
      BY <3>1
    <3>3. VectorStage(Placed(f[b - 1], xs, given, (b - 1) + 1), pts, m, given, (b - 1) + 1)
      BY <3>1, <3>2, OneMoreIndex
    <3> QED BY <2>2, <2>3, <2>5, <3>1, <3>3
  <2> QED BY <2>4, <2>5
<1> QED BY <1>2

\* A vector merged with the curve: its values are the first.
VectorMerged(q, pts, m, given, n) ==
  /\ q \in Seq(PlotPoint)
  /\ Len(q) = IF n <= m THEN Len(pts) + Missing(pts, m, n) ELSE n
  /\ Replaced(q, pts, given, n, Missing(pts, m, n))

LEMMA MergedVector ==
  ASSUME NEW m \in Nat, NEW pts, VectorOf(pts, m), NEW n \in Nat, NEW xs, IndexesOf(xs, n),
         NEW given \in [1..n -> PlotValues]
  PROVE  VectorMerged(Merged(pts, xs, given), pts, m, given, n)
<1> DEFINE a == Cardinality(Amongst(pts, xs))
           q == Merged(pts, xs, given)
<1>1. /\ pts \in Seq(PlotPoint) /\ Len(pts) \in Nat /\ Len(pts) <= m /\ (m > 0 => Len(pts) > 0)
      /\ \A k \in 1..Len(pts) : pts[k].x = m - Len(pts) + k - 1
  BY VectorHeld
<1>2. /\ xs \in Seq(Int) /\ Len(xs) = n /\ (\A j \in 1..n : xs[j] = j - 1)
      /\ given \in Seq(PlotValues) /\ Len(given) = n
  BY DEF IndexesOf
<1>3. a \in 0..n /\ \A j \in 1..n : j <= a <=> j \in Amongst(pts, xs)
  <2>1. Ascending(xs)
    BY <1>2 DEF Ascending
  <2> QED BY <1>1, <1>2, <2>1, AmongstFirst
<1> HIDE DEF a
<1>4. \A j \in 1..n : j \in Amongst(pts, xs) <=> j <= m
  <2> SUFFICES ASSUME NEW j \in 1..n PROVE j \in Amongst(pts, xs) <=> j <= m
    OBVIOUS
  <2>1. j \in Amongst(pts, xs) <=> \E k \in 1..Len(pts) : j - 1 <= pts[k].x
    BY <1>2 DEF Amongst
  <2>2. ASSUME NEW k \in 1..Len(pts), j - 1 <= pts[k].x PROVE j <= m
    <3>1. pts[k].x = m - Len(pts) + k - 1
      BY <1>1
    <3> QED BY <1>1, <2>2, <3>1
  <2>3. ASSUME j <= m PROVE \E k \in 1..Len(pts) : j - 1 <= pts[k].x
    <3>1. Len(pts) \in 1..Len(pts)
      BY <1>1, <2>3
    <3>2. pts[Len(pts)].x = m - Len(pts) + Len(pts) - 1
      BY <1>1, <3>1
    <3> QED BY <1>1, <2>3, <3>1, <3>2
  <2> QED BY <2>1, <2>2, <2>3
<1>5. a \in Nat /\ a = IF n <= m THEN n ELSE m
  <2>1. \A j \in 1..n : j <= a <=> j <= m
    BY <1>3, <1>4
  <2>2. a \in Nat /\ a <= n
    BY <1>3
  <2>3. CASE n <= m
    <3>1. n = 0 \/ (n \in 1..n /\ n <= m)
      BY <2>3
    <3> QED BY <2>1, <2>2, <2>3, <3>1
  <2>4. CASE ~(n <= m)
    <3>1. m + 1 \in 1..n /\ (m = 0 \/ m \in 1..n)
      BY <2>4
    <3>2. ~(m + 1 <= a) /\ (m = 0 \/ m <= a)
      BY <2>1, <3>1
    <3> QED BY <2>2, <2>4, <3>2
  <2> QED BY <2>3, <2>4
<1>6. PICK f : PlacesAlong(f, pts, xs, given, a) /\ q = f[a] \o Beyond(f[a], xs, given, a)
  <2>1. a \in Nat /\ a = Cardinality(Amongst(pts, xs))
    BY <1>5 DEF a
  <2>2. \E f : MergedAlong(f, pts, xs, given, a)
    BY <2>1, MergedIs
  <2> QED BY <2>2 DEF MergedAlong
<1> DEFINE p == f[a]
           t == Beyond(p, xs, given, a)
<1>7. VectorStage(p, pts, m, given, a)
  <2>1. a <= n /\ a <= m /\ a \in 0..a
    BY <1>5
  <2> QED BY <1>5, <1>6, <2>1, AllIndexes
<1> HIDE DEF p, q
<1>8. /\ p \in Seq(PlotPoint) /\ Len(p) = Len(pts) + Missing(pts, m, a)
      /\ \A k \in 1..Len(p) : p[k] = IF k <= a THEN Point(k - 1, given[k]) ELSE pts[k - Missing(pts, m, a)]
  BY <1>7 DEF VectorStage, Replaced
<1>9. t \in Seq(PlotPoint) /\ Len(t) = n - a /\ \A j \in 1..(n - a) : t[j] = Point(a + j - 1, given[a + j])
  <2>1. n - a \in Nat
    BY <1>5
  <2>2. ASSUME NEW j \in 1..(n - a)
        PROVE  /\ Point(xs[a + j], GetYVal(given, a + j - 1, p)) = Point(a + j - 1, given[a + j])
               /\ Point(a + j - 1, given[a + j]) \in PlotPoint
    <3>1. a + j \in 1..n /\ a + j - 1 < Len(given) /\ (a + j - 1) + 1 = a + j /\ a + j - 1 \in Int
      BY <1>2, <1>5
    <3>2. xs[a + j] = a + j - 1 /\ GetYVal(given, a + j - 1, p) = given[a + j]
      BY <1>2, <3>1 DEF GetYVal
    <3> QED BY <3>1, <3>2, MergedPoint DEF PlotYs
  <2>3. t = [j \in 1..(n - a) |-> Point(xs[a + j], GetYVal(given, a + j - 1, p))]
    BY <1>2 DEF Beyond
  <2>4. t = [j \in 1..(n - a) |-> Point(a + j - 1, given[a + j])]
    BY <2>2, <2>3
  <2> HIDE DEF t
  <2>5. t \in [1..(n - a) -> PlotPoint]
    BY <2>2, <2>4
  <2>6. \A j \in 1..(n - a) : t[j] = Point(a + j - 1, given[a + j])
    BY <2>4, Zenon
  <2>7. t \in Seq(PlotPoint) /\ Len(t) = n - a
    BY <2>1, <2>5
  <2> QED BY <2>6, <2>7
<1> HIDE DEF t
<1>10. JoinOf(PlotPoint, q, p, t)
  BY <1>6, <1>8, <1>9, Concatenated DEF p, t
<1>11. /\ q \in Seq(PlotPoint) /\ Len(q) = Len(p) + (n - a)
       /\ \A k \in 1..Len(p) : q[k] = p[k]
       /\ \A j \in 1..(n - a) : q[Len(p) + j] = t[j]
  BY <1>9, <1>10 DEF JoinOf
<1>12. CASE n <= m
  <2>1. a = n /\ Len(p) \in Nat
    BY <1>5, <1>8, <1>12
  <2>2. Len(q) = Len(p)
    BY <1>11, <2>1
  <2>3. Replaced(q, pts, given, n, Missing(pts, m, n))
    BY <1>8, <1>11, <2>1, <2>2 DEF Replaced
  <2> QED BY <1>8, <1>11, <1>12, <2>1, <2>2, <2>3 DEF VectorMerged, q
<1>13. CASE ~(n <= m)
  <2>1. a = m /\ Len(p) = m
    BY <1>1, <1>5, <1>8, <1>13 DEF Missing
  <2>2. Len(q) = n
    BY <1>11, <1>13, <2>1
  <2>3. ASSUME NEW k \in 1..Len(q) PROVE q[k] = Point(k - 1, given[k]) /\ k <= n
    <3>1. CASE k <= m
      <4>1. k \in 1..Len(p) /\ k <= a
        BY <2>1, <3>1
      <4> QED BY <1>8, <1>11, <2>2, <4>1
    <3>2. CASE ~(k <= m)
      <4>1. PICK i \in 1..(n - a) : Len(p) + i = k /\ a + i = k
        <5>1. k - m \in 1..(n - a) /\ Len(p) + (k - m) = k /\ a + (k - m) = k
          BY <1>13, <2>1, <2>2, <3>2
        <5> QED BY <5>1
      <4>2. q[k] = t[i]
        BY <1>11, <4>1
      <4>3. t[i] = Point(a + i - 1, given[a + i]) /\ a + i - 1 = k - 1
        BY <1>5, <1>9, <4>1
      <4>4. q[k] = Point(k - 1, given[k])
        BY <4>1, <4>2, <4>3, Zenon
      <4> QED BY <2>2, <4>4
    <3> QED BY <3>1, <3>2
  <2>4. Replaced(q, pts, given, n, Missing(pts, m, n))
    BY <2>3 DEF Replaced
  <2> QED BY <1>11, <1>13, <2>2, <2>4 DEF VectorMerged, q
<1> QED BY <1>12, <1>13

\* The points of a curve after a vector of n values, the latest of m indexes
\* before: those of the vector, with its values, and those beyond it as they were.
VectorPoints(r, pts, given, n) ==
  \A k \in 1..Len(r) :
    \/ \E j \in 1..n : r[k] = Point(j - 1, given[j])
    \/ r[k].x >= n /\ \E i \in 1..Len(pts) : r[k] = pts[i]

LEMMA InsertedVector ==
  ASSUME NEW m \in Nat, NEW pts, VectorOf(pts, m), NEW n \in Nat, NEW xs, IndexesOf(xs, n),
         NEW given \in [1..n -> PlotValues], NEW top, top = IF n <= m THEN m ELSE n
  PROVE  /\ VectorOf(InsertData(pts, xs, given), top)
         /\ VectorPoints(InsertData(pts, xs, given), pts, given, n)
<1> DEFINE q == Merged(pts, xs, given)
           r == Latest(q, PlotBuffer)
           by == Missing(pts, m, n)
           d == m - Len(pts)
<1>1. /\ pts \in Seq(PlotPoint) /\ Len(pts) \in Nat /\ d \in Nat /\ Len(pts) = Held(m)
      /\ \A k \in 1..Len(pts) : pts[k].x = d + k - 1 /\ pts[k].n = 0
  <2>1. /\ pts \in Seq(PlotPoint) /\ Len(pts) \in Nat /\ Len(pts) <= m
        /\ \A k \in 1..Len(pts) : pts[k].x = m - Len(pts) + k - 1 /\ pts[k].n = 0
    BY VectorHeld
  <2>2. Len(pts) = Held(m)
    BY DEF VectorOf
  <2>3. d \in Nat /\ \A k \in 1..Len(pts) : m - Len(pts) + k - 1 = d + k - 1
    BY <2>1
  <2> QED BY <2>1, <2>2, <2>3
<1>2. VectorMerged(q, pts, m, given, n)
  BY MergedVector
<1> HIDE DEF q
<1>3. /\ q \in Seq(PlotPoint) /\ Len(q) = IF n <= m THEN Len(pts) + by ELSE n
      /\ \A k \in 1..Len(q) : q[k] = IF k <= n THEN Point(k - 1, given[k]) ELSE pts[k - by]
  BY <1>2 DEF VectorMerged, Replaced
<1>4. by = IF n <= d THEN n ELSE d
  BY DEF Missing
<1> HIDE DEF by
<1>5. ASSUME NEW k \in 1..Len(q)
      PROVE  \/ k <= n /\ q[k] = Point(k - 1, given[k]) /\ q[k].x = k - 1
             \/ /\ ~(k <= n) /\ n <= m /\ k - by \in 1..Len(pts) /\ q[k] = pts[k - by]
                /\ q[k].x = d + (k - by) - 1
  <2>1. CASE k <= n
    BY <1>3, <2>1 DEF Point, LivePoint
  <2>2. CASE ~(k <= n)
    <3>1. n <= m /\ k - by \in 1..Len(pts) /\ q[k] = pts[k - by]
      BY <1>1, <1>3, <1>4, <2>2
    <3>2. pts[k - by].x = d + (k - by) - 1
      BY <1>1, <3>1
    <3> QED BY <2>2, <3>1, <3>2
  <2> QED BY <2>1, <2>2
<1>6. Len(q) \in Nat /\ by \in Nat /\ by <= d /\ by <= n
  BY <1>1, <1>3, <1>4
<1> HIDE DEF d
<1>merged. \A k \in 1..Len(q) : q[k].n = 0
  <2>1. \A k \in 1..n : Point(k - 1, given[k]).n = 0
    BY DEF Point, LivePoint
  <2> QED BY <1>1, <1>5, <1>6, <2>1
<1>7. InOrder(q)
  <2> SUFFICES ASSUME NEW i \in 1..Len(q), NEW k \in 1..Len(q), i < k PROVE q[i].x < q[k].x
    BY <1>merged DEF InOrder, Before
  <2>1. q[i].x = i - 1 \/ (~(i <= n) /\ q[i].x = d + (i - by) - 1)
    BY <1>5
  <2>2. (k <= n /\ q[k].x = k - 1) \/ q[k].x = d + (k - by) - 1
    BY <1>5
  <2> QED BY <1>1, <1>6, <2>1, <2>2
<1>8. LatestOf(r, q, PlotBuffer)
  BY <1>3, <1>7, PlotAssumption, LatestKept
<1> HIDE DEF r
<1>9. /\ r \in Seq(PlotPoint) /\ PlotBuffer \in Int
      /\ Len(r) = IF PlotBuffer > 0 /\ Len(q) > PlotBuffer THEN PlotBuffer ELSE Len(q)
      /\ \A k \in 1..Len(r) : Len(q) - Len(r) + k \in 1..Len(q) /\ r[k] = q[Len(q) - Len(r) + k]
  BY <1>8, PlotAssumption DEF LatestOf
<1>10. Len(pts) = IF PlotBuffer <= 0 \/ m <= PlotBuffer THEN m ELSE PlotBuffer
  BY <1>1 DEF Held
<1>11. Len(r) \in Nat /\ Len(r) = Held(top) /\ d = m - Len(pts)
  <2>1. d = m - Len(pts)
    BY DEF d
  <2>2. Len(r) \in Nat
    BY <1>9
  <2>3. CASE n <= m
    <3>1. Len(q) = Len(pts) + by /\ top = m
      BY <1>3, <2>3
    <3> QED BY <1>1, <1>4, <1>6, <1>9, <1>10, <2>1, <2>2, <2>3, <3>1 DEF Held
  <2>4. CASE ~(n <= m)
    BY <1>3, <1>9, <2>1, <2>2, <2>4 DEF Held
  <2> QED BY <2>3, <2>4
<1>12. ASSUME NEW k \in 1..Len(r) PROVE r[k].x = top - Len(r) + k - 1
  <2> DEFINE h == Len(q) - Len(r) + k
  <2>1. h \in 1..Len(q) /\ r[k] = q[h]
    BY <1>9
  <2>2. CASE h <= n /\ q[h].x = h - 1
    <3>2. CASE ~(n <= m)
      BY <1>1, <1>3, <1>6, <1>11, <2>1, <2>2, <3>2
    <3>3. CASE n <= m
      <4>1. Len(q) = Len(pts) + by /\ top = m
        BY <1>3, <3>3
      <4>2. Len(q) = m
        <5>1. CASE n <= d
          <6>1. Len(q) = Len(pts) + n /\ (d = 0 \/ Len(r) = Len(pts))
            BY <1>1, <1>4, <1>9, <1>10, <1>11, <4>1, <5>1
          <6>2. d = 0 \/ h = n + k
            BY <1>1, <6>1
          <6>3. d = 0
            BY <1>11, <2>2, <6>2
          <6> QED BY <1>1, <1>4, <1>11, <4>1, <5>1, <6>3
        <5>2. CASE ~(n <= d)
          BY <1>1, <1>4, <1>11, <4>1, <5>2
        <5> QED BY <5>1, <5>2
      <4> QED BY <1>11, <2>1, <2>2, <4>1, <4>2
    <3> QED BY <3>2, <3>3
  <2>3. CASE n <= m /\ q[h].x = d + (h - by) - 1
    <3>1. Len(q) = Len(pts) + by /\ top = m
      BY <1>3, <2>3
    <3>2. h = Len(q) - Len(r) + k /\ h \in Nat
      BY <2>1
    <3> HIDE DEF h
    <3>3. d + (h - by) - 1 = top - Len(r) + k - 1
      <4>1. /\ Len(pts) \in Nat /\ d \in Nat /\ by \in Nat /\ Len(r) \in Nat /\ Len(q) \in Nat /\ k \in Nat
            /\ d = m - Len(pts)
        BY <1>1, <1>6, <1>11
      <4>2. h = Len(pts) + by - Len(r) + k /\ top = d + Len(pts)
        BY <3>1, <3>2, <4>1
      <4> QED BY <3>2, <4>1, <4>2
    <3> QED BY <2>1, <2>3, <3>3, Zenon
  <2> QED BY <1>5, <2>1, <2>2, <2>3
<1>13. VectorOf(r, top)
  <2>1. \A k \in 1..Len(r) : r[k].n = 0
    BY <1>9, <1>merged
  <2> QED BY <1>9, <1>11, <1>12, <2>1 DEF VectorOf
<1>14. VectorPoints(r, pts, given, n)
  <2> SUFFICES ASSUME NEW k \in 1..Len(r)
               PROVE  \/ \E j \in 1..n : r[k] = Point(j - 1, given[j])
                      \/ r[k].x >= n /\ \E i \in 1..Len(pts) : r[k] = pts[i]
    BY DEF VectorPoints
  <2>1. PICK h \in 1..Len(q) : r[k] = q[h]
    BY <1>9
  <2>2. CASE h <= n /\ q[h] = Point(h - 1, given[h])
    <3>1. h \in 1..n
      BY <1>6, <2>1, <2>2
    <3> QED BY <2>1, <2>2, <3>1
  <2>3. CASE ~(h <= n) /\ h - by \in 1..Len(pts) /\ q[h] = pts[h - by] /\ q[h].x = d + (h - by) - 1
    <3>1. q[h].x >= n
      BY <1>1, <1>6, <2>3
    <3> QED BY <2>1, <2>3, <3>1
  <2> QED BY <1>5, <2>1, <2>2, <2>3
<1> QED BY <1>13, <1>14 DEF InsertData, r, q

\* The indexes of a vector of m values; the highest are those shown.
VectorIds(m) == {<<x, 0>> : x \in 0..(m - 1)}
ShowsHighest(pts, ids) == \A i \in ids : i \in Ids(pts) \/ \A k \in 1..Len(pts) : i[1] < pts[k].x

LEMMA VectorIdsCounted ==
  ASSUME NEW m \in Nat
  PROVE  IsFiniteSet(VectorIds(m)) /\ Cardinality(VectorIds(m)) = m
<1> DEFINE f == [i \in 1..m |-> <<i - 1, 0>>]
<1>1. VectorIds(m) = {f[i] : i \in 1..m}
  <2>1. ASSUME NEW x \in 0..(m - 1) PROVE x + 1 \in 1..m /\ f[x + 1] = <<x, 0>>
    OBVIOUS
  <2>2. ASSUME NEW i \in 1..m PROVE i - 1 \in 0..(m - 1) /\ f[i] = <<i - 1, 0>>
    OBVIOUS
  <2> HIDE DEF f
  <2>3. VectorIds(m) \subseteq {f[i] : i \in 1..m}
    BY <2>1 DEF VectorIds
  <2>4. {f[i] : i \in 1..m} \subseteq VectorIds(m)
    BY <2>2 DEF VectorIds
  <2> QED BY <2>3, <2>4
<1>2. \A i, j \in 1..m : f[i] = f[j] => i = j
  <2> SUFFICES ASSUME NEW i \in 1..m, NEW j \in 1..m, f[i] = f[j] PROVE i = j
    OBVIOUS
  <2>1. i - 1 = j - 1
    OBVIOUS
  <2> QED BY <2>1
<1> HIDE DEF f
<1>3. EachOnce(VectorIds(m), f, m)
  BY <1>1, <1>2 DEF EachOnce
<1> QED BY <1>3, EachAtOnePlace

\* Such a curve shows the latest indexes.
LEMMA VectorShowsLatest ==
  ASSUME NEW m \in Nat, NEW pts, VectorOf(pts, m), NEW c \in Nat
  PROVE  ShowsLatest(pts, VectorIds(m), c) /\ ShowsHighest(pts, VectorIds(m))
<1>1. /\ pts \in Seq(PlotPoint) /\ Len(pts) \in Nat /\ Len(pts) <= m /\ (m > 0 => Len(pts) > 0)
      /\ Len(pts) = Held(m) /\ PlotBuffer \in Int
      /\ \A k \in 1..Len(pts) : pts[k].x = m - Len(pts) + k - 1 /\ pts[k].n = 0
  BY VectorHeld, PlotAssumption DEF VectorOf
<1>2. IsFiniteSet(VectorIds(m)) /\ Cardinality(VectorIds(m)) = m
  BY VectorIdsCounted
<1>3. InOrder(pts)
  <2> SUFFICES ASSUME NEW i \in 1..Len(pts), NEW k \in 1..Len(pts), i < k PROVE pts[i].x < pts[k].x
    BY <1>1 DEF InOrder, Before
  <2>1. pts[i].x = m - Len(pts) + i - 1 /\ pts[k].x = m - Len(pts) + k - 1
    BY <1>1
  <2> QED BY <1>1, <2>1
<1>4. Ids(pts) \subseteq VectorIds(m)
  <2> SUFFICES ASSUME NEW k \in 1..Len(pts) PROVE pts[k].x \in 0..(m - 1) /\ pts[k].n = 0
    BY DEF Ids, IdOf, VectorIds
  <2>1. pts[k].x = m - Len(pts) + k - 1 /\ pts[k].n = 0
    BY <1>1
  <2> QED BY <1>1, <2>1
<1>5. ASSUME NEW x \in 0..(m - 1), <<x, 0>> \notin Ids(pts), NEW k \in 1..Len(pts) PROVE x < pts[k].x
  <2>1. pts[k].x = m - Len(pts) + k - 1
    BY <1>1
  <2>2. CASE x >= m - Len(pts)
    <3> DEFINE i == x - (m - Len(pts)) + 1
    <3>1. i \in 1..Len(pts) /\ m - Len(pts) + i - 1 = x
      BY <1>1, <2>2
    <3> HIDE DEF i
    <3>2. pts[i].x = x /\ pts[i].n = 0
      BY <1>1, <3>1
    <3> QED BY <1>5, <3>1, <3>2 DEF Ids, IdOf
  <2>3. CASE ~(x >= m - Len(pts))
    BY <1>1, <2>1, <2>3
  <2> QED BY <2>2, <2>3
<1>6. AsManyAsHeld(pts, VectorIds(m))
  BY <1>1, <1>2 DEF Held, AsManyAsHeld
<1>7. NoGap(pts, c) /\ \A i \in VectorIds(m) : i[2] \in 0..c
  BY <1>1 DEF NoGap, VectorIds
<1>8. ShowsHighest(pts, VectorIds(m))
  BY <1>5 DEF ShowsHighest, VectorIds
<1> QED BY <1>1, <1>2, <1>3, <1>4, <1>6, <1>7, <1>8 DEF ShowsLatest

-----------------------------------------------------------------------------
(* The trend plot: answers of a database                                   *)

\* New instants in order join the curve, and the oldest points are dropped.
LEMMA InsertedNew ==
  ASSUME NEW pts, NEW ids, NEW c \in Nat, ShowsLatest(pts, ids, c),
         NEW xs, NEW given, AnswerWith(xs, given), NEW new, new = NewIds(xs, Len(xs)),
         \A j \in 1..Len(xs) : xs[j] \notin Instants(pts)
  PROVE  /\ ShowsLatest(InsertData(pts, xs, given), ids \union new, c)
         /\ PointsFrom(InsertData(pts, xs, given), pts, xs, given, Len(xs))
<1> DEFINE q == Merged(pts, xs, given)
           r == Latest(q, PlotBuffer)
<1>1. /\ pts \in Seq(PlotPoint) /\ InOrder(pts) /\ NoGap(pts, c)
  BY DEF ShowsLatest
<1>2. xs \in Seq(Int) /\ Len(xs) \in Nat
  BY DEF AnswerWith
<1>3. IsFiniteSet(new)
  <2>1. IsFiniteSet(1..Len(xs))
    BY <1>2, FS_Interval
  <2> DEFINE f == [i \in 1..Len(xs) |-> <<xs[i], 0>>]
  <2>2. f \in Surjection(1..Len(xs), new)
    BY DEF Surjection, NewIds
  <2> HIDE DEF f
  <2> QED BY <2>1, <2>2, FS_Surjection
<1>4. new \intersect Ids(pts) = {} /\ \A i \in new : i[2] = 0
  <2>1. ASSUME NEW i \in new PROVE i[1] \notin Instants(pts) /\ i[2] = 0
    BY DEF NewIds
  <2> QED BY <2>1, IdsOfPoints
<1>5. WithInstants(q, pts, xs, given, Len(xs))
  BY <1>1, MergedNew
<1> HIDE DEF q
<1>6. /\ q \in Seq(PlotPoint) /\ InOrder(q) /\ Ids(q) = Ids(pts) \union new
      /\ PointsFrom(q, pts, xs, given, Len(xs))
  BY <1>5 DEF WithInstants
<1>7. ShowsLatest(r, ids \union new, c)
  <2>1. NoGap(q, c)
    BY <1>1, <1>6, MergedNoGap
  <2> QED BY <1>3, <1>4, <1>6, <2>1, CutShowsLatest
<1>8. LatestOf(r, q, PlotBuffer)
  BY <1>6, PlotAssumption, LatestKept
<1> HIDE DEF r
<1>9. PointsFrom(r, pts, xs, given, Len(xs))
  <2> SUFFICES ASSUME NEW k \in 1..Len(r)
               PROVE  \/ \E i \in 1..Len(pts) : r[k] = pts[i]
                      \/ \E i \in 1..Len(xs) : r[k].x = xs[i] /\ r[k].n = 0 /\ (given # <<>> => r[k].y = given[i])
    BY DEF PointsFrom
  <2>1. PICK h \in 1..Len(q) : r[k] = q[h]
    BY <1>8 DEF LatestOf
  <2>2. \/ \E i \in 1..Len(pts) : q[h] = pts[i]
        \/ \E i \in 1..Len(xs) : q[h].x = xs[i] /\ q[h].n = 0 /\ (given # <<>> => q[h].y = given[i])
    BY <1>6 DEF PointsFrom
  <2> QED BY <2>1, <2>2
<1> QED BY <1>7, <1>9 DEF InsertData, r, q

-----------------------------------------------------------------------------
(* The trend plot: the invariant                                           *)

\* What was received, and the values of the points among those received.
IdsOf(rec) == {IdOf(p) : p \in rec}
AsReceived(pts, rec) ==
  \A k \in 1..Len(pts) : pts[k] \in rec \/ [pts[k] EXCEPT !.y = PlotGarbage] \in rec

\* The curve of a source shows what was received for it, with c live values.
VectorShown(pts, rec) ==
  \E m \in 0..MaxInstant : VectorOf(pts, m) /\ IdsOf(rec) = VectorIds(m)
Shown(s, pts, rec, c) ==
  /\ rec \subseteq PlotPoint /\ AsReceived(pts, rec)
  /\ s \in TimedSources => ShowsLatest(pts, IdsOf(rec), c)
  /\ s \in VectorSources => VectorShown(pts, rec)

PlotInv ==
  /\ curves \subseteq PlotSources
  /\ points \in [PlotSources -> Seq(PlotPoint)] /\ drawn = points
  /\ received \in [PlotSources -> SUBSET PlotPoint]
  /\ arrivals \in [PlotSources -> Nat]
  /\ \A s \in PlotSources : Shown(s, points[s], received[s], arrivals[s])

-----------------------------------------------------------------------------
(* The trend plot: the invariant is kept                                   *)

\* A source of which nothing was received.
LEMMA NothingShown ==
  ASSUME NEW s \in PlotSources
  PROVE  Shown(s, <<>>, {}, 0)
<1>1. VectorOf(<<>>, 0) /\ IdsOf({}) = VectorIds(0) /\ 0 \in 0..MaxInstant
  <2>1. Held(0) = 0
    BY PlotAssumption DEF Held
  <2>2. <<>> \in Seq(PlotPoint) /\ Len(<<>>) = 0
    OBVIOUS
  <2>3. VectorIds(0) = {}
    BY DEF VectorIds
  <2> QED BY <2>1, <2>2, <2>3, PlotAssumption DEF VectorOf, IdsOf
<1>2. ShowsLatest(<<>>, IdsOf({}), 0)
  BY <1>1, VectorShowsLatest
<1>3. VectorShown(<<>>, {})
  BY <1>1 DEF VectorShown
<1> QED BY <1>1, <1>2, <1>3 DEF Shown, AsReceived

\* The points shown are points.
LEMMA ShownTyped ==
  ASSUME NEW s \in PlotSources, NEW pts, NEW rec, NEW c, Shown(s, pts, rec, c)
  PROVE  pts \in Seq(PlotPoint) /\ rec \in SUBSET PlotPoint
BY DEF Shown, VectorShown, ShowsLatest, VectorOf, PlotSources

\* A source is updated: the plot has what it should have if the source has.
LEMMA UpdatedKeeps ==
  ASSUME PlotInv, NEW s \in PlotSources, Updates(s),
         NEW pts, NEW rec, NEW c \in Nat, Shown(s, pts, rec, c), UpdateRawData(s, pts),
         received' = [received EXCEPT ![s] = rec], arrivals' = [arrivals EXCEPT ![s] = c]
  PROVE  PlotInv'
<1>1. /\ points \in [PlotSources -> Seq(PlotPoint)] /\ drawn = points
      /\ received \in [PlotSources -> SUBSET PlotPoint] /\ arrivals \in [PlotSources -> Nat]
      /\ \A z \in PlotSources : Shown(z, points[z], received[z], arrivals[z])
  BY DEF PlotInv
<1>2. pts \in Seq(PlotPoint) /\ rec \in SUBSET PlotPoint
  BY ShownTyped
<1>3. points' = [points EXCEPT ![s] = pts] /\ drawn' = points'
  BY <1>1 DEF UpdateRawData
<1>4. /\ points' \in [PlotSources -> Seq(PlotPoint)]
      /\ received' \in [PlotSources -> SUBSET PlotPoint] /\ arrivals' \in [PlotSources -> Nat]
      /\ points'[s] = pts /\ received'[s] = rec /\ arrivals'[s] = c
      /\ \A z \in PlotSources \ {s} :
           points'[z] = points[z] /\ received'[z] = received[z] /\ arrivals'[z] = arrivals[z]
  BY <1>1, <1>2, <1>3
<1>5. ASSUME NEW z \in PlotSources PROVE Shown(z, points'[z], received'[z], arrivals'[z])
  <2>1. CASE z = s
    BY <1>4, <2>1
  <2>2. CASE z # s
    BY <1>1, <1>4, <2>2
  <2> QED BY <2>1, <2>2
<1>6. curves' \subseteq PlotSources
  BY DEF PlotInv, Updates
<1> QED BY <1>3, <1>4, <1>5, <1>6 DEF PlotInv

\* Sources are emptied.
LEMMA ForgetKeeps ==
  ASSUME PlotInv, NEW ss, Forget(ss), curves' \subseteq PlotSources
  PROVE  PlotInv'
<1>1. /\ points \in [PlotSources -> Seq(PlotPoint)] /\ drawn = points
      /\ received \in [PlotSources -> SUBSET PlotPoint] /\ arrivals \in [PlotSources -> Nat]
      /\ \A z \in PlotSources : Shown(z, points[z], received[z], arrivals[z])
  BY DEF PlotInv
<1>2. /\ points' = [z \in PlotSources |-> IF z \in ss THEN <<>> ELSE points[z]]
      /\ drawn' = points'
      /\ received' = [z \in PlotSources |-> IF z \in ss THEN {} ELSE received[z]]
      /\ arrivals' = [z \in PlotSources |-> IF z \in ss THEN 0 ELSE arrivals[z]]
  BY <1>1 DEF Forget, Emptied
<1>3. /\ points' \in [PlotSources -> Seq(PlotPoint)] /\ received' \in [PlotSources -> SUBSET PlotPoint]
      /\ arrivals' \in [PlotSources -> Nat]
  BY <1>1, <1>2
<1>4. ASSUME NEW z \in PlotSources PROVE Shown(z, points'[z], received'[z], arrivals'[z])
  <2>1. CASE z \in ss
    <3>1. points'[z] = <<>> /\ received'[z] = {} /\ arrivals'[z] = 0
      BY <1>2, <2>1
    <3> QED BY <3>1, NothingShown
  <2>2. CASE z \notin ss
    <3>1. points'[z] = points[z] /\ received'[z] = received[z] /\ arrivals'[z] = arrivals[z]
      BY <1>2, <2>2
    <3> QED BY <1>1, <3>1
  <2> QED BY <2>1, <2>2
<1> QED BY <1>2, <1>3, <1>4 DEF PlotInv

\* Sources are linked and left.
LEMMA SourcesKeep ==
  ASSUME PlotInv,
         \/ \E s \in PlotSources : PlotAddSource(s) \/ PlotUnsetSource(s) \/ UpdateProperty(s)
         \/ \E ss \in SUBSET PlotSources : PlotSetSources(SetToSeq(ss))
         \/ ClearPlot
  PROVE  PlotInv'
<1>1. curves \subseteq PlotSources
  BY DEF PlotInv
<1>2. ASSUME NEW s \in PlotSources, PlotAddSource(s) \/ UpdateProperty(s) PROVE PlotInv'
  <2>1. UNCHANGED <<points, drawn, arrivals, received>> /\ curves' \subseteq PlotSources
    BY <1>1, <1>2 DEF PlotAddSource, UpdateProperty, Updates
  <2> QED BY <2>1 DEF PlotInv
<1>3. ASSUME NEW s \in PlotSources, PlotUnsetSource(s) PROVE PlotInv'
  BY <1>1, <1>3, ForgetKeeps DEF PlotUnsetSource
<1>4. ASSUME NEW ss \in SUBSET PlotSources, PlotSetSources(SetToSeq(ss)) PROVE PlotInv'
  BY <1>1, <1>4, ForgetKeeps DEF PlotSetSources
<1>5. ASSUME ClearPlot PROVE PlotInv'
  BY <1>1, <1>5, ForgetKeeps DEF ClearPlot
<1> QED BY <1>2, <1>3, <1>4, <1>5

\* What was received, after the values merged at some instants were.
Noted(rec, new) == {p \in rec : p.n = 0 => p.x \notin {e.x : e \in new}} \union new
LEMMA NotedIds ==
  ASSUME NEW rec, NEW new, \A e \in new : e.n = 0
  PROVE  IdsOf(Noted(rec, new)) = IdsOf(rec) \union IdsOf(new)
<1>1. IdsOf(Noted(rec, new)) \subseteq IdsOf(rec) \union IdsOf(new)
  BY DEF Noted, IdsOf
<1>2. IdsOf(new) \subseteq IdsOf(Noted(rec, new))
  BY DEF Noted, IdsOf
<1>3. ASSUME NEW p \in rec PROVE IdOf(p) \in IdsOf(Noted(rec, new))
  <2>1. CASE p \in Noted(rec, new)
    BY <2>1 DEF IdsOf
  <2>2. CASE p \notin Noted(rec, new)
    <3>1. PICK e \in new : p.n = 0 /\ p.x = e.x
      BY <2>2 DEF Noted
    <3>2. IdOf(p) = IdOf(e)
      BY <3>1 DEF IdOf
    <3>3. e \in Noted(rec, new)
      BY DEF Noted
    <3> QED BY <3>2, <3>3 DEF IdsOf
  <2> QED BY <2>1, <2>2
<1>4. IdsOf(rec) \subseteq IdsOf(Noted(rec, new))
  BY <1>3 DEF IdsOf
<1> QED BY <1>1, <1>2, <1>4

LEMMA NoteIs ==
  ASSUME PlotInv, NEW s \in PlotSources, NEW new, Note(s, new)
  PROVE  received' = [received EXCEPT ![s] = Noted(received[s], new)] /\ arrivals' = [arrivals EXCEPT ![s] = arrivals[s]]
BY DEF Note, Noted, PlotInv

\* A point without its value is another of the same instant and number.
LEMMA WithoutValue ==
  ASSUME NEW p \in PlotPoint
  PROVE  /\ [p EXCEPT !.y = PlotGarbage].x = p.x /\ [p EXCEPT !.y = PlotGarbage].n = p.n
         /\ p.n = 0 => [p EXCEPT !.y = PlotGarbage] = Point(p.x, PlotGarbage)
BY DEF PlotPoint, Point, LivePoint

\* What a source shows, by the invariant.
LEMMA SourceShown ==
  ASSUME PlotInv, NEW s \in PlotSources
  PROVE  /\ Shown(s, points[s], received[s], arrivals[s])
         /\ points[s] \in Seq(PlotPoint) /\ received[s] \in SUBSET PlotPoint
         /\ arrivals[s] \in Nat /\ MaxInstant \in Nat
BY PlotAssumption DEF PlotInv

\* A live value, of any instant.
LEMMA ScalarKeeps ==
  ASSUME ~VectorErrors, PlotInv, NEW s \in PlotSources, NEW x \in 0..MaxInstant, UpdateScalar(s, x)
  PROVE  PlotInv'
<1> DEFINE pts == points[s]
           rec == received[s]
           c == arrivals[s]
           last == IF pts = <<>> THEN DefaultY ELSE Last(pts).y
<1>1. /\ Shown(s, pts, rec, c) /\ pts \in Seq(PlotPoint) /\ rec \in SUBSET PlotPoint
      /\ c \in Nat /\ MaxInstant \in Nat
  BY SourceShown
<1>2. PICK y \in PlotValues \union {last} :
        /\ UpdateRawData(s, AppendData(pts, LivePoint(x, y, c + 1)))
        /\ received' = [received EXCEPT ![s] = @ \union {LivePoint(x, y, c + 1)}]
        /\ arrivals' = [arrivals EXCEPT ![s] = c + 1]
  BY Zenon DEF UpdateScalar
<1>3. Updates(s) /\ s \in TimedSources
  BY DEF UpdateScalar
<1> DEFINE e == LivePoint(x, y, c + 1)
           q == AppendData(pts, e)
           all == rec \union {e}
<1>4. received' = [received EXCEPT ![s] = all] /\ UpdateRawData(s, q) /\ arrivals' = [arrivals EXCEPT ![s] = c + 1]
  <2>1. received \in [PlotSources -> SUBSET PlotPoint]
    BY DEF PlotInv
  <2> QED BY <1>2, <2>1
<1> HIDE DEF pts, rec, c
<1>5. y \in PlotYs
  <2>1. last \in PlotYs
    <3>1. CASE pts = <<>>
      BY <3>1 DEF PlotYs
    <3>2. CASE pts # <<>>
      <4>1. Len(pts) \in 1..Len(pts) /\ Last(pts) = pts[Len(pts)]
        BY <1>1, <3>2 DEF Last
      <4>2. Last(pts).y \in PlotYs
        BY <1>1, <4>1, PointTyped
      <4> QED BY <3>2, <4>2
    <3> QED BY <3>1, <3>2
  <2> HIDE DEF last
  <2> QED BY <1>2, <2>1 DEF PlotYs
<1> HIDE DEF last
<1>6. e \in PlotPoint /\ e.n = c + 1
  <2>1. x \in Int /\ c + 1 \in Nat
    BY <1>1
  <2> QED BY <1>5, <2>1, LivePointTyped DEF LivePoint
<1>7. ShowsLatest(pts, IdsOf(rec), c) /\ AsReceived(pts, rec)
  BY <1>1, <1>3 DEF Shown
<1> HIDE DEF e
<1>8. ShowsLatest(q, IdsOf(rec) \union {IdOf(e)}, c + 1) /\ OneMoreThan(q, pts, e)
  BY <1>1, <1>6, <1>7, AppendShowsLatest
<1> HIDE DEF q
<1>9. IdsOf(all) = IdsOf(rec) \union {IdOf(e)}
  BY DEF IdsOf
<1>10. AsReceived(q, all)
  BY <1>7, <1>8 DEF AsReceived, OneMoreThan
<1>11. Shown(s, q, all, c + 1)
  <2>1. s \notin VectorSources
    BY <1>3, PlotAssumption
  <2>2. all \subseteq PlotPoint
    BY <1>1, <1>6
  <2> HIDE DEF all
  <2> QED BY <1>8, <1>9, <1>10, <2>1, <2>2 DEF Shown
<1>12. c + 1 \in Nat
  BY <1>1
<1> QED BY <1>3, <1>4, <1>11, <1>12, UpdatedKeeps

\* A vector without a time scale.
LEMMA VectorKeeps ==
  ASSUME PlotInv, NEW s \in PlotSources, NEW n \in 1..MaxInstant, UpdateVector(s, n)
  PROVE  PlotInv'
<1> DEFINE pts == points[s]
           rec == received[s]
           xs == [j \in 1..n |-> j - 1]
<1>1. /\ Shown(s, pts, rec, arrivals[s]) /\ pts \in Seq(PlotPoint) /\ rec \in SUBSET PlotPoint
      /\ arrivals[s] \in Nat /\ MaxInstant \in Nat
  BY SourceShown
<1>2. Updates(s) /\ s \in VectorSources
  BY DEF UpdateVector
<1>3. PICK given \in [1..n -> PlotValues] :
        /\ UpdateRawData(s, InsertData(pts, xs, given))
        /\ Note(s, {Point(xs[j], given[j]) : j \in 1..n})
  BY Zenon DEF UpdateVector
<1> HIDE DEF pts, rec
<1>4. n \in Nat /\ IndexesOf(xs, n)
  BY DEF IndexesOf
<1> DEFINE new == {Point(xs[j], given[j]) : j \in 1..n}
           q == InsertData(pts, xs, given)
           all == Noted(rec, new)
<1>5. new = {Point(j - 1, given[j]) : j \in 1..n}
  OBVIOUS
<1>6. PICK m \in 0..MaxInstant : VectorOf(pts, m) /\ IdsOf(rec) = VectorIds(m)
  BY <1>1, <1>2 DEF Shown, VectorShown
<1> DEFINE top == IF n <= m THEN m ELSE n
<1> HIDE DEF xs
<1>7. VectorOf(q, top) /\ VectorPoints(q, pts, given, n)
  <2>1. m \in Nat
    BY <1>1
  <2> QED BY <1>4, <1>6, <2>1, InsertedVector
<1>8. new \subseteq PlotPoint /\ \A e \in new : e.n = 0
  <2>1. \A j \in 1..n : Point(j - 1, given[j]) \in PlotPoint /\ Point(j - 1, given[j]).n = 0
    BY MergedPoint DEF PlotYs
  <2> QED BY <1>5, <2>1
<1>9. IdsOf(new) = VectorIds(n)
  <2>1. ASSUME NEW x \in 0..(n - 1) PROVE <<x, 0>> \in IdsOf(new)
    <3>1. x + 1 \in 1..n /\ (x + 1) - 1 = x
      BY <1>4
    <3>2. Point((x + 1) - 1, given[x + 1]) \in new
      BY <1>5, <3>1
    <3>3. IdOf(Point((x + 1) - 1, given[x + 1])) = <<x, 0>>
      BY <3>1 DEF Point, LivePoint, IdOf
    <3> HIDE DEF new
    <3> QED BY <3>2, <3>3 DEF IdsOf
  <2>2. ASSUME NEW p \in new PROVE IdOf(p) \in VectorIds(n)
    <3>1. PICK j \in 1..n : p = Point(j - 1, given[j])
      BY <1>5
    <3>2. IdOf(p) = <<j - 1, 0>> /\ j - 1 \in 0..(n - 1)
      BY <1>4, <3>1 DEF Point, LivePoint, IdOf
    <3> QED BY <3>2 DEF VectorIds
  <2> HIDE DEF new
  <2>3. VectorIds(n) \subseteq IdsOf(new)
    BY <2>1 DEF VectorIds
  <2>4. IdsOf(new) \subseteq VectorIds(n)
    BY <2>2 DEF IdsOf
  <2> QED BY <2>3, <2>4
<1> HIDE DEF q
<1>10. IdsOf(all) = VectorIds(top) /\ top \in 0..MaxInstant
  <2>1. IdsOf(all) = VectorIds(m) \union VectorIds(n)
    <3> HIDE DEF new
    <3> QED BY <1>6, <1>8, <1>9, NotedIds
  <2>2. 0..(m - 1) \union 0..(n - 1) = 0..(top - 1) /\ top \in 0..MaxInstant
    BY <1>1, <1>4
  <2> HIDE DEF all, top
  <2>3. VectorIds(m) \union VectorIds(n) = VectorIds(top)
    BY <2>2 DEF VectorIds
  <2> QED BY <2>1, <2>2, <2>3
<1>11. AsReceived(q, all)
  <2> SUFFICES ASSUME NEW k \in 1..Len(q) PROVE q[k] \in all \/ [q[k] EXCEPT !.y = PlotGarbage] \in all
    BY DEF AsReceived
  <2>1. CASE \E j \in 1..n : q[k] = Point(j - 1, given[j])
    BY <1>5, <2>1 DEF Noted
  <2>2. CASE q[k].x >= n /\ \E i \in 1..Len(pts) : q[k] = pts[i]
    <3>1. q[k] \in rec \/ [q[k] EXCEPT !.y = PlotGarbage] \in rec
      BY <1>1, <2>2 DEF Shown, AsReceived
    <3>2. \A e \in new : e.x # q[k].x
      <4>1. \A e \in new : e.x \in 0..(n - 1)
        <5> SUFFICES ASSUME NEW e \in new PROVE e.x \in 0..(n - 1)
          OBVIOUS
        <5>1. IdOf(e) \in VectorIds(n)
          <6> HIDE DEF new
          <6> QED BY <1>9 DEF IdsOf
        <5> QED BY <5>1 DEF VectorIds, IdOf
      <4>2. \A z \in 0..(n - 1) : ~(z >= n)
        BY <1>4
      <4> HIDE DEF new
      <4> QED BY <2>2, <4>1, <4>2
    <3>3. \A p \in rec : p.x = q[k].x => p \in all
      <4> HIDE DEF new
      <4> QED BY <3>2 DEF Noted
    <3>4. [q[k] EXCEPT !.y = PlotGarbage].x = q[k].x
      <4>1. q[k] \in PlotPoint
        BY <1>1, <2>2
      <4> QED BY <4>1, WithoutValue
    <3> HIDE DEF all
    <3> QED BY <3>1, <3>3, <3>4
  <2> QED BY <1>7, <2>1, <2>2 DEF VectorPoints
<1>12. all \subseteq PlotPoint
  BY <1>1, <1>8 DEF Noted
<1> HIDE DEF top
<1>13. VectorShown(q, all)
  BY <1>7, <1>10 DEF VectorShown
<1>14. /\ received' = [received EXCEPT ![s] = all] /\ UpdateRawData(s, q)
       /\ arrivals' = [arrivals EXCEPT ![s] = arrivals[s]]
  BY <1>3, NoteIs DEF rec, pts, xs, q
<1> HIDE DEF all
<1>15. Shown(s, q, all, arrivals[s])
  <2>1. s \notin TimedSources
    BY <1>2, PlotAssumption
  <2> QED BY <1>11, <1>12, <1>13, <2>1 DEF Shown
<1> QED BY <1>1, <1>2, <1>14, <1>15, UpdatedKeeps

\* The instants of an answer are a sequence in order.
LEMMA PastInOrder ==
  ASSUME NEW xs \in Past
  PROVE  /\ xs \in Seq(Int) /\ Ascending(xs) /\ DOMAIN xs = 1..Len(xs) /\ Len(xs) \in Nat
         /\ Range(xs) = {xs[i] : i \in 1..Len(xs)} /\ Range(xs) \subseteq Int
<1>1. PICK n \in 0..MaxInstant : /\ xs \in [1..n -> 1..MaxInstant]
                                 /\ \A i, j \in 1..n : i < j => xs[i] < xs[j]
  BY DEF Past
<1>2. xs \in Seq(Int) /\ Len(xs) = n /\ n \in Nat /\ DOMAIN xs = 1..n
  BY <1>1
<1>3. Range(xs) = {xs[i] : i \in 1..n} /\ Range(xs) \subseteq Int
  BY <1>1, <1>2 DEF Range
<1> QED BY <1>1, <1>2, <1>3 DEF Ascending

\* An answer of the database and its notes, of instants that the curve does not have.
LEMMA HistoryKeeps ==
  ASSUME ~RepeatedInstants, PlotInv, NEW s \in PlotSources, NEW xs \in Past, NEW ns \in Past,
         UpdateHistory(s, xs, ns)
  PROVE  PlotInv'
<1> DEFINE pts == points[s]
           rec == received[s]
<1>1. /\ Shown(s, pts, rec, arrivals[s]) /\ pts \in Seq(PlotPoint) /\ rec \in SUBSET PlotPoint
      /\ arrivals[s] \in Nat /\ MaxInstant \in Nat
  BY SourceShown
<1>2. /\ Updates(s) /\ s \in TimedSources
      /\ Range(xs) \intersect Range(ns) = {}
      /\ Instants(pts) \intersect (Range(xs) \union Range(ns)) = {}
  BY DEF UpdateHistory
<1>3. PICK given \in [1..Len(xs) -> PlotValues] :
        /\ UpdateRawData(s, InsertData(InsertData(pts, xs, given), ns, <<>>))
        /\ Note(s, {Point(xs[j], given[j]) : j \in DOMAIN xs} \union
                   {Point(x, PlotGarbage) : x \in Range(ns)})
  BY Zenon DEF UpdateHistory
<1> HIDE DEF pts, rec
<1>4. /\ xs \in Seq(Int) /\ Ascending(xs) /\ DOMAIN xs = 1..Len(xs) /\ Len(xs) \in Nat
      /\ Range(xs) = {xs[i] : i \in 1..Len(xs)} /\ Range(xs) \subseteq Int
  BY PastInOrder
<1>5. /\ ns \in Seq(Int) /\ Ascending(ns) /\ DOMAIN ns = 1..Len(ns) /\ Len(ns) \in Nat
      /\ Range(ns) = {ns[i] : i \in 1..Len(ns)} /\ Range(ns) \subseteq Int
  BY PastInOrder
<1>6. /\ rec \subseteq PlotPoint /\ AsReceived(pts, rec)
      /\ ShowsLatest(pts, IdsOf(rec), arrivals[s])
  BY <1>1, <1>2 DEF Shown
<1>7. /\ \A j \in 1..Len(xs) : xs[j] \notin Instants(pts)
      /\ \A j \in 1..Len(ns) : ns[j] \notin Instants(pts) /\ ns[j] \notin Range(xs)
  BY <1>2, <1>4, <1>5
<1>8. AnswerWith(xs, given) /\ AnswerWith(ns, <<>>)
  <2>1. given \in Seq(PlotValues) /\ Len(given) = Len(xs)
    BY <1>4
  <2>2. <<>> \in Seq(PlotValues)
    OBVIOUS
  <2> QED BY <1>4, <1>5, <2>1, <2>2 DEF AnswerWith
<1> DEFINE p1 == InsertData(pts, xs, given)
           q == InsertData(p1, ns, <<>>)
           values == {Point(xs[j], given[j]) : j \in DOMAIN xs}
           notes == {Point(x, PlotGarbage) : x \in Range(ns)}
           new == values \union notes
           all == Noted(rec, new)
<1>9. /\ ShowsLatest(p1, IdsOf(rec) \union NewIds(xs, Len(xs)), arrivals[s])
      /\ PointsFrom(p1, pts, xs, given, Len(xs))
  BY <1>1, <1>6, <1>7, <1>8, InsertedNew
<1> HIDE DEF p1
<1>10. /\ ShowsLatest(q, (IdsOf(rec) \union NewIds(xs, Len(xs))) \union NewIds(ns, Len(ns)), arrivals[s])
       /\ PointsFrom(q, p1, ns, <<>>, Len(ns))
  <2>1. ASSUME NEW j \in 1..Len(ns), NEW k \in 1..Len(p1) PROVE p1[k].x # ns[j]
    <3>1. CASE \E i \in 1..Len(pts) : p1[k] = pts[i]
      BY <1>7, <3>1 DEF Instants
    <3>2. CASE \E i \in 1..Len(xs) : p1[k].x = xs[i]
      BY <1>4, <1>7, <3>2
    <3> QED BY <1>9, <3>1, <3>2 DEF PointsFrom
  <2>2. \A j \in 1..Len(ns) : ns[j] \notin Instants(p1)
    BY <2>1 DEF Instants
  <2> QED BY <1>1, <1>8, <1>9, <2>2, InsertedNew
<1>11. /\ received' = [received EXCEPT ![s] = all] /\ UpdateRawData(s, q)
       /\ arrivals' = [arrivals EXCEPT ![s] = arrivals[s]]
  BY <1>3, NoteIs DEF rec, pts, p1
<1> HIDE DEF q
<1>12. /\ values \subseteq PlotPoint /\ IdsOf(values) = NewIds(xs, Len(xs))
       /\ \A e \in values : e.n = 0 /\ e.x \in Range(xs)
  <2>1. \A j \in 1..Len(xs) :
          /\ Point(xs[j], given[j]) \in PlotPoint
          /\ Point(xs[j], given[j]).x = xs[j] /\ Point(xs[j], given[j]).n = 0
    <3> SUFFICES ASSUME NEW j \in 1..Len(xs)
                 PROVE  /\ Point(xs[j], given[j]) \in PlotPoint
                        /\ Point(xs[j], given[j]).x = xs[j] /\ Point(xs[j], given[j]).n = 0
      OBVIOUS
    <3>1. xs[j] \in Int /\ given[j] \in PlotYs
      BY <1>4 DEF PlotYs
    <3> QED BY <3>1, MergedPoint
  <2>2. values = {Point(xs[j], given[j]) : j \in 1..Len(xs)}
    BY <1>4
  <2> HIDE DEF values
  <2>3. values \subseteq PlotPoint /\ \A e \in values : e.n = 0 /\ e.x \in Range(xs)
    BY <1>4, <2>1, <2>2
  <2>4. IdsOf(values) = NewIds(xs, Len(xs))
    BY <2>1, <2>2 DEF IdsOf, IdOf, NewIds
  <2> QED BY <2>3, <2>4
<1>13. /\ notes \subseteq PlotPoint /\ IdsOf(notes) = NewIds(ns, Len(ns))
       /\ \A e \in notes : e.n = 0 /\ e.x \in Range(ns)
  <2>1. \A x \in Range(ns) :
          /\ Point(x, PlotGarbage) \in PlotPoint
          /\ Point(x, PlotGarbage).x = x /\ Point(x, PlotGarbage).n = 0
    BY <1>5, MergedPoint DEF PlotYs
  <2>2. notes \subseteq PlotPoint /\ \A e \in notes : e.n = 0 /\ e.x \in Range(ns)
    BY <2>1
  <2>3. IdsOf(notes) = {<<x, 0>> : x \in Range(ns)}
    BY <2>1 DEF IdsOf, IdOf
  <2>4. {<<x, 0>> : x \in Range(ns)} = NewIds(ns, Len(ns))
    BY <1>5 DEF NewIds
  <2> QED BY <2>2, <2>3, <2>4
<1>14. \A j \in 1..Len(xs) : Point(xs[j], given[j]) \in values
  BY <1>4
<1>15. \A j \in 1..Len(ns) : Point(ns[j], PlotGarbage) \in notes
  BY <1>5
<1> HIDE DEF values, notes
<1>16. /\ new \subseteq PlotPoint /\ IdsOf(new) = NewIds(xs, Len(xs)) \union NewIds(ns, Len(ns))
       /\ \A e \in new : e.n = 0 /\ e.x \in Range(xs) \union Range(ns)
  <2>1. IdsOf(new) = IdsOf(values) \union IdsOf(notes)
    BY DEF IdsOf
  <2> QED BY <1>12, <1>13, <2>1
<1>17. values \subseteq all /\ notes \subseteq all
  BY DEF Noted
<1> HIDE DEF new
<1>18. IdsOf(all) = (IdsOf(rec) \union NewIds(xs, Len(xs))) \union NewIds(ns, Len(ns))
  <2>1. IdsOf(all) = IdsOf(rec) \union IdsOf(new)
    BY <1>16, NotedIds
  <2> QED BY <1>16, <2>1
<1>19. \A p \in rec : p.x \in Instants(pts) => p \in all
  BY <1>2, <1>16 DEF Noted
<1>20. all \subseteq PlotPoint
  BY <1>6, <1>16 DEF Noted
<1> HIDE DEF all
<1>21. \A k \in 1..Len(p1) : p1[k] \in all \/ [p1[k] EXCEPT !.y = PlotGarbage] \in all
  <2> SUFFICES ASSUME NEW k \in 1..Len(p1) PROVE p1[k] \in all \/ [p1[k] EXCEPT !.y = PlotGarbage] \in all
    OBVIOUS
  <2>1. ASSUME NEW i \in 1..Len(pts), p1[k] = pts[i]
        PROVE  p1[k] \in all \/ [p1[k] EXCEPT !.y = PlotGarbage] \in all
    <3>1. pts[i] \in rec \/ [pts[i] EXCEPT !.y = PlotGarbage] \in rec
      BY <1>6 DEF AsReceived
    <3>2. pts[i] \in PlotPoint /\ pts[i].x \in Instants(pts)
      BY <1>1 DEF Instants
    <3>3. [pts[i] EXCEPT !.y = PlotGarbage].x \in Instants(pts)
      BY <3>2, WithoutValue
    <3> QED BY <1>19, <2>1, <3>1, <3>2, <3>3
  <2>2. ASSUME NEW i \in 1..Len(xs), p1[k].x = xs[i], p1[k].n = 0, given # <<>> => p1[k].y = given[i]
        PROVE  p1[k] \in all
    <3>1. given # <<>>
      BY <1>4
    <3>2. p1[k] \in PlotPoint
      BY <1>9 DEF ShowsLatest
    <3>3. p1[k] = Point(xs[i], given[i])
      BY <2>2, <3>1, <3>2 DEF PlotPoint, Point, LivePoint
    <3> QED BY <1>14, <1>17, <3>3
  <2> QED BY <1>9, <2>1, <2>2 DEF PointsFrom
<1>22. AsReceived(q, all)
  <2> SUFFICES ASSUME NEW k \in 1..Len(q) PROVE q[k] \in all \/ [q[k] EXCEPT !.y = PlotGarbage] \in all
    BY DEF AsReceived
  <2>1. CASE \E i \in 1..Len(p1) : q[k] = p1[i]
    BY <1>21, <2>1
  <2>2. ASSUME NEW i \in 1..Len(ns), q[k].x = ns[i], q[k].n = 0
        PROVE  [q[k] EXCEPT !.y = PlotGarbage] \in all
    <3>1. q[k] \in PlotPoint
      BY <1>10 DEF ShowsLatest
    <3>2. [q[k] EXCEPT !.y = PlotGarbage] = Point(ns[i], PlotGarbage)
      BY <2>2, <3>1, WithoutValue
    <3> QED BY <1>15, <1>17, <3>2
  <2> QED BY <1>10, <2>1, <2>2 DEF PointsFrom
<1>23. Shown(s, q, all, arrivals[s])
  <2>1. s \notin VectorSources
    BY <1>2, PlotAssumption
  <2> QED BY <1>10, <1>18, <1>20, <1>22, <2>1 DEF Shown
<1> QED BY <1>1, <1>2, <1>11, <1>23, UpdatedKeeps

-----------------------------------------------------------------------------
(* The trend plot: the theorem                                             *)

LEMMA PlotInvInit == InitPlot => PlotInv
<1> SUFFICES ASSUME InitPlot PROVE PlotInv
  OBVIOUS
<1>1. /\ curves = {} /\ drawn = points /\ points = [s \in PlotSources |-> <<>>]
      /\ received = [s \in PlotSources |-> {}] /\ arrivals = [s \in PlotSources |-> 0]
  BY DEF InitPlot
<1>2. \A s \in PlotSources : Shown(s, points[s], received[s], arrivals[s])
  BY <1>1, NothingShown
<1>3. /\ points \in [PlotSources -> Seq(PlotPoint)] /\ received \in [PlotSources -> SUBSET PlotPoint]
      /\ arrivals \in [PlotSources -> Nat]
  BY <1>1
<1> QED BY <1>1, <1>2, <1>3 DEF PlotInv

LEMMA PlotInvInductive ==
  ASSUME ~RepeatedInstants, ~VectorErrors
  PROVE  PlotInv /\ [NextPlot]_plotVars => PlotInv'
<1> SUFFICES ASSUME PlotInv, [NextPlot]_plotVars PROVE PlotInv'
  OBVIOUS
<1>1. CASE \/ \E s \in PlotSources : PlotAddSource(s) \/ PlotUnsetSource(s) \/ UpdateProperty(s)
           \/ \E ss \in SUBSET PlotSources : PlotSetSources(SetToSeq(ss))
           \/ ClearPlot
  BY <1>1, SourcesKeep
<1>2. ASSUME NEW s \in PlotSources, NEW x \in 0..MaxInstant, UpdateScalar(s, x) PROVE PlotInv'
  BY <1>2, ScalarKeeps
<1>3. ASSUME NEW s \in PlotSources, NEW xs \in Past, NEW ns \in Past, UpdateHistory(s, xs, ns) PROVE PlotInv'
  BY <1>3, HistoryKeeps
<1>4. ASSUME NEW s \in PlotSources, NEW n \in 1..MaxInstant, UpdateVector(s, n) PROVE PlotInv'
  BY <1>4, VectorKeeps
<1>5. CASE UNCHANGED plotVars
  BY <1>5 DEF plotVars, PlotInv
<1> QED BY <1>1, <1>2, <1>3, <1>4, <1>5 DEF NextPlot

LEMMA InvShows == PlotInv => PlotShowsLatest
<1> SUFFICES ASSUME PlotInv PROVE PlotShowsLatest
  OBVIOUS
<1> SUFFICES ASSUME NEW s \in curves, NEW pts, pts = drawn[s], NEW rec, rec = received[s],
                    NEW c, c = arrivals[s], NEW ids, ids = IdsOf(rec)
             PROVE  /\ \A h, k \in 1..Len(pts) :
                         h < k => IF pts[k].n = 0 THEN pts[h].x < pts[k].x ELSE pts[h].n < pts[k].n
                    /\ \A k \in 1..Len(pts) : pts[k].n > 0 =>
                         \A n \in pts[k].n..c : \E h \in 1..Len(pts) : pts[h].n = n
                    /\ IF PlotBuffer <= 0 \/ Cardinality(ids) <= PlotBuffer
                       THEN Len(pts) = Cardinality(ids)
                       ELSE Len(pts) \in {PlotBuffer, PlotBuffer + 1}
                    /\ \A k \in 1..Len(pts) :
                         pts[k] \in rec \/ [pts[k] EXCEPT !.y = PlotGarbage] \in rec
                    /\ s \in VectorSources => \A p \in rec :
                         \/ \E k \in 1..Len(pts) : pts[k].x = p.x /\ pts[k].n = p.n
                         \/ \A k \in 1..Len(pts) : p.x < pts[k].x
  BY Zenon DEF PlotShowsLatest, IdsOf, IdOf
<1>1. /\ s \in PlotSources /\ Shown(s, pts, rec, c) /\ c \in Nat
  BY DEF PlotInv
<1>2. CASE s \in TimedSources
  <2>1. ShowsLatest(pts, ids, c) /\ AsReceived(pts, rec) /\ s \notin VectorSources
    BY <1>1, <1>2, PlotAssumption DEF Shown
  <2> QED BY <2>1 DEF ShowsLatest, AsManyAsHeld, InOrder, Before, NoGap, AsReceived
<1>3. CASE s \in VectorSources
  <2>1. PICK m \in 0..MaxInstant : VectorOf(pts, m) /\ IdsOf(rec) = VectorIds(m)
    BY <1>1, <1>3 DEF Shown, VectorShown
  <2>2. m \in Nat
    BY PlotAssumption
  <2>3. ShowsLatest(pts, ids, c) /\ ShowsHighest(pts, ids)
    BY <1>1, <2>1, <2>2, VectorShowsLatest
  <2>4. ASSUME NEW p \in rec
        PROVE  \/ \E k \in 1..Len(pts) : pts[k].x = p.x /\ pts[k].n = p.n
               \/ \A k \in 1..Len(pts) : p.x < pts[k].x
    <3>1. IdOf(p) \in Ids(pts) \/ \A k \in 1..Len(pts) : IdOf(p)[1] < pts[k].x
      BY <2>3 DEF ShowsHighest, IdsOf
    <3> QED BY <3>1 DEF Ids, IdOf
  <2> QED BY <1>1, <2>3, <2>4 DEF Shown, ShowsLatest, AsManyAsHeld, InOrder, Before, NoGap, AsReceived
<1> QED BY <1>1, <1>2, <1>3 DEF PlotSources

\* However live values of any instants, vectors, answers of a database and notes
\* alternate, each curve shows what was merged after earlier instants only and
\* the latest live values in the order they came, as much as the buffer holds of
\* what was received for its source, each with its value, if a database does not
\* answer with instants that the curve has and sources of vectors send vectors
\* only: for any number of sources, any size of the buffer and any vectors.
THEOREM PlotAlwaysShowsLatest ==
  ASSUME ~RepeatedInstants, ~VectorErrors
  PROVE  SpecPlot => []PlotShowsLatest
<1>1. InitPlot => PlotInv
  BY PlotInvInit
<1>2. PlotInv /\ [NextPlot]_plotVars => PlotInv'
  BY PlotInvInductive
<1>3. PlotInv => PlotShowsLatest
  BY InvShows
<1> QED BY <1>1, <1>2, <1>3, PTL DEF SpecPlot
=============================================================================
