------------------------- MODULE ScoreCacheLRUProofs -------------------------
(***************************************************************************)
(* Theorems about ScoreCacheLRU, for any cache size, lifetime and set of   *)
(* identities: the list and the map of the cache agree, the list is in the *)
(* order of last use, and the entry that leaves is the right one.  First   *)
(* come the lemmas on lists without repetition: what the operations on     *)
(* them do to their elements, to their length and to their order.          *)
(***************************************************************************)
EXTENDS ScoreCacheLRU, SequenceTheorems, FiniteSetTheorems, WellFoundedInduction, TLAPS

-----------------------------------------------------------------------------
(* Lists without repetition.                                                *)

\* The lists whose elements are from S, each once.
Lists(S) == {s \in Seq(S) : IsInjective(s)}

LEMMA ListIs ==
  ASSUME NEW S, NEW s \in Lists(S)
  PROVE  /\ s \in Seq(S) /\ Len(s) \in Nat /\ DOMAIN s = 1 .. Len(s)
         /\ ToSet(s) \subseteq S
         /\ \A i, j \in 1 .. Len(s) : s[i] = s[j] => i = j
<1>1. s \in Seq(S) /\ Len(s) \in Nat /\ DOMAIN s = 1 .. Len(s)
  BY LenProperties DEF Lists
<1>2. \A i, j \in 1 .. Len(s) : s[i] = s[j] => i = j
  BY <1>1 DEF Lists, IsInjective
<1>3. ToSet(s) \subseteq S
  BY <1>1, ElementOfSeq DEF ToSet
<1> QED
  BY <1>1, <1>2, <1>3

\* A non-empty set of numbers has a least one.
LEMMA HasLeast ==
  ASSUME NEW T \in SUBSET Nat, T # {}
  PROVE  \E x \in T : \A y \in T : x <= y
<1>1. PICK x \in T : \A y \in T : <<y, x>> \notin OpToRel(<, Nat)
  BY NatLessThanWellFounded, WFMin
<1>2. ASSUME NEW y \in T PROVE x <= y
  <2>1. ~(y < x)
    BY <1>1 DEF OpToRel
  <2>2. x \in Nat /\ y \in Nat
    OBVIOUS
  <2> QED BY <2>1, <2>2
<1> QED BY <1>2

\* RemoveFirst cuts an element out where it stands, and does nothing where there is none.
LEMMA RemoveFirstCuts ==
  ASSUME NEW S, NEW s \in Lists(S), NEW e
  PROVE  \/ e \notin ToSet(s) /\ RemoveFirst(s, e) = s
         \/ \E p \in 1 .. Len(s) :
              /\ s[p] = e
              /\ RemoveFirst(s, e) \in Seq(S)
              /\ Len(RemoveFirst(s, e)) = Len(s) - 1
              /\ \A i \in 1 .. Len(s) - 1 :
                   RemoveFirst(s, e)[i] = IF i < p THEN s[i] ELSE s[i + 1]
<1>1. s \in Seq(S) /\ Len(s) \in Nat /\ DOMAIN s = 1 .. Len(s)
  BY ListIs
<1>2. CASE e \notin ToSet(s)
  BY <1>1, <1>2 DEF ToSet, RemoveFirst
<1>3. CASE e \in ToSet(s)
  <2> DEFINE places == {i \in 1 .. Len(s) : s[i] = e}
             p == Min(places)
  <2>1. places # {} /\ places \in SUBSET Nat
    BY <1>1, <1>3 DEF ToSet
  <2>2. p \in places
    BY <2>1, HasLeast DEF Min
  <2>3. p \in 1 .. Len(s) /\ s[p] = e
    BY <2>2
  <2>4. RemoveFirst(s, e) = RemoveAt(s, p)
    BY <1>1, <1>3, <2>1 DEF ToSet, RemoveFirst, SelectInSeq
  <2> DEFINE front == SubSeq(s, 1, p - 1)
             back == SubSeq(s, p + 1, Len(s))
  <2>5. RemoveFirst(s, e) = front \o back
    BY <2>4 DEF RemoveAt
  <2> HIDE DEF p, places
  <2>6. \A i \in 1 .. Len(s) : s[i] \in S
    BY <1>1, ElementOfSeq
  <2>7. /\ front \in Seq(S) /\ Len(front) = p - 1
        /\ \A i \in 1 .. p - 1 : front[i] = s[i]
    <3>1. 1 \in Int /\ p - 1 \in Int /\ \A i \in 1 .. p - 1 : s[i] \in S
      BY <1>1, <2>3, <2>6
    <3>2. /\ SubSeq(s, 1, p - 1) \in Seq(S)
          /\ Len(SubSeq(s, 1, p - 1)) = IF 1 <= p - 1 THEN (p - 1) - 1 + 1 ELSE 0
          /\ \A i \in 1 .. (p - 1) - 1 + 1 : SubSeq(s, 1, p - 1)[i] = s[1 + i - 1]
      BY <3>1, SubSeqProperties
    <3> QED BY <1>1, <2>3, <3>2
  <2>8. /\ back \in Seq(S) /\ Len(back) = Len(s) - p
        /\ \A i \in 1 .. Len(s) - p : back[i] = s[p + i]
    <3>1. p + 1 \in Int /\ Len(s) \in Int /\ \A i \in p + 1 .. Len(s) : s[i] \in S
      BY <1>1, <2>3, <2>6
    <3>2. /\ SubSeq(s, p + 1, Len(s)) \in Seq(S)
          /\ Len(SubSeq(s, p + 1, Len(s))) = IF p + 1 <= Len(s) THEN Len(s) - (p + 1) + 1 ELSE 0
          /\ \A i \in 1 .. Len(s) - (p + 1) + 1 : SubSeq(s, p + 1, Len(s))[i] = s[(p + 1) + i - 1]
      BY <3>1, SubSeqProperties
    <3> QED BY <1>1, <2>3, <3>2
  <2> HIDE DEF front, back
  <2>9. /\ front \o back \in Seq(S)
        /\ Len(front \o back) = Len(s) - 1
        /\ \A i \in 1 .. Len(s) - 1 :
             (front \o back)[i] = IF i <= p - 1 THEN front[i] ELSE back[i - (p - 1)]
    <3>1. /\ front \o back \in Seq(S)
          /\ Len(front \o back) = Len(front) + Len(back)
          /\ \A i \in 1 .. Len(front) + Len(back) :
               (front \o back)[i] = IF i <= Len(front) THEN front[i] ELSE back[i - Len(front)]
      BY <2>7, <2>8, ConcatProperties
    <3> QED BY <1>1, <2>3, <2>7, <2>8, <3>1
  <2>10. ASSUME NEW i \in 1 .. Len(s) - 1
         PROVE  (front \o back)[i] = IF i < p THEN s[i] ELSE s[i + 1]
    <3>1. CASE i < p
      BY <1>1, <2>3, <2>7, <2>9, <3>1
    <3>2. CASE ~(i < p)
      <4>1. i - (p - 1) \in 1 .. Len(s) - p /\ p + (i - (p - 1)) = i + 1 /\ ~(i <= p - 1)
        BY <1>1, <2>3, <3>2
      <4> QED BY <2>8, <2>9, <3>2, <4>1
    <3> QED BY <3>1, <3>2
  <2> QED
    BY <2>3, <2>5, <2>9, <2>10
<1> QED
  BY <1>2, <1>3

\* What RemoveFirst does to the elements and their order.
LEMMA RemoveFirstHolds ==
  ASSUME NEW S, NEW s \in Lists(S), NEW e
  PROVE  /\ RemoveFirst(s, e) \in Lists(S)
         /\ ToSet(RemoveFirst(s, e)) = ToSet(s) \ {e}
         /\ Len(RemoveFirst(s, e)) = IF e \in ToSet(s) THEN Len(s) - 1 ELSE Len(s)
         /\ \A j, k : Before(RemoveFirst(s, e), j, k) <=> Before(s, j, k) /\ j # e /\ k # e
<1>1. /\ s \in Seq(S) /\ Len(s) \in Nat /\ DOMAIN s = 1 .. Len(s)
      /\ \A i, j \in 1 .. Len(s) : s[i] = s[j] => i = j
  BY ListIs
<1>2. CASE e \notin ToSet(s) /\ RemoveFirst(s, e) = s
  <2>1. \A j, k : Before(s, j, k) => j # e /\ k # e
    BY <1>2 DEF Before, ToSet
  <2> QED BY <1>2, <2>1
<1>3. ASSUME NEW p \in 1 .. Len(s), s[p] = e,
             RemoveFirst(s, e) \in Seq(S),
             Len(RemoveFirst(s, e)) = Len(s) - 1,
             \A i \in 1 .. Len(s) - 1 :
               RemoveFirst(s, e)[i] = IF i < p THEN s[i] ELSE s[i + 1]
      PROVE  /\ RemoveFirst(s, e) \in Lists(S)
             /\ ToSet(RemoveFirst(s, e)) = ToSet(s) \ {e}
             /\ Len(RemoveFirst(s, e)) = IF e \in ToSet(s) THEN Len(s) - 1 ELSE Len(s)
             /\ \A j, k : Before(RemoveFirst(s, e), j, k) <=> Before(s, j, k) /\ j # e /\ k # e
  <2> DEFINE r == RemoveFirst(s, e)
             from(i) == IF i < p THEN i ELSE i + 1
             to(i) == IF i < p THEN i ELSE i - 1
  <2>1. DOMAIN r = 1 .. Len(s) - 1
    BY <1>3, LenProperties
  <2>2. \A i \in 1 .. Len(s) - 1 :
          r[i] = s[from(i)] /\ from(i) \in 1 .. Len(s) /\ from(i) # p
    BY <1>1, <1>3
  <2>3. \A i \in 1 .. Len(s) : i # p =>
          to(i) \in 1 .. Len(s) - 1 /\ r[to(i)] = s[i]
    BY <1>1, <1>3
  <2>4. \A m, n \in 1 .. Len(s) - 1 : m < n => from(m) < from(n)
    OBVIOUS
  <2>5. \A m, n \in 1 .. Len(s) : m # p /\ n # p /\ m < n => to(m) < to(n)
    BY <1>1
  <2>6. \A i \in 1 .. Len(s) : s[i] = e <=> i = p
    BY <1>1, <1>3
  <2>7. \A m, n \in 1 .. Len(s) - 1 : from(m) = from(n) => m = n
    OBVIOUS
  <2> HIDE DEF r, from, to
  <2>8. IsInjective(r)
    BY <1>1, <2>1, <2>2, <2>7 DEF IsInjective
  <2>9. ToSet(r) = ToSet(s) \ {e}
    <3>1. \A x \in ToSet(r) : x \in ToSet(s) \ {e}
      BY <1>1, <2>1, <2>2, <2>6 DEF ToSet
    <3>2. \A x \in ToSet(s) \ {e} : x \in ToSet(r)
      BY <1>1, <2>1, <2>3, <2>6 DEF ToSet
    <3> QED BY <3>1, <3>2
  <2>10. ASSUME NEW j, NEW k, Before(r, j, k)
         PROVE  Before(s, j, k) /\ j # e /\ k # e
    <3>1. PICK m \in 1 .. Len(s) - 1, n \in 1 .. Len(s) - 1 : m < n /\ r[m] = j /\ r[n] = k
      BY <2>1, <2>10 DEF Before
    <3>2. from(m) \in DOMAIN s /\ from(n) \in DOMAIN s /\ from(m) < from(n)
      BY <1>1, <2>2, <2>4, <3>1
    <3>3. s[from(m)] = j /\ s[from(n)] = k /\ j # e /\ k # e
      BY <2>2, <2>6, <3>1
    <3> QED BY <3>2, <3>3 DEF Before
  <2>11. ASSUME NEW j, NEW k, Before(s, j, k), j # e, k # e
         PROVE  Before(r, j, k)
    <3>1. PICK m \in 1 .. Len(s), n \in 1 .. Len(s) : m < n /\ s[m] = j /\ s[n] = k
      BY <1>1, <2>11 DEF Before
    <3>2. m # p /\ n # p
      BY <2>6, <2>11, <3>1
    <3>3. to(m) \in DOMAIN r /\ to(n) \in DOMAIN r /\ to(m) < to(n)
      BY <2>1, <2>3, <2>5, <3>1, <3>2
    <3>4. r[to(m)] = j /\ r[to(n)] = k
      BY <2>3, <3>1, <3>2
    <3> QED BY <3>3, <3>4 DEF Before
  <2>12. e \in ToSet(s)
    BY <1>1, <1>3 DEF ToSet
  <2>13. r \in Lists(S) /\ Len(r) = Len(s) - 1
    BY <1>3, <2>8 DEF r, Lists
  <2> QED
    BY <2>9, <2>10, <2>11, <2>12, <2>13 DEF r
<1> QED
  BY <1>2, <1>3, RemoveFirstCuts

\* What Cons does with an element that is not in the list.
LEMMA ConsHolds ==
  ASSUME NEW S, NEW s \in Lists(S), NEW e \in S, e \notin ToSet(s)
  PROVE  /\ Cons(e, s) \in Lists(S)
         /\ ToSet(Cons(e, s)) = ToSet(s) \cup {e}
         /\ Len(Cons(e, s)) = Len(s) + 1
         /\ \A j, k : Before(Cons(e, s), j, k) <=> Before(s, j, k) \/ (j = e /\ k \in ToSet(s))
<1>1. /\ s \in Seq(S) /\ Len(s) \in Nat /\ DOMAIN s = 1 .. Len(s)
      /\ \A i, j \in 1 .. Len(s) : s[i] = s[j] => i = j
  BY ListIs
<1> DEFINE r == Cons(e, s)
<1>2. <<e>> \in Seq(S) /\ Len(<<e>>) = 1 /\ <<e>>[1] = e
  OBVIOUS
<1>3. /\ <<e>> \o s \in Seq(S)
      /\ Len(<<e>> \o s) = Len(<<e>>) + Len(s)
      /\ \A i \in 1 .. Len(<<e>>) + Len(s) :
           (<<e>> \o s)[i] = IF i <= Len(<<e>>) THEN <<e>>[i] ELSE s[i - Len(<<e>>)]
  BY <1>1, <1>2, ConcatProperties
<1>4. r \in Seq(S) /\ Len(r) = Len(s) + 1 /\ DOMAIN r = 1 .. Len(s) + 1
  BY <1>1, <1>2, <1>3, LenProperties DEF Cons
<1>5. r[1] = e
  BY <1>1, <1>2, <1>3 DEF Cons
<1>6. \A i \in 1 .. Len(s) + 1 : i # 1 => i - 1 \in 1 .. Len(s) /\ r[i] = s[i - 1]
  BY <1>1, <1>2, <1>3 DEF Cons
<1>7. \A i \in 1 .. Len(s) : i + 1 \in 1 .. Len(s) + 1 /\ r[i + 1] = s[i]
  BY <1>1, <1>2, <1>3 DEF Cons
<1>8. \A i \in 1 .. Len(s) : s[i] # e
  BY <1>1 DEF ToSet
<1> HIDE DEF r
<1>9. ASSUME NEW i \in 1 .. Len(s) + 1, NEW j \in 1 .. Len(s) + 1, r[i] = r[j]
      PROVE  i = j
  <2>1. CASE i = 1
    BY <1>5, <1>6, <1>8, <1>9, <2>1
  <2>2. CASE j = 1
    BY <1>5, <1>6, <1>8, <1>9, <2>2
  <2>3. CASE i # 1 /\ j # 1
    <3>1. i - 1 = j - 1
      BY <1>1, <1>6, <1>9, <2>3
    <3> QED BY <3>1
  <2> QED BY <2>1, <2>2, <2>3
<1>10. IsInjective(r)
  BY <1>4, <1>9 DEF IsInjective
<1>11. ToSet(r) = ToSet(s) \cup {e}
  <2>1. ASSUME NEW x \in ToSet(r) PROVE x \in ToSet(s) \cup {e}
    <3>1. PICK i \in 1 .. Len(s) + 1 : r[i] = x
      BY <1>4 DEF ToSet
    <3>2. i # 1 => x \in ToSet(s)
      BY <1>1, <1>6, <3>1 DEF ToSet
    <3> QED BY <1>5, <3>1, <3>2
  <2>2. \A x \in ToSet(s) : x \in ToSet(r)
    BY <1>1, <1>4, <1>7 DEF ToSet
  <2>3. e \in ToSet(r)
    BY <1>1, <1>4, <1>5 DEF ToSet
  <2> QED BY <2>1, <2>2, <2>3
<1>12. ASSUME NEW j, NEW k, Before(r, j, k)
       PROVE  Before(s, j, k) \/ (j = e /\ k \in ToSet(s))
  <2>1. PICK m \in 1 .. Len(s) + 1, n \in 1 .. Len(s) + 1 : m < n /\ r[m] = j /\ r[n] = k
    BY <1>4, <1>12 DEF Before
  <2>2. n # 1
    BY <2>1
  <2>3. n - 1 \in DOMAIN s /\ s[n - 1] = k
    BY <1>1, <1>6, <2>1, <2>2
  <2>4. CASE m = 1
    BY <1>5, <2>1, <2>3, <2>4 DEF ToSet
  <2>5. CASE m # 1
    <3>1. m - 1 \in DOMAIN s /\ s[m - 1] = j /\ m - 1 < n - 1
      BY <1>1, <1>6, <2>1, <2>5
    <3> QED BY <2>3, <3>1 DEF Before
  <2> QED BY <2>4, <2>5
<1>13. ASSUME NEW j, NEW k, Before(s, j, k)
       PROVE  Before(r, j, k)
  <2>1. PICK m \in 1 .. Len(s), n \in 1 .. Len(s) : m < n /\ s[m] = j /\ s[n] = k
    BY <1>1, <1>13 DEF Before
  <2>2. /\ m + 1 \in DOMAIN r /\ n + 1 \in DOMAIN r /\ m + 1 < n + 1
        /\ r[m + 1] = j /\ r[n + 1] = k
    BY <1>4, <1>7, <2>1
  <2> QED BY <2>2 DEF Before
<1>14. ASSUME NEW k \in ToSet(s)
       PROVE  Before(r, e, k)
  <2>1. PICK n \in 1 .. Len(s) : s[n] = k
    BY <1>1 DEF ToSet
  <2>2. 1 \in DOMAIN r /\ n + 1 \in DOMAIN r /\ 1 < n + 1 /\ r[1] = e /\ r[n + 1] = k
    BY <1>1, <1>4, <1>5, <1>7, <2>1
  <2> QED BY <2>2 DEF Before
<1>15. r \in Lists(S)
  BY <1>4, <1>10 DEF Lists
<1> QED
  BY <1>4, <1>11, <1>12, <1>13, <1>14, <1>15 DEF r

\* To put an element in front of the others.
LEMMA TouchHolds ==
  ASSUME NEW S, NEW s \in Lists(S), NEW e \in S
  PROVE  LET r == Cons(e, RemoveFirst(s, e))
         IN  /\ r \in Lists(S)
             /\ ToSet(r) = ToSet(s) \cup {e}
             /\ e \in ToSet(s) => Len(r) = Len(s)
             /\ \A j, k : Before(r, j, k) <=>
                            \/ Before(s, j, k) /\ j # e /\ k # e
                            \/ j = e /\ k \in ToSet(s) \ {e}
<1>1. /\ RemoveFirst(s, e) \in Lists(S)
      /\ ToSet(RemoveFirst(s, e)) = ToSet(s) \ {e}
      /\ e \in ToSet(s) => Len(RemoveFirst(s, e)) = Len(s) - 1
      /\ \A j, k : Before(RemoveFirst(s, e), j, k) <=> Before(s, j, k) /\ j # e /\ k # e
  BY RemoveFirstHolds
<1>2. e \notin ToSet(RemoveFirst(s, e))
  BY <1>1
<1> DEFINE t == RemoveFirst(s, e)
<1> HIDE DEF t
<1>3. t \in Lists(S) /\ e \notin ToSet(t)
  BY <1>1, <1>2 DEF t
<1>4. /\ Cons(e, t) \in Lists(S)
      /\ ToSet(Cons(e, t)) = ToSet(t) \cup {e}
      /\ Len(Cons(e, t)) = Len(t) + 1
      /\ \A j, k : Before(Cons(e, t), j, k) <=> Before(t, j, k) \/ (j = e /\ k \in ToSet(t))
  BY <1>3, ConsHolds
<1>5. Len(s) \in Nat
  BY ListIs
<1> QED
  BY <1>1, <1>4, <1>5 DEF t

\* A list is as long as its elements are many.
LEMMA LenIsCardinality ==
  ASSUME NEW S, NEW s \in Lists(S)
  PROVE  IsFiniteSet(ToSet(s)) /\ Cardinality(ToSet(s)) = Len(s)
<1>1. /\ s \in Seq(S) /\ Len(s) \in Nat /\ DOMAIN s = 1 .. Len(s)
      /\ \A i, j \in 1 .. Len(s) : s[i] = s[j] => i = j
  BY ListIs
<1>2. s \in [1 .. Len(s) -> ToSet(s)]
  BY <1>1, LenProperties DEF ToSet
<1>3. s \in Bijection(1 .. Len(s), ToSet(s))
  BY <1>1, <1>2 DEF Bijection, Injection, Surjection, IsInjective, ToSet
<1>4. IsFiniteSet(1 .. Len(s)) /\ Cardinality(1 .. Len(s)) = Len(s)
  BY <1>1, FS_Interval
<1> QED
  BY <1>3, <1>4, FS_Bijection DEF ExistsBijection

\* The last element stands behind all others.
LEMMA LastHolds ==
  ASSUME NEW S, NEW s \in Lists(S), s # << >>
  PROVE  /\ Last(s) \in ToSet(s)
         /\ \A k \in ToSet(s) \ {Last(s)} : Before(s, k, Last(s))
<1>1. /\ s \in Seq(S) /\ Len(s) \in Nat /\ DOMAIN s = 1 .. Len(s)
      /\ \A i, j \in 1 .. Len(s) : s[i] = s[j] => i = j
  BY ListIs
<1>2. Len(s) \in 1 .. Len(s)
  BY <1>1, EmptySeq
<1>3. Last(s) \in ToSet(s)
  BY <1>1, <1>2 DEF Last, ToSet
<1>4. ASSUME NEW k \in ToSet(s) \ {Last(s)}
      PROVE  Before(s, k, Last(s))
  <2>1. PICK m \in 1 .. Len(s) : s[m] = k
    BY <1>1 DEF ToSet
  <2>2. m # Len(s)
    BY <2>1 DEF Last
  <2>3. m < Len(s)
    <3>1. Len(s) \in Nat /\ m \in 1 .. Len(s) /\ m # Len(s)
      BY <1>1, <2>2
    <3> QED BY <3>1
  <2> QED BY <1>1, <1>2, <2>1, <2>3 DEF Before, Last
<1> QED
  BY <1>3, <1>4

\* The order that InOrderOf chooses exists: an element stands where it stands in s, less
\* those in front of it that are not chosen.
LEMMA InOrderHolds ==
  ASSUME NEW S, NEW s \in Lists(S), NEW T \in SUBSET ToSet(s)
  PROVE  /\ InOrderOf(s, T) \in Lists(S)
         /\ ToSet(InOrderOf(s, T)) = T
         /\ Len(InOrderOf(s, T)) = Cardinality(T)
         /\ \A j, k : Before(InOrderOf(s, T), j, k) => Before(s, j, k)
<1>1. /\ s \in Seq(S) /\ Len(s) \in Nat /\ DOMAIN s = 1 .. Len(s)
      /\ ToSet(s) \subseteq S
      /\ \A i, j \in 1 .. Len(s) : s[i] = s[j] => i = j
  BY ListIs
<1> DEFINE places == {i \in 1 .. Len(s) : s[i] \in T}
           upTo(i) == {j \in places : j <= i}
           n == Cardinality(T)
<1>2. IsFiniteSet(places)
  <2>1. IsFiniteSet(1 .. Len(s)) /\ places \in SUBSET (1 .. Len(s))
    BY <1>1, FS_Interval
  <2> QED BY <2>1, FS_Subset
<1>3. IsFiniteSet(T) /\ n = Cardinality(places) /\ n \in Nat
  <2> DEFINE f == [i \in places |-> s[i]]
  <2>1. f \in [places -> T] /\ \A x \in T : \E i \in places : f[i] = x
    BY <1>1 DEF ToSet
  <2>2. f \in Bijection(places, T)
    <3>1. \A i, j \in places : f[i] = f[j] => i = j
      BY <1>1
    <3> HIDE DEF f, places
    <3> QED BY <2>1, <3>1 DEF Bijection, Injection, Surjection, IsInjective
  <2>3. ExistsBijection(places, T)
    BY <2>2 DEF ExistsBijection
  <2> HIDE DEF places
  <2> QED BY <1>2, <2>3, FS_Bijection, FS_CardinalityType
<1>4. ASSUME NEW i \in places
      PROVE  Cardinality(upTo(i)) \in 1 .. n
  <2>1. upTo(i) \in SUBSET places /\ i \in upTo(i)
    OBVIOUS
  <2> HIDE DEF upTo, places
  <2>2. IsFiniteSet(upTo(i)) /\ Cardinality(upTo(i)) <= n /\ Cardinality(upTo(i)) \in Nat
    BY <1>2, <1>3, <2>1, FS_Subset, FS_CardinalityType
  <2>3. Cardinality(upTo(i)) # 0
    BY <2>1, <2>2, FS_EmptySet
  <2> HIDE DEF n
  <2> QED BY <1>3, <2>2, <2>3
<1>5. ASSUME NEW i \in places, NEW j \in places, i < j
      PROVE  Cardinality(upTo(i)) < Cardinality(upTo(j))
  <2>1. upTo(i) \in SUBSET upTo(j) /\ j \in upTo(j) /\ j \notin upTo(i) /\ upTo(j) \in SUBSET places
    BY <1>1, <1>5
  <2>2. Cardinality(upTo(i)) \in 1 .. n /\ Cardinality(upTo(j)) \in 1 .. n
    BY <1>4, <1>5
  <2> HIDE DEF upTo, places, n
  <2>3. IsFiniteSet(upTo(j))
    BY <1>2, <2>1, FS_Subset
  <2>4. Cardinality(upTo(i)) <= Cardinality(upTo(j)) /\ Cardinality(upTo(i)) # Cardinality(upTo(j))
    BY <2>1, <2>3, FS_Subset
  <2> QED BY <1>3, <2>2, <2>4
<1> DEFINE rank == [i \in places |-> Cardinality(upTo(i))]
<1>6. /\ rank \in [places -> 1 .. n]
      /\ \A i, j \in places : i < j => rank[i] < rank[j]
  BY <1>4, <1>5
<1>7. places \subseteq Nat
  OBVIOUS
<1> HIDE DEF rank, upTo
<1>8. \A i, j \in places : rank[i] = rank[j] => i = j
  <2> HIDE DEF places
  <2>1. ASSUME NEW i \in places, NEW j \in places, rank[i] = rank[j] PROVE i = j
    <3>1. rank[i] \in Nat /\ rank[j] \in Nat /\ i \in Nat /\ j \in Nat
      BY <1>3, <1>6, <1>7
    <3>2. ~(i < j) /\ ~(j < i)
      BY <1>6, <2>1, <3>1
    <3> QED BY <3>1, <3>2
  <2> QED BY <2>1
<1>9. \A m \in 1 .. n : \E i \in places : rank[i] = m
  <2> HIDE DEF places, n
  <2>1. rank \in Injection(places, 1 .. n)
    BY <1>6, <1>8 DEF Injection, IsInjective
  <2>2. IsFiniteSet(1 .. n) /\ Cardinality(1 .. n) = n
    BY <1>3, FS_Interval
  <2>3. rank \in Surjection(places, 1 .. n)
    BY <1>3, <2>1, <2>2, FS_Injection
  <2> QED BY <2>3 DEF Surjection
<1>10. PICK place \in [1 .. n -> places] : \A m \in 1 .. n : rank[place[m]] = m
  <2> DEFINE place == [m \in 1 .. n |-> CHOOSE i \in places : rank[i] = m]
  <2>1. \A m \in 1 .. n : place[m] \in places /\ rank[place[m]] = m
    <3> HIDE DEF places, n
    <3> QED BY <1>9
  <2>2. place \in [1 .. n -> places]
    <3> HIDE DEF places, n
    <3> QED BY <2>1
  <2> QED BY <2>1, <2>2
<1> DEFINE o == [m \in 1 .. n |-> s[place[m]]]
<1>11. ASSUME NEW l \in 1 .. n, NEW m \in 1 .. n, l < m
       PROVE  place[l] < place[m]
  <2>1. place[l] \in places /\ place[m] \in places /\ place[l] \in Nat /\ place[m] \in Nat
    <3> HIDE DEF places, n
    <3> QED BY <1>7, <1>10
  <2>2. rank[place[l]] = l /\ rank[place[m]] = m
    BY <1>10
  <2>3. place[l] # place[m]
    BY <1>11, <2>2
  <2>4. ~(place[m] < place[l])
    <3> HIDE DEF places
    <3> QED BY <1>3, <1>6, <1>11, <2>1, <2>2
  <2> QED BY <2>1, <2>3, <2>4
<1>12. \A m \in 1 .. n : o[m] \in T /\ o[m] = s[place[m]] /\ place[m] \in 1 .. Len(s)
  BY <1>10
<1>13. \A l, m \in 1 .. n : l < m => Before(s, o[l], o[m])
  BY <1>1, <1>11, <1>12 DEF Before
<1>14. \A l, m \in 1 .. n : l # m => o[l] # o[m]
  <2>1. ASSUME NEW l \in 1 .. n, NEW m \in 1 .. n, l # m, o[l] = o[m]
        PROVE  FALSE
    <3>1. place[l] = place[m]
      BY <1>1, <1>12, <2>1
    <3> QED BY <1>10, <2>1, <3>1
  <2> QED BY <2>1
<1>15. DOMAIN o = 1 .. n /\ o \in [1 .. n -> T]
  BY <1>12
<1> HIDE DEF o
<1>16. o \in SetToSeqs(T)
  BY <1>14, <1>15 DEF SetToSeqs
<1>17. \A l, m \in DOMAIN o : l < m => Before(s, o[l], o[m])
  BY <1>13, <1>15
<1> DEFINE r == InOrderOf(s, T)
<1>18. r \in SetToSeqs(T) /\ \A l, m \in DOMAIN r : l < m => Before(s, r[l], r[m])
  BY <1>16, <1>17 DEF InOrderOf
<1> HIDE DEF r
<1>19. r \in [1 .. n -> T] /\ DOMAIN r = 1 .. n /\ \A l, m \in 1 .. n : l # m => r[l] # r[m]
  BY <1>18 DEF SetToSeqs
<1>20. T \subseteq S
  BY <1>1
<1>21. r \in Seq(S) /\ Len(r) = n
  <2> HIDE DEF n
  <2>1. r \in Seq(S)
    BY <1>3, <1>19, <1>20
  <2> QED BY <1>3, <1>19, <2>1, LenProperties
<1>22. r \in Lists(S)
  BY <1>19, <1>21 DEF Lists, IsInjective
<1>23. ToSet(r) = T
  <2>1. ToSet(r) \in SUBSET T
    BY <1>19 DEF ToSet
  <2>2. Cardinality(ToSet(r)) = Cardinality(T)
    BY <1>21, <1>22, LenIsCardinality
  <2> QED BY <1>3, <2>1, <2>2, FS_Subset
<1>24. \A j, k : Before(r, j, k) => Before(s, j, k)
  BY <1>18 DEF Before
<1> QED
  BY <1>21, <1>22, <1>23, <1>24 DEF r

-----------------------------------------------------------------------------
(* The cache between two steps.                                             *)

\* Whatever TypeOK leaves open of a cache: it is a record of a map and a list.
Shape == cache \in [entries : UNION {[K -> Score] : K \in SUBSET Keys}, order : Seq(Keys)]

\* Every identity of the list was used, and those in front of another one after it. The order
\* alone would not do: a hit moves an identity to the front of both lists.
OrderIsUse ==
  /\ ToSet(cache.order) \subseteq ToSet(used)
  /\ \A j, k : Before(cache.order, j, k) => Before(used, j, k)

IInv == TypeOK /\ Shape /\ MapMatchesList /\ OrderIsUse

LEMMA TypeIs ==
  ASSUME IInv
  PROVE  /\ now \in Nat /\ now <= MaxNow
         /\ cache = [entries |-> cache.entries, order |-> cache.order]
         /\ cache.entries \in [DOMAIN cache.entries -> Score] /\ DOMAIN cache.entries \subseteq Keys
         /\ cache.order \in Lists(Keys) /\ used \in Lists(Keys)
         /\ ToSet(cache.order) = DOMAIN cache.entries
         /\ Len(cache.order) <= CacheSize
<1>1. now \in Nat /\ now <= MaxNow
  BY LRUAssumption DEF IInv, TypeOK
<1>2. PICK K \in SUBSET Keys : cache.entries \in [K -> Score]
  BY DEF IInv, Shape
<1> QED
  BY <1>1, <1>2 DEF IInv, Shape, TypeOK, MapMatchesList, Lists

\* What is enough for a new cache and a new list of uses.
LEMMA Suffices ==
  ASSUME NEW e, NEW K \in SUBSET Keys, e \in [K -> Score], NEW o \in Lists(Keys),
         NEW u \in Lists(Keys), NEW t \in 0 .. MaxNow,
         ToSet(o) = K, Len(o) <= CacheSize, ToSet(o) \subseteq ToSet(u),
         \A j, k : Before(o, j, k) => Before(u, j, k),
         cache' = [entries |-> e, order |-> o], used' = u, now' = t
  PROVE  IInv'
<1>1. DOMAIN e = K /\ cache'.entries = e /\ cache'.order = o
  OBVIOUS
<1>2. o \in Seq(Keys) /\ u \in Seq(Keys) /\ IsInjective(o) /\ IsInjective(u)
  BY DEF Lists
<1>3. TypeOK'
  BY <1>1, <1>2 DEF TypeOK
<1>4. Shape'
  BY <1>2 DEF Shape
<1>5. MapMatchesList'
  BY <1>1, <1>2 DEF MapMatchesList
<1>6. OrderIsUse'
  BY <1>1 DEF OrderIsUse
<1> QED
  BY <1>3, <1>4, <1>5, <1>6 DEF IInv

LEMMA InitHolds == Init => IInv
<1> SUFFICES ASSUME Init PROVE IInv
  OBVIOUS
<1>1. now = 0 /\ cache = [entries |-> << >>, order |-> << >>] /\ used = << >>
  BY DEF Init, newScoreCache
<1>2. << >> \in Seq(Keys) /\ Len(<< >>) = 0 /\ DOMAIN << >> = {}
  BY EmptySeq
<1>3. IsInjective(<< >>) /\ ToSet(<< >>) = {} /\ \A j, k : ~Before(<< >>, j, k)
  BY <1>2 DEF IsInjective, ToSet, Before
<1>4. << >> \in [{} -> Score]
  OBVIOUS
<1>5. 0 \in 0 .. MaxNow /\ 0 <= CacheSize
  BY LRUAssumption, CacheAssumption
<1> QED
  BY <1>1, <1>2, <1>3, <1>4, <1>5 DEF IInv, TypeOK, Shape, MapMatchesList, OrderIsUse

\* A score is never what stands for none.
LEMMA ScoresAreScores ==
  ASSUME NEW s \in Score PROVE s # NoScore
<1>1. s \in [scoredAt : Int]
  BY LRUAssumption, CacheAssumption DEF Score
<1> QED
  BY <1>1, LRUAssumption

\* An entry leaves the map and the list.
LEMMA RemoveHolds ==
  ASSUME IInv, NEW k
  PROVE  LET c == remove(cache, k)
         IN  /\ c = [entries |-> c.entries, order |-> c.order]
             /\ c.entries \in [DOMAIN cache.entries \ {k} -> Score]
             /\ c.order \in Lists(Keys)
             /\ ToSet(c.order) = DOMAIN cache.entries \ {k}
             /\ Len(c.order) = IF k \in DOMAIN cache.entries THEN Len(cache.order) - 1
                               ELSE Len(cache.order)
             /\ \A i, j : Before(c.order, i, j) <=> Before(cache.order, i, j) /\ i # k /\ j # k
<1>1. /\ cache.entries \in [DOMAIN cache.entries -> Score]
      /\ cache.order \in Lists(Keys) /\ ToSet(cache.order) = DOMAIN cache.entries
  BY TypeIs
<1>2. /\ RemoveFirst(cache.order, k) \in Lists(Keys)
      /\ ToSet(RemoveFirst(cache.order, k)) = DOMAIN cache.entries \ {k}
      /\ Len(RemoveFirst(cache.order, k)) =
           IF k \in DOMAIN cache.entries THEN Len(cache.order) - 1 ELSE Len(cache.order)
      /\ \A i, j : Before(RemoveFirst(cache.order, k), i, j)
                   <=> Before(cache.order, i, j) /\ i # k /\ j # k
  BY <1>1, RemoveFirstHolds
<1>3. [j \in DOMAIN cache.entries \ {k} |-> cache.entries[j]] \in [DOMAIN cache.entries \ {k} -> Score]
  BY <1>1
<1> QED
  BY <1>2, <1>3 DEF remove

\* A use brings an identity that is in the cache to the front of both lists.
LEMMA HitHolds ==
  ASSUME IInv, NEW k \in DOMAIN cache.entries, NEW e \in [DOMAIN cache.entries -> Score],
         cache' = [entries |-> e, order |-> Cons(k, RemoveFirst(cache.order, k))],
         Touch(k), now' = now
  PROVE  IInv'
<1>1. /\ k \in Keys /\ cache.order \in Lists(Keys) /\ used \in Lists(Keys)
      /\ ToSet(cache.order) = DOMAIN cache.entries /\ Len(cache.order) <= CacheSize
      /\ now \in 0 .. MaxNow /\ DOMAIN cache.entries \subseteq Keys
  BY TypeIs
<1>2. /\ ToSet(cache.order) \subseteq ToSet(used)
      /\ \A i, j : Before(cache.order, i, j) => Before(used, i, j)
  BY DEF IInv, OrderIsUse
<1> DEFINE o == Cons(k, RemoveFirst(cache.order, k))
           u == Cons(k, RemoveFirst(used, k))
<1>3. /\ o \in Lists(Keys) /\ ToSet(o) = DOMAIN cache.entries /\ Len(o) = Len(cache.order)
      /\ \A i, j : Before(o, i, j) <=>
                     \/ Before(cache.order, i, j) /\ i # k /\ j # k
                     \/ i = k /\ j \in ToSet(cache.order) \ {k}
  <2>1. /\ o \in Lists(Keys) /\ ToSet(o) = ToSet(cache.order) \cup {k}
        /\ k \in ToSet(cache.order) => Len(o) = Len(cache.order)
        /\ \A i, j : Before(o, i, j) <=>
                       \/ Before(cache.order, i, j) /\ i # k /\ j # k
                       \/ i = k /\ j \in ToSet(cache.order) \ {k}
    BY <1>1, TouchHolds
  <2> HIDE DEF o
  <2> QED BY <1>1, <2>1
<1>4. /\ u \in Lists(Keys) /\ ToSet(u) = ToSet(used) \cup {k}
      /\ \A i, j : Before(u, i, j) <=>
                     \/ Before(used, i, j) /\ i # k /\ j # k
                     \/ i = k /\ j \in ToSet(used) \ {k}
  BY <1>1, TouchHolds
<1>5. cache' = [entries |-> e, order |-> o] /\ used' = u
  BY DEF Touch
<1> HIDE DEF o, u
<1>6. \A i, j : Before(o, i, j) => Before(u, i, j)
  BY <1>2, <1>3, <1>4
<1>7. ToSet(o) \subseteq ToSet(u) /\ Len(o) <= CacheSize
  BY <1>1, <1>2, <1>3, <1>4
<1> QED
  BY <1>1, <1>3, <1>4, <1>5, <1>6, <1>7, Suffices

\* A new identity comes to the front of a cache that has room for it.
LEMMA InsertHolds ==
  ASSUME IInv, NEW k \in Keys, NEW s \in Score, NEW K \in SUBSET Keys, k \notin K,
         NEW e \in [K -> Score], NEW o \in Lists(Keys), ToSet(o) = K, Len(o) < CacheSize,
         K \subseteq DOMAIN cache.entries,
         \A i, j : Before(o, i, j) => Before(cache.order, i, j),
         cache' = Insert([entries |-> e, order |-> o], k, s), Touch(k), now' = now
  PROVE  IInv'
<1>1. /\ cache.order \in Lists(Keys) /\ used \in Lists(Keys)
      /\ ToSet(cache.order) = DOMAIN cache.entries /\ now \in 0 .. MaxNow
  BY TypeIs
<1>2. /\ ToSet(cache.order) \subseteq ToSet(used)
      /\ \A i, j : Before(cache.order, i, j) => Before(used, i, j)
  BY DEF IInv, OrderIsUse
<1> DEFINE e2 == [j \in K \cup {k} |-> IF j = k THEN s ELSE e[j]]
           o2 == Cons(k, o)
           u == Cons(k, RemoveFirst(used, k))
<1>3. cache' = [entries |-> e2, order |-> o2] /\ used' = u
  BY DEF Insert, Touch
<1>4. e2 \in [K \cup {k} -> Score] /\ K \cup {k} \in SUBSET Keys
  OBVIOUS
<1>5. /\ o2 \in Lists(Keys) /\ ToSet(o2) = K \cup {k} /\ Len(o2) = Len(o) + 1
      /\ \A i, j : Before(o2, i, j) <=> Before(o, i, j) \/ (i = k /\ j \in K)
  BY ConsHolds
<1>6. /\ u \in Lists(Keys) /\ ToSet(u) = ToSet(used) \cup {k}
      /\ \A i, j : Before(u, i, j) <=>
                     \/ Before(used, i, j) /\ i # k /\ j # k
                     \/ i = k /\ j \in ToSet(used) \ {k}
  BY <1>1, TouchHolds
<1> HIDE DEF e2, o2, u
<1>7. \A i, j : Before(o, i, j) => i \in K /\ j \in K
  BY DEF Before, ToSet
<1>8. \A i, j : Before(o2, i, j) => Before(u, i, j)
  BY <1>1, <1>2, <1>5, <1>6, <1>7
<1>9. ToSet(o2) \subseteq ToSet(u)
  BY <1>1, <1>2, <1>5, <1>6
<1>10. Len(o2) <= CacheSize
  BY <1>5, ListIs, CacheAssumption
<1> QED
  BY <1>1, <1>3, <1>4, <1>5, <1>6, <1>8, <1>9, <1>10, Suffices

\* One step per operation: the invariant holds after it, and what leaves the cache is
\* what may leave it.
Leaves(v) ==
  \/ Expired(cache.entries[v], now)
  \/ /\ Victims = {v}
     /\ Cardinality(DOMAIN cache.entries) = CacheSize
     /\ \A k \in DOMAIN cache.entries \ {v} : Before(used, k, v)

\* What has expired for an earlier batch has expired.
LEMMA ExpiryLasts ==
  ASSUME IInv, NEW k \in DOMAIN cache.entries, NEW at \in Int, at <= now,
         Expired(cache.entries[k], at)
  PROVE  Expired(cache.entries[k], now)
<1>1. cache.entries[k] \in Score /\ now \in Nat
  BY TypeIs
<1>2. cache.entries[k].scoredAt \in Int
  BY <1>1, LRUAssumption, CacheAssumption DEF Score
<1> QED
  BY <1>1, <1>2, CacheAssumption DEF Expired

LEMMA GetStep ==
  ASSUME IInv, NEW k \in Keys, NEW at \in 0 .. now, Get(k, at)
  PROVE  IInv' /\ \A v \in Victims : Leaves(v)
<1>1. /\ cache = [entries |-> cache.entries, order |-> cache.order]
      /\ cache.entries \in [DOMAIN cache.entries -> Score]
      /\ ToSet(cache.order) = DOMAIN cache.entries /\ Len(cache.order) <= CacheSize
      /\ DOMAIN cache.entries \subseteq Keys /\ now \in 0 .. MaxNow
      /\ used \in Lists(Keys) /\ Len(cache.order) \in Nat
  BY TypeIs, ListIs
<1>2. cache' = getCache(cache, k, at) /\ now' = now
  BY DEF Get
<1>3. CASE k \notin DOMAIN cache.entries
  <2>1. cache' = cache /\ used' = used
    BY <1>2, <1>3 DEF Get, getCache, getResult
  <2>2. IInv'
    BY <1>2, <2>1 DEF IInv, TypeOK, Shape, MapMatchesList, OrderIsUse
  <2>3. Victims = {}
    BY <2>1 DEF Victims
  <2> QED BY <2>2, <2>3
<1>4. CASE k \in DOMAIN cache.entries /\ Expired(cache.entries[k], at)
  <2> DEFINE c == remove(cache, k)
  <2>1. cache' = c /\ used' = used
    BY <1>2, <1>4 DEF Get, getCache, getResult
  <2>2. /\ c = [entries |-> c.entries, order |-> c.order]
        /\ c.entries \in [DOMAIN cache.entries \ {k} -> Score]
        /\ c.order \in Lists(Keys)
        /\ ToSet(c.order) = DOMAIN cache.entries \ {k}
        /\ Len(c.order) = Len(cache.order) - 1
        /\ \A i, j : Before(c.order, i, j) => Before(cache.order, i, j)
    BY <1>4, RemoveHolds
  <2> HIDE DEF c
  <2>3. IInv'
    <3>1. /\ ToSet(c.order) \subseteq ToSet(used) /\ Len(c.order) <= CacheSize
          /\ \A i, j : Before(c.order, i, j) => Before(used, i, j)
      BY <1>1, <2>2, CacheAssumption DEF IInv, OrderIsUse
    <3>2. DOMAIN cache.entries \ {k} \in SUBSET Keys
      BY <1>1
    <3>3. cache' = [entries |-> c.entries, order |-> c.order]
      BY <2>1, <2>2
    <3> QED BY <1>1, <1>2, <2>1, <2>2, <3>1, <3>2, <3>3, Suffices
  <2>4. Victims \subseteq {k}
    BY <2>1, <2>2 DEF Victims
  <2>5. Expired(cache.entries[k], now)
    BY <1>1, <1>4, ExpiryLasts
  <2> QED BY <2>3, <2>4, <2>5 DEF Leaves
<1>5. CASE k \in DOMAIN cache.entries /\ ~Expired(cache.entries[k], at)
  <2>1. getResult(cache, k, at) = cache.entries[k] /\ cache.entries[k] # NoScore
    BY <1>1, <1>5, ScoresAreScores DEF getResult
  <2>2. Touch(k)
    BY <2>1 DEF Get
  <2>3. cache' = [entries |-> cache.entries, order |-> Cons(k, RemoveFirst(cache.order, k))]
    BY <1>1, <1>2, <1>5 DEF getCache, MoveToFront
  <2>4. IInv'
    BY <1>1, <1>2, <1>5, <2>2, <2>3, HitHolds
  <2>5. Victims = {}
    BY <2>3 DEF Victims
  <2> QED BY <2>4, <2>5
<1> QED
  BY <1>3, <1>4, <1>5

LEMMA PutStep ==
  ASSUME IInv, NEW k \in Keys, NEW at \in (now - ScoreTTL) .. now, Put(k, at)
  PROVE  IInv' /\ \A v \in Victims : Leaves(v)
<1>1. /\ cache = [entries |-> cache.entries, order |-> cache.order]
      /\ cache.entries \in [DOMAIN cache.entries -> Score]
      /\ ToSet(cache.order) = DOMAIN cache.entries /\ Len(cache.order) <= CacheSize
      /\ DOMAIN cache.entries \subseteq Keys /\ now \in 0 .. MaxNow
      /\ used \in Lists(Keys) /\ cache.order \in Lists(Keys)
      /\ Len(cache.order) \in Nat /\ cache.order \in Seq(Keys)
  BY TypeIs, ListIs
<1> DEFINE s == [scoredAt |-> at]
<1>2. s \in Score
  BY <1>1, LRUAssumption, CacheAssumption DEF Score
<1>3. cache' = put(cache, k, s) /\ Touch(k) /\ now' = now
  BY DEF Put
<1> HIDE DEF s
<1>4. CASE k \in DOMAIN cache.entries
  <2> DEFINE e == [cache.entries EXCEPT ![k] = s]
  <2>1. e \in [DOMAIN cache.entries -> Score]
    BY <1>1, <1>2, <1>4
  <2>2. cache' = [entries |-> e, order |-> Cons(k, RemoveFirst(cache.order, k))]
    <3>1. [cache EXCEPT !.entries[k] = s] = [entries |-> e, order |-> cache.order]
      BY <1>1
    <3> HIDE DEF e
    <3> QED BY <1>3, <1>4, <3>1 DEF put, MoveToFront
  <2> HIDE DEF e
  <2>3. IInv'
    BY <1>3, <1>4, <2>1, <2>2, HitHolds
  <2>4. Victims = {}
    BY <2>1, <2>2 DEF Victims
  <2> QED BY <2>3, <2>4
<1>5. CASE k \notin DOMAIN cache.entries /\ ~(Len(cache.order) >= CacheSize)
  <2>1. cache' = Insert([entries |-> cache.entries, order |-> cache.order], k, s)
    BY <1>1, <1>3, <1>5 DEF put
  <2>2. Len(cache.order) < CacheSize
    BY <1>1, <1>5, CacheAssumption
  <2>3. IInv'
    BY <1>1, <1>2, <1>3, <1>5, <2>1, <2>2, InsertHolds
  <2>4. Victims = {}
    BY <2>1 DEF Victims, Insert
  <2> QED BY <2>3, <2>4
<1>6. CASE k \notin DOMAIN cache.entries /\ Len(cache.order) >= CacheSize
  <2>1. Len(cache.order) = CacheSize
    BY <1>1, <1>6, CacheAssumption
  <2>2. cache.order # << >>
    BY <2>1, EmptySeq, CacheAssumption
  <2>3. /\ Last(cache.order) \in DOMAIN cache.entries
        /\ \A j \in DOMAIN cache.entries \ {Last(cache.order)} :
             Before(cache.order, j, Last(cache.order))
    BY <1>1, <2>2, LastHolds
  <2> DEFINE v == Last(cache.order)
             c == remove(cache, v)
  <2>4. /\ c = [entries |-> c.entries, order |-> c.order]
        /\ c.entries \in [DOMAIN cache.entries \ {v} -> Score]
        /\ c.order \in Lists(Keys)
        /\ ToSet(c.order) = DOMAIN cache.entries \ {v}
        /\ Len(c.order) = Len(cache.order) - 1
        /\ \A i, j : Before(c.order, i, j) => Before(cache.order, i, j)
    BY <2>3, RemoveHolds
  <2>5. cache' = Insert(c, k, s)
    BY <1>3, <1>6 DEF put
  <2> HIDE DEF c, v
  <2>6. Len(c.order) < CacheSize
    BY <1>1, <2>1, <2>4, CacheAssumption
  <2>7. cache' = Insert([entries |-> c.entries, order |-> c.order], k, s)
    BY <2>4, <2>5
  <2>8. DOMAIN cache.entries \ {v} \in SUBSET Keys /\ k \notin DOMAIN cache.entries \ {v}
    BY <1>1, <1>6
  <2>9. IInv'
    BY <1>1, <1>2, <1>3, <2>4, <2>6, <2>7, <2>8, InsertHolds
  <2>10. Victims = {v}
    <3>1. DOMAIN cache'.entries = (DOMAIN cache.entries \ {v}) \cup {k}
      BY <2>4, <2>7 DEF Insert
    <3> QED BY <1>6, <2>3, <3>1 DEF Victims, v
  <2>11. Cardinality(DOMAIN cache.entries) = CacheSize
    BY <1>1, <2>1, LenIsCardinality
  <2>12. \A j \in DOMAIN cache.entries \ {v} : Before(used, j, v)
    BY <2>3 DEF v, IInv, OrderIsUse
  <2> QED BY <2>9, <2>10, <2>11, <2>12 DEF Leaves
<1> QED
  BY <1>4, <1>5, <1>6

LEMMA PruneStep ==
  ASSUME IInv, Prune
  PROVE  IInv' /\ \A v \in Victims : Leaves(v)
<1>1. /\ cache.entries \in [DOMAIN cache.entries -> Score]
      /\ ToSet(cache.order) = DOMAIN cache.entries /\ Len(cache.order) <= CacheSize
      /\ DOMAIN cache.entries \subseteq Keys /\ now \in 0 .. MaxNow
      /\ used \in Lists(Keys) /\ cache.order \in Lists(Keys) /\ Len(cache.order) \in Nat
  BY TypeIs, ListIs
<1> DEFINE fresh == {k \in DOMAIN cache.entries : ~Expired(cache.entries[k], now)}
           e == [k \in fresh |-> cache.entries[k]]
           o == InOrderOf(cache.order, fresh)
<1>2. cache' = [entries |-> e, order |-> o] /\ now' = now /\ used' = used
  BY DEF Prune, prune
<1>3. fresh \in SUBSET ToSet(cache.order) /\ fresh \in SUBSET Keys /\ e \in [fresh -> Score]
  BY <1>1
<1>4. /\ o \in Lists(Keys) /\ ToSet(o) = fresh /\ Len(o) = Cardinality(fresh)
      /\ \A j, k : Before(o, j, k) => Before(cache.order, j, k)
  <2> HIDE DEF fresh
  <2> QED BY <1>1, <1>3, InOrderHolds
<1>5. DOMAIN cache'.entries = fresh
  BY <1>2
<1>6. \A v \in Victims : Leaves(v)
  BY <1>5 DEF Victims, Leaves
<1> HIDE DEF fresh, e, o
<1>7. Len(o) <= CacheSize
  <2>1. /\ IsFiniteSet(ToSet(cache.order)) /\ Cardinality(ToSet(cache.order)) = Len(cache.order)
    BY <1>1, LenIsCardinality
  <2>2. Cardinality(fresh) <= Len(cache.order) /\ Cardinality(fresh) \in Nat
    BY <1>3, <2>1, FS_Subset, FS_CardinalityType
  <2> QED BY <1>1, <1>4, <2>2, CacheAssumption
<1>8. ToSet(o) \subseteq ToSet(used) /\ \A j, k : Before(o, j, k) => Before(used, j, k)
  BY <1>1, <1>3, <1>4 DEF IInv, OrderIsUse
<1>9. IInv'
  BY <1>1, <1>2, <1>3, <1>4, <1>7, <1>8, Suffices
<1> QED
  BY <1>6, <1>9

LEMMA StepHolds ==
  ASSUME IInv, [Next]_vars
  PROVE  IInv' /\ ([\A v \in Victims : Leaves(v)]_vars)
<1>1. CASE UNCHANGED vars
  BY <1>1 DEF vars, IInv, TypeOK, Shape, MapMatchesList, OrderIsUse
<1>2. CASE Tick
  <2>1. cache' = cache /\ used' = used /\ now' = now + 1 /\ now < MaxNow
    BY <1>2 DEF Tick
  <2>2. now' \in 0 .. MaxNow
    BY <2>1, TypeIs, LRUAssumption
  <2>3. IInv'
    BY <2>1, <2>2 DEF IInv, TypeOK, Shape, MapMatchesList, OrderIsUse
  <2>4. Victims = {}
    BY <2>1 DEF Victims
  <2> QED BY <2>3, <2>4
<1>3. CASE \E k \in Keys, at \in 0 .. now : Get(k, at)
  BY <1>3, GetStep
<1>4. CASE \E k \in Keys, at \in (now - ScoreTTL) .. now : Put(k, at)
  BY <1>4, PutStep
<1>5. CASE Prune
  BY <1>5, PruneStep
<1> QED
  BY <1>1, <1>2, <1>3, <1>4, <1>5 DEF Next

THEOREM Invariance == Spec => []IInv
<1>1. IInv /\ [Next]_vars => IInv'
  BY StepHolds
<1> QED
  BY InitHolds, <1>1, PTL DEF Spec

-----------------------------------------------------------------------------
(* What follows.                                                            *)

\* The cache and the list of uses are always of their types.
THEOREM Typing == Spec => []TypeOK
<1>1. IInv => TypeOK
  BY DEF IInv
<1> QED
  BY <1>1, Invariance, PTL

\* The map and the list of cache.go hold the same identities after every operation, none of
\* them twice, and never more of them than the limit.
THEOREM HalvesAgree == Spec => []MapMatchesList
<1>1. IInv => MapMatchesList
  BY DEF IInv
<1> QED
  BY <1>1, Invariance, PTL

\* The list is in the order of last use, whatever hits, misses, replacements, evictions,
\* expired entries and pruning made of it.
THEOREM RecencyOrder == Spec => []ListIsRecencyOrder
<1>1. IInv => ListIsRecencyOrder
  BY DEF IInv, OrderIsUse, ListIsRecencyOrder, Before
<1> QED
  BY <1>1, Invariance, PTL

\* What leaves the cache has expired, or it is the one least recently used entry of a
\* cache that is full.
THEOREM RightEntryLeaves == Spec => OnlyExpiredOrLeastRecentLeaves
<1> DEFINE A == \A v \in Victims : Leaves(v)
<1>1. IInv /\ [Next]_vars => [A]_vars
  BY StepHolds
<1>2. [A]_vars => [\A v \in Victims :
                     \/ Expired(cache.entries[v], now)
                     \/ /\ Victims = {v}
                        /\ Cardinality(DOMAIN cache.entries) = CacheSize
                        /\ \A k \in DOMAIN cache.entries \ {v} : Before(used, k, v)]_vars
  BY DEF Leaves
<1>3. Spec => [][A]_vars
  BY <1>1, Invariance, PTL DEF Spec
<1> QED
  BY <1>2, <1>3, PTL DEF OnlyExpiredOrLeastRecentLeaves
=============================================================================
