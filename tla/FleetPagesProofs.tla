-------------------------- MODULE FleetPagesProofs --------------------------
(***************************************************************************)
(* Proofs about the pages of a list, for any agents, filters, sorts and    *)
(* limits: the pages of GET /api/agents show every agent the filter takes  *)
(* once, and the UI's pages show every agent of the list.                  *)
(***************************************************************************)
EXTENDS FleetPages, FleetReadProofs

(* A leaf goes to Zenon unless it names SMT or starts with ONLY.           *)
USE Zenon

-----------------------------------------------------------------------------
(* Pages of an ordered list: the agents of the ranks they start and end at.*)

\* A list of different agents is an arrangement of them.
LEMMA DistinctCount ==
  ASSUME NEW s \in Seq(SnapshotOf), Distinct(s)
  PROVE  /\ IsFiniteSet(Range(s)) /\ Cardinality(Range(s)) = Len(s)
         /\ \A a, b \in Range(s) : a.uid = b.uid => a = b
         /\ \A a \in Range(s) : a \in SnapshotOf /\ a.uid \in Nat
<1> DEFINE n == Len(s)
<1>1. n \in Nat /\ DOMAIN s = 1 .. n /\ s \in [1 .. n -> Range(s)]
      /\ \A i \in 1 .. n : s[i] \in SnapshotOf
  BY SMT DEF Range
<1> HIDE DEF n
<1>2. \A i, j \in 1 .. n : s[i] = s[j] => i = j
  BY <1>1 DEF Distinct
<1>3. \A a \in Range(s) : \E i \in 1 .. n : s[i] = a
  BY <1>1 DEF Range
<1>4. s \in Bijection(1 .. n, Range(s))
  BY <1>1, <1>2, <1>3 DEF Bijection, Injection, IsInjective, Surjection
<1>5. ExistsBijection(1 .. n, Range(s))
  BY <1>4 DEF ExistsBijection
<1>6. Cardinality(Range(s)) = n
  BY <1>1, <1>5, FS_CountingElements
<1>7. IsFiniteSet(Range(s))
  <2>1. \E k \in Nat : ExistsBijection(1 .. k, Range(s))
    BY <1>1, <1>5
  <2> QED
    BY ONLY Zenon, <2>1, FS_NatBijection
<1>8. ASSUME NEW a \in Range(s), NEW b \in Range(s), a.uid = b.uid
      PROVE  a = b
  <2>1. PICK i \in 1 .. n, j \in 1 .. n : s[i] = a /\ s[j] = b
    BY <1>3
  <2> QED
    BY <1>1, <1>8, <2>1 DEF Distinct
<1>9. \A a \in Range(s) : a \in SnapshotOf
  BY <1>1, <1>3
<1>10. \A a \in SnapshotOf : a.uid \in Nat
  <2>1. \A u \in Uid : u \in Nat
    BY UidAssumption
  <2>2. \A a \in SnapshotOf : a.uid \in Uid
    BY DEF SnapshotOf
  <2> QED
    BY <2>1, <2>2
<1> QED
  BY <1>6, <1>7, <1>8, <1>9, <1>10 DEF n

\* The agents of S that come before a, in an order given by its pairs, and how
\* many they are.
Before(S, R, a) == {b \in S \ {a} : <<b, a>> \in R}

Rank(S, R, a) == Cardinality(Before(S, R, a))

\* The agents from rank start up to rank end.
OfRanks(S, R, start, end) ==
  {a \in S : start <= Rank(S, R, a) /\ Rank(S, R, a) < end}

\* A sequence in that order, which has no ties.
InOrder(s, R) ==
  \A i, j \in DOMAIN s : i < j => <<s[i], s[j]>> \in R /\ <<s[j], s[i]>> \notin R

\* An agent's rank is below the number of agents.
LEMMA RankType ==
  ASSUME NEW S, IsFiniteSet(S), NEW R, NEW a \in S
  PROVE  Rank(S, R, a) \in Nat /\ Rank(S, R, a) < Cardinality(S)
<1>1. Before(S, R, a) \in SUBSET (S \ {a})
  BY DEF Before
<1>2. IsFiniteSet(S \ {a}) /\ Cardinality(S \ {a}) = Cardinality(S) - 1
  BY FS_RemoveElement
<1>3. IsFiniteSet(Before(S, R, a)) /\ Rank(S, R, a) <= Cardinality(S \ {a})
  BY <1>1, <1>2, FS_Subset DEF Rank
<1>4. Rank(S, R, a) \in Nat /\ Cardinality(S) \in Nat
  BY <1>3, FS_CardinalityType DEF Rank
<1> QED
  BY ONLY <1>2, <1>3, <1>4

\* In a sequence that is in order, every agent is where its rank says.
LEMMA RankOfPlace ==
  ASSUME NEW S, IsFiniteSet(S), NEW R, NEW s \in InAnyOrder(S),
         InOrder(s, R),
         NEW k \in DOMAIN s
  PROVE  Rank(S, R, s[k]) = k - 1
<1> DEFINE n == Len(s)
           B == Before(S, R, s[k])
           p == [i \in 1 .. k - 1 |-> s[i]]
<1>1. /\ n \in Nat /\ DOMAIN s = 1 .. n /\ Range(s) = S
      /\ \A i, j \in DOMAIN s : s[i] = s[j] => i = j
  <2>1. /\ s \in Seq(S) /\ DOMAIN s = 1 .. n /\ Range(s) = S
        /\ \A i, j \in DOMAIN s : s[i] = s[j] => i = j
    BY Arranged
  <2> QED
    BY SMT, <2>1
<1> HIDE DEF n
<1>2. \A i \in 1 .. k - 1 : i \in DOMAIN s /\ i < k /\ i # k
  BY SMT, <1>1
<1>3. \A i \in DOMAIN s : i # k => i \in 1 .. k - 1 \/ k < i
  BY SMT, <1>1
<1>4. k - 1 \in Nat
  BY SMT, <1>1
<1>5. \A i \in 1 .. k - 1 : s[i] \in B
  BY <1>1, <1>2 DEF Before, Range, InOrder
<1>6. ASSUME NEW b \in B PROVE \E i \in 1 .. k - 1 : s[i] = b
  <2>1. b \in S /\ b # s[k] /\ <<b, s[k]>> \in R
    BY DEF Before
  <2>2. PICK i \in DOMAIN s : b = s[i]
    BY <1>1, <2>1 DEF Range
  <2> QED
    BY <1>3, <2>1, <2>2 DEF InOrder
<1> HIDE DEF B
<1>7. p \in [1 .. k - 1 -> B] /\ \A i \in 1 .. k - 1 : p[i] = s[i]
  BY <1>5
<1> HIDE DEF p
<1>8. p \in Bijection(1 .. k - 1, B)
  <2>1. DOMAIN p = 1 .. k - 1
    BY <1>7
  <2>2. \A i, j \in DOMAIN p : p[i] = p[j] => i = j
    BY <1>1, <1>2, <1>7, <2>1
  <2>3. \A b \in B : \E i \in 1 .. k - 1 : p[i] = b
    BY <1>6, <1>7
  <2> QED
    BY ONLY Zenon, <1>7, <2>2, <2>3 DEF Bijection, Injection, IsInjective, Surjection
<1>9. Cardinality(B) = k - 1
  BY <1>4, <1>8, FS_CountingElements DEF ExistsBijection
<1> QED
  BY <1>9 DEF Rank, B

\* A page of a sequence in order shows the agents of the page's ranks.
LEMMA PageShows ==
  ASSUME NEW S, IsFiniteSet(S), NEW R, NEW s \in InAnyOrder(S),
         InOrder(s, R),
         NEW start \in Nat, NEW end \in Nat, end <= Cardinality(S)
  PROVE  Range(Slice(s, start, end)) = OfRanks(S, R, start, end)
<1> DEFINE t == SubSeq(s, start + 1, end)
           n == Len(s)
<1>1. /\ n \in Nat /\ n = Cardinality(S) /\ DOMAIN s = 1 .. n /\ Range(s) = S
      /\ s \in Seq(S)
  <2>1. s \in Seq(S) /\ n = Cardinality(S) /\ DOMAIN s = 1 .. n /\ Range(s) = S
    BY Arranged
  <2> QED
    BY SMT, <2>1
<1>2. \A k \in DOMAIN s : Rank(S, R, s[k]) = k - 1
  BY RankOfPlace
<1>3. \A i \in start + 1 .. end : i \in 1 .. n
  BY ONLY <1>1, start \in Nat, end \in Nat, end <= Cardinality(S)
<1> HIDE DEF n
<1>4. /\ t \in Seq(S)
      /\ Len(t) = IF start + 1 <= end THEN end - (start + 1) + 1 ELSE 0
      /\ \A i \in 1 .. end - (start + 1) + 1 : t[i] = s[start + 1 + i - 1]
  <2>1. start + 1 \in Int /\ end \in Int
    BY SMT
  <2>2. \A i \in start + 1 .. end : s[i] \in S
    BY SMT, <1>1, <1>3
  <2> DEFINE m == start + 1
  <2> HIDE DEF m
  <2> QED
    BY ONLY <2>1, <2>2
<1> HIDE DEF t
<1>5. DOMAIN t = 1 .. end - start
  BY ONLY <1>4, start \in Nat, end \in Nat
<1>6. \A i \in 1 .. end - start : t[i] = s[start + i] /\ start + i \in 1 .. n
                                  /\ start <= (start + i) - 1 /\ (start + i) - 1 < end
  BY ONLY <1>1, <1>4, start \in Nat, end \in Nat, end <= Cardinality(S)
<1>7. \A k \in 1 .. n : start <= k - 1 /\ k - 1 < end =>
        k - start \in 1 .. end - start /\ start + (k - start) = k
  BY ONLY <1>1, start \in Nat, end \in Nat
<1>8. ASSUME NEW a \in Range(t)
      PROVE  a \in S /\ start <= Rank(S, R, a) /\ Rank(S, R, a) < end
  <2>1. PICK i \in 1 .. end - start : a = t[i]
    BY <1>5 DEF Range
  <2>2. a = s[start + i] /\ start + i \in 1 .. n
        /\ start <= (start + i) - 1 /\ (start + i) - 1 < end
    BY <1>6, <2>1
  <2>3. start + i \in DOMAIN s
    BY <1>1, <2>2
  <2>4. Rank(S, R, a) = (start + i) - 1
    BY <1>2, <2>2, <2>3
  <2>5. a \in S
    BY <1>1, <2>2, <2>3 DEF Range
  <2> QED
    BY <2>2, <2>4, <2>5
<1>9. ASSUME NEW a \in S, start <= Rank(S, R, a), Rank(S, R, a) < end
      PROVE  a \in Range(t)
  <2>1. PICK k \in 1 .. n : a = s[k]
    BY <1>1 DEF Range
  <2>2. k - start \in 1 .. end - start /\ start + (k - start) = k
    BY <1>1, <1>2, <1>7, <1>9, <2>1
  <2>3. t[k - start] = a
    BY <1>6, <2>1, <2>2
  <2> QED
    BY <1>5, <2>2, <2>3 DEF Range
<1> QED
  BY <1>8, <1>9 DEF Slice, t, OfRanks

\* A page and the pages before it end where the next one starts.
LEMMA PagesApart ==
  ASSUME NEW L \in Nat, NEW p \in Nat, NEW q \in Nat, p < q
  PROVE  p * L + L <= q * L
<1>1. q - p - 1 \in Nat
  BY SMT
<1>2. (q - p - 1) * L >= 0
  BY SMT, <1>1
<1>3. (q - p - 1) * L = q * L - (p * L + L)
  BY SMT, <1>1
<1>4. p * L \in Nat /\ q * L \in Nat
  BY SMT
<1> QED
  BY ONLY <1>2, <1>3, <1>4, L \in Nat

\* The page, counted from 1, that shows the agent of rank k.
HomePage(k, L) == k \div L + 1

\* Where a page of a list of n agents starts and ends.
PageStart(page, L, n) == Minimum(pageOffset(page, L), n)

PageEnd(page, L, n) == Minimum(PageStart(page, L, n) + L, n)

\* The pages that are linked to show an agent of rank k below n on its home page
\* and on no other, the last page cut off at n.
LEMMA HomePageShows ==
  ASSUME NEW L \in Nat \ {0}, NEW n \in Nat, NEW k \in Nat, k < n
  PROVE  /\ HomePage(k, L) \in 1 .. pageCount(n, L)
         /\ \A page \in 1 .. pageCount(n, L) :
              LET start == PageStart(page, L, n)
                  end   == PageEnd(page, L, n)
              IN  /\ start \in Nat /\ end \in Nat /\ end <= n
                  /\ start <= k /\ k < end <=> page = HomePage(k, L)
<1> DEFINE q == k \div L
           c == pageCount(n, L)
<1>0. L \in Nat /\ L > 0
  BY SMT
<1>1. q \in Nat /\ q * L <= k /\ k < q * L + L
  BY ONLY <1>0, k \in Nat
<1>2. c = (n + L - 1) \div L
  BY SMT, <1>0 DEF pageCount
<1>3. c \in Nat /\ c * L <= n + L - 1 /\ n + L - 1 < c * L + L
  <2> DEFINE m == n + L - 1
  <2>1. m \in Nat
    BY SMT, <1>0
  <2>2. c = m \div L
    BY <1>2
  <2> HIDE DEF m, c
  <2>3. c \in Nat /\ c * L <= m /\ m < c * L + L
    BY ONLY <1>0, <2>1, <2>2
  <2> QED
    BY <2>3 DEF m
<1> HIDE DEF q, c
<1>4. q + 1 \in 1 .. c
  <2> SUFFICES ASSUME ~(q < c) PROVE FALSE
    BY SMT, <1>1, <1>3
  <2>1. q = c \/ c < q
    BY SMT, <1>1, <1>3
  <2>2. c * L <= q * L
    <3>1. CASE q = c
      BY SMT, <1>0, <1>3, <3>1
    <3>2. CASE c < q
      <4>1. c * L + L <= q * L
        BY <1>0, <1>1, <1>3, <3>2, PagesApart
      <4>2. c * L \in Nat /\ q * L \in Nat
        BY SMT, <1>0, <1>1, <1>3
      <4> QED
        BY ONLY <1>0, <4>1, <4>2
    <3> QED
      BY <2>1, <3>1, <3>2
  <2>3. c * L \in Nat /\ q * L \in Nat
    BY SMT, <1>0, <1>1, <1>3
  <2> QED
    BY ONLY <1>0, <1>1, <1>3, <2>2, <2>3, k < n, n \in Nat, k \in Nat
<1>5. ASSUME NEW page \in 1 .. c
      PROVE  LET start == PageStart(page, L, n)
                 end   == PageEnd(page, L, n)
             IN  /\ start \in Nat /\ end \in Nat /\ end <= n
                 /\ start <= k /\ k < end <=> page = q + 1
  <2> DEFINE p == page - 1
  <2>1. page \in Nat /\ p \in Nat /\ ~(page < 1) /\ (page = q + 1 <=> p = q)
    BY SMT, <1>1, <1>3
  <2>2. pageOffset(page, L) = p * L
    BY ONLY <1>0, <2>1 DEF pageOffset
  <2> HIDE DEF p
  <2>3. p * L \in Nat /\ q * L \in Nat
    BY ONLY <1>0, <1>1, <2>1
  <2>4. p < q => p * L + L <= q * L
    BY <1>0, <1>1, <2>1, PagesApart
  <2>5. q < p => q * L + L <= p * L
    BY <1>0, <1>1, <2>1, PagesApart
  <2>6. p = q => p * L = q * L
    OBVIOUS
  <2> DEFINE x == p * L
             y == q * L
  <2>7. /\ x \in Nat /\ y \in Nat /\ y <= k /\ k < y + L
        /\ p < q => x + L <= y
        /\ q < p => y + L <= x
        /\ p = q => x = y
        /\ pageOffset(page, L) = x
    BY <1>1, <2>2, <2>3, <2>4, <2>5, <2>6
  <2> HIDE DEF x, y
  <2> QED
    BY ONLY <1>0, <1>1, <2>1, <2>7, k < n, n \in Nat, k \in Nat
       DEF Minimum, PageStart, PageEnd
<1> QED
  BY <1>4, <1>5 DEF HomePage, q, c

-----------------------------------------------------------------------------
(* The heap.                                                               *)

\* In the order of the instance_uids.
UidOrder(S) == {p \in S \X S : p[1].uid < p[2].uid}

\* What the heap holds of the agents P that it has been shown: all of them, or
\* the n smallest.
Smallest(h, P, n) ==
  /\ h \in SUBSET P /\ Cardinality(h) <= n
  /\ Cardinality(h) < n => h = P
  /\ \A a \in h, b \in P \ h : a.uid < b.uid

\* A finite set of agents has a largest instance_uid.
LEMMA LargestUid ==
  ASSUME NEW h, IsFiniteSet(h), h # {}, \A a \in h : a.uid \in Nat,
         \A a, b \in h : a.uid = b.uid => a = b
  PROVE  \E b \in h : \A c \in h : c.uid <= b.uid
<1>1. PICK s \in InAnyOrder(h) : ByUid(s)
  <2>1. h \in SUBSET h
    OBVIOUS
  <2> QED
    BY <2>1, SortedExists
<1> DEFINE n == Len(s)
<1>2. /\ s \in Seq(h) /\ n = Cardinality(h) /\ DOMAIN s = 1 .. n /\ Range(s) = h
  BY Arranged
<1>3. n \in Nat
  BY SMT, <1>2
<1> HIDE DEF n
<1>4. n # 0
  BY <1>2, FS_EmptySet
<1>5. n \in DOMAIN s /\ \A i \in DOMAIN s : i = n \/ i < n
  BY ONLY <1>2, <1>3, <1>4
<1>6. s[n] \in h
  BY <1>2, <1>5 DEF Range
<1>7. ASSUME NEW c \in h PROVE c.uid <= s[n].uid
  <2>1. PICK i \in DOMAIN s : c = s[i]
    BY <1>2 DEF Range
  <2>2. c.uid = s[n].uid \/ c.uid < s[n].uid
    BY <1>1, <1>5, <2>1 DEF ByUid
  <2>3. c.uid \in Nat /\ s[n].uid \in Nat
    BY <1>6
  <2> QED
    BY ONLY <2>2, <2>3
<1> QED
  BY <1>6, <1>7

\* One turn: the heap takes the agent while it has room, then in the place of
\* its root if the agent is smaller.
LEMMA keepSmallestKeeps ==
  ASSUME NEW P, IsFiniteSet(P), NEW a, a \notin P, NEW n \in Nat \ {0},
         \A b \in P \cup {a} : b.uid \in Nat,
         \A b, c \in P \cup {a} : b.uid = c.uid => b = c,
         NEW h, Smallest(h, P, n)
  PROVE  Smallest(keepSmallest(h, a, n), P \cup {a}, n)
<1>0. n \in Nat /\ n # 0
  OBVIOUS
<1>1. /\ h \in SUBSET P /\ Cardinality(h) <= n
      /\ Cardinality(h) < n => h = P
      /\ \A b \in h, c \in P \ h : b.uid < c.uid
  BY DEF Smallest
<1>2. IsFiniteSet(h)
  BY <1>1, FS_Subset
<1>3. Cardinality(h) \in Nat
  BY <1>2, FS_CardinalityType
<1>4. CASE Cardinality(h) < n
  <2>1. keepSmallest(h, a, n) = P \cup {a}
    BY <1>1, <1>4 DEF keepSmallest
  <2>2. Cardinality(P \cup {a}) = Cardinality(h) + 1
    BY <1>1, <1>4, FS_AddElement
  <2>3. Cardinality(P \cup {a}) <= n
    BY ONLY <1>0, <1>3, <1>4, <2>2
  <2> QED
    BY <2>1, <2>3 DEF Smallest
<1>5. CASE ~(Cardinality(h) < n)
  <2> DEFINE root == CHOOSE b \in h : \A c \in h : c.uid <= b.uid
             g == (h \ {root}) \cup {a}
  <2>1. Cardinality(h) = n
    BY ONLY <1>0, <1>1, <1>3, <1>5
  <2>2. h # {}
    BY <1>0, <2>1, FS_EmptySet
  <2>3. root \in h /\ \A c \in h : c.uid <= root.uid
    <3>1. \E b \in h : \A c \in h : c.uid <= b.uid
      <4>1. (\A b \in h : b.uid \in Nat) /\ \A b, c \in h : b.uid = c.uid => b = c
        BY <1>1
      <4> QED
        BY ONLY Zenon, <1>2, <2>2, <4>1, LargestUid
    <3> QED
      BY <3>1
  <2>4. keepSmallest(h, a, n) = IF a.uid < root.uid THEN g ELSE h
    BY <1>5 DEF keepSmallest
  <2> HIDE DEF root
  <2>5. \A b \in h : b \in P /\ b.uid \in Nat /\ b # a
    BY <1>1
  <2>6. a.uid \in Nat /\ root.uid \in Nat /\ \A b \in P : b.uid \in Nat /\ b.uid # a.uid
    BY <2>3, <2>5
  <2>7. CASE a.uid < root.uid
    <3>1. /\ IsFiniteSet(h \ {root})
          /\ Cardinality(h \ {root}) = Cardinality(h) - 1
      BY <1>2, <2>3, FS_RemoveElement
    <3>2. a \notin h \ {root}
      BY <2>5
    <3>3. Cardinality(g) = Cardinality(h \ {root}) + 1
      BY <3>1, <3>2, FS_AddElement
    <3>4. Cardinality(g) <= n /\ ~(Cardinality(g) < n)
      BY ONLY <1>0, <2>1, <3>1, <3>3
    <3>5. g \in SUBSET (P \cup {a})
      BY <2>5
    <3>6. ASSUME NEW b \in g, NEW c \in (P \cup {a}) \ g
          PROVE  b.uid < c.uid
      <4>1. c \in P /\ (c = root \/ c \notin h) /\ c.uid \in Nat
        BY <2>6
      <4>2. c = root \/ root.uid < c.uid
        BY <1>1, <2>3, <4>1
      <4>3. b = a \/ (b \in h /\ b # root)
        OBVIOUS
      <4>4. b.uid \in Nat /\ root.uid \in Nat
        BY <2>5, <2>6, <4>3
      <4>5. b.uid < root.uid
        <5>1. CASE b = a
          BY <2>7, <5>1
        <5>2. CASE b \in h /\ b # root
          <6>1. b.uid <= root.uid /\ b.uid # root.uid
            BY <2>3, <2>5, <5>2
          <6> QED
            BY ONLY <4>4, <6>1
        <5> QED
          BY <4>3, <5>1, <5>2
      <4>6. root.uid = c.uid \/ root.uid < c.uid
        BY <4>2
      <4> QED
        BY ONLY <4>1, <4>4, <4>5, <4>6
    <3> HIDE DEF g
    <3> QED
      BY <2>4, <2>7, <3>4, <3>5, <3>6 DEF Smallest
  <2>8. CASE ~(a.uid < root.uid)
    <3>1. ASSUME NEW b \in h PROVE b.uid < a.uid
      <4>1. b.uid <= root.uid /\ b.uid \in Nat /\ b.uid # a.uid
        BY <2>3, <2>5, <2>6
      <4> QED
        BY ONLY <2>6, <2>8, <4>1
    <3>2. \A b \in h, c \in (P \cup {a}) \ h : b.uid < c.uid
      BY <1>1, <3>1
    <3>3. h \in SUBSET (P \cup {a})
      BY <1>1
    <3>4. ~(Cardinality(h) < n) /\ Cardinality(h) <= n
      BY <1>1, <1>5
    <3> QED
      BY <2>4, <2>8, <3>2, <3>3, <3>4 DEF Smallest
  <2> QED
    BY <2>7, <2>8
<1> QED
  BY <1>4, <1>5

-----------------------------------------------------------------------------
(* What a filter and the heap leave.                                       *)

MatchTurn(list, f, matched, i) ==
  IF AgentMatches(list[i], f) THEN Append(matched, list[i]) ELSE matched

MatchLoop(list, f, g, n) ==
  g = [i \in 0 .. n |-> IF i = 0 THEN << >> ELSE MatchTurn(list, f, g[i - 1], i)]

\* A filter keeps the agents that match, each of them once.
LEMMA MatchShows ==
  ASSUME NEW list \in Seq(SnapshotOf), Distinct(list), NEW f
  PROVE  /\ MatchingAgents(list, f) \in Seq(SnapshotOf)
         /\ Distinct(MatchingAgents(list, f))
         /\ Range(MatchingAgents(list, f)) =
              {a \in Range(list) : AgentMatches(a, f)}
<1> DEFINE N == Len(list)
           X == Seq(SnapshotOf)
           turn == [p \in X \X (1 .. N) |-> MatchTurn(list, f, p[1], p[2])]
           m == CHOOSE g : MatchLoop(list, f, g, N)
           Past(n) == {k \in 1 .. N : k <= n}
           Shown(n) == {list[k] : k \in {l \in Past(n) : AgentMatches(list[l], f)}}
           Good == {n \in Nat : n <= N =>
                      m[n] \in X /\ Distinct(m[n]) /\ Range(m[n]) = Shown(n)}
<1>n. N \in Nat /\ DOMAIN list = 1 .. N /\ \A k \in 1 .. N : list[k] \in SnapshotOf
  BY SMT
<1>1. MatchingAgents(list, f) = m[N]
  BY DEF MatchingAgents, MatchLoop, MatchTurn
<1>x. << >> \in X
  BY SMT
<1> HIDE DEF N
<1>2. MatchLoop(list, f, m, N)
  <2>1. \A s \in X, i \in 1 .. N : MatchTurn(list, f, s, i) \in X
    <3> SUFFICES ASSUME NEW s \in X, NEW i \in 1 .. N PROVE MatchTurn(list, f, s, i) \in X
      OBVIOUS
    <3>1. Append(s, list[i]) \in X
      BY <1>n, AppendShows
    <3> QED
      BY <3>1 DEF MatchTurn
  <2>2. turn \in [X \X (1 .. N) -> X]
    <3> HIDE DEF X
    <3> QED
      BY <2>1
  <2>3. \A s \in X, i \in 1 .. N : turn[<<s, i>>] = MatchTurn(list, f, s, i)
    <3> HIDE DEF X
    <3> QED
      OBVIOUS
  <2> HIDE DEF turn, X
  <2>4. PICK g \in [0 .. N -> X] : Loop(g, N, << >>, turn)
    BY ONLY Zenon, <1>n, <1>x, <2>2, LoopRuns
  <2>5. \A i \in 0 .. N : i # 0 => i \in 1 .. N /\ i - 1 \in 0 .. N
    BY ONLY <1>n
  <2>6. \A i \in 0 .. N : i # 0 =>
          turn[<<g[i - 1], i>>] = MatchTurn(list, f, g[i - 1], i)
    BY <2>3, <2>5
  <2>7. g = [i \in 0 .. N |-> IF i = 0 THEN << >> ELSE MatchTurn(list, f, g[i - 1], i)]
    BY ONLY Zenon, <2>4, <2>6 DEF Loop
  <2> QED
    BY <2>7 DEF MatchLoop
<1> HIDE DEF m, turn
<1>3. m = [i \in 0 .. N |-> IF i = 0 THEN << >> ELSE MatchTurn(list, f, m[i - 1], i)]
  BY ONLY Zenon, <1>2 DEF MatchLoop
<1>4. 0 \in Good
  <2>1. m[0] = << >>
    BY ONLY <1>3, <1>n
  <2>2. Past(0) = {}
    BY ONLY <1>n
  <2>3. Shown(0) = {}
    BY <2>2
  <2>4. Distinct(<< >>) /\ Range(<< >>) = {}
    BY SMT DEF Distinct, Range
  <2> HIDE DEF Shown, X
  <2> QED
    BY <1>x, <2>1, <2>3, <2>4
<1>5. ASSUME NEW n \in Good PROVE n + 1 \in Good
  <2>1. n \in Nat /\ n + 1 \in Nat
    BY SMT
  <2> SUFFICES ASSUME n + 1 <= N
               PROVE  /\ m[n + 1] \in X /\ Distinct(m[n + 1])
                      /\ Range(m[n + 1]) = Shown(n + 1)
    BY <2>1
  <2>2. n <= N /\ n + 1 \in 1 .. N /\ n + 1 \in 0 .. N /\ n + 1 # 0
        /\ (n + 1) - 1 = n
    BY ONLY <1>n, <2>1, n + 1 <= N
  <2>3. m[n] \in X /\ Distinct(m[n]) /\ Range(m[n]) = Shown(n)
    BY <2>2
  <2> DEFINE a == list[n + 1]
  <2>4. m[n + 1] = MatchTurn(list, f, m[n], n + 1)
    <3>1. m[n + 1] = MatchTurn(list, f, m[(n + 1) - 1], n + 1)
      BY ONLY Zenon, <1>3, <2>2
    <3> QED
      BY <2>2, <3>1
  <2>5. m[n + 1] = IF AgentMatches(a, f) THEN Append(m[n], a) ELSE m[n]
    BY <2>4 DEF MatchTurn
  <2>6. a \in SnapshotOf
    BY <1>n, <2>2
  <2>7. ASSUME NEW k \in 1 .. N PROVE k <= n + 1 <=> k <= n \/ k = n + 1
    BY ONLY <1>n, <2>1, k \in 1 .. N
  <2>8. Past(n + 1) = Past(n) \cup {n + 1}
    BY <2>2, <2>7
  <2>9. n + 1 \notin Past(n) /\ \A k \in Past(n) : k \in DOMAIN list
    <3>1. ~(n + 1 <= n)
      BY ONLY <2>1
    <3> QED
      BY <1>n, <3>1
  <2> HIDE DEF Past
  <2>10. Shown(n + 1) = IF AgentMatches(a, f) THEN Shown(n) \cup {a} ELSE Shown(n)
    BY <2>8
  <2>11. \A b \in Shown(n) : b.uid # a.uid
    <3>1. \A k \in Past(n) : list[k].uid # a.uid
      BY <1>n, <2>2, <2>9 DEF Distinct
    <3> QED
      BY <3>1
  <2> HIDE DEF Shown, a
  <2>12. a.uid \notin Uids(m[n])
    <3>1. \A b \in Range(m[n]) : b.uid # a.uid
      BY ONLY Zenon, <2>3, <2>11
    <3> QED
      BY ONLY Zenon, <3>1 DEF Uids
  <2>13. /\ Append(m[n], a) \in X /\ Range(Append(m[n], a)) = Range(m[n]) \cup {a}
         /\ Distinct(Append(m[n], a))
    BY <2>3, <2>6, <2>12, AppendShows
  <2> QED
    BY <2>3, <2>5, <2>10, <2>13
<1>6. Good \in SUBSET Nat
  OBVIOUS
<1>7. N \in Good /\ N <= N
  <2> HIDE DEF Good
  <2>1. N \in Good
    BY <1>n, <1>4, <1>5, <1>6, SetInduction
  <2> QED
    BY SMT, <1>n, <2>1
<1>8. m[N] \in X /\ Distinct(m[N]) /\ Range(m[N]) = Shown(N)
  <2> HIDE DEF Shown
  <2> QED
    BY <1>7
<1>9. Shown(N) = {a \in Range(list) : AgentMatches(a, f)}
  <2>1. \A k \in 1 .. N : k <= N
    BY ONLY <1>n
  <2>2. Past(N) = DOMAIN list
    BY <1>n, <2>1
  <2> HIDE DEF Past
  <2> QED
    BY <2>2 DEF Range
<1> QED
  BY <1>1, <1>8, <1>9

HeapTurn(list, end, h, i) == keepSmallest(h, list[i], end)

HeapLoop(list, end, h, n) ==
  h = [i \in 0 .. n |-> IF i = 0 THEN {} ELSE HeapTurn(list, end, h[i - 1], i)]

\* The loop over the matching agents leaves the end smallest in the heap.
LEMMA HeapShows ==
  ASSUME NEW list \in Seq(SnapshotOf), Distinct(list), NEW end \in Nat \ {0}
  PROVE  LET h[i \in 0 .. Len(list)] ==
               IF i = 0 THEN {} ELSE keepSmallest(h[i - 1], list[i], end)
         IN  Smallest(h[Len(list)], Range(list), end)
<1> DEFINE N == Len(list)
           X == SUBSET Range(list)
           turn == [p \in X \X (1 .. N) |-> HeapTurn(list, end, p[1], p[2])]
           h == CHOOSE g : HeapLoop(list, end, g, N)
           Past(n) == {list[k] : k \in {l \in 1 .. N : l <= n}}
           Good == {n \in Nat : n <= N => Smallest(h[n], Past(n), end)}
<1>n. N \in Nat /\ DOMAIN list = 1 .. N /\ \A k \in 1 .. N : list[k] \in SnapshotOf
  BY SMT
<1>1. ASSUME Smallest(h[N], Range(list), end)
      PROVE  LET g[i \in 0 .. Len(list)] ==
                   IF i = 0 THEN {} ELSE keepSmallest(g[i - 1], list[i], end)
             IN  Smallest(g[Len(list)], Range(list), end)
  BY <1>1 DEF HeapLoop, HeapTurn
<1> HIDE DEF N
<1>r. /\ IsFiniteSet(Range(list))
      /\ \A a, b \in Range(list) : a.uid = b.uid => a = b
      /\ \A a \in Range(list) : a.uid \in Nat
  BY DistinctCount
<1>2. HeapLoop(list, end, h, N)
  <2>1. ASSUME NEW s \in X, NEW i \in 1 .. N
        PROVE  HeapTurn(list, end, s, i) \in X
    <3>1. list[i] \in Range(list)
      BY <1>n DEF Range
    <3> QED
      BY <3>1 DEF HeapTurn, keepSmallest
  <2>2. turn \in [X \X (1 .. N) -> X]
    <3> HIDE DEF X
    <3> QED
      BY <2>1
  <2>3. \A s \in X, i \in 1 .. N : turn[<<s, i>>] = HeapTurn(list, end, s, i)
    <3> HIDE DEF X
    <3> QED
      OBVIOUS
  <2>x. {} \in X
    OBVIOUS
  <2> HIDE DEF turn, X
  <2>4. PICK g \in [0 .. N -> X] : Loop(g, N, {}, turn)
    BY ONLY Zenon, <1>n, <2>x, <2>2, LoopRuns
  <2>5. \A i \in 0 .. N : i # 0 => i \in 1 .. N /\ i - 1 \in 0 .. N
    BY ONLY <1>n
  <2>6. \A i \in 0 .. N : i # 0 =>
          turn[<<g[i - 1], i>>] = HeapTurn(list, end, g[i - 1], i)
    BY <2>3, <2>5
  <2>7. g = [i \in 0 .. N |-> IF i = 0 THEN {} ELSE HeapTurn(list, end, g[i - 1], i)]
    BY ONLY Zenon, <2>4, <2>6 DEF Loop
  <2> QED
    BY <2>7 DEF HeapLoop
<1> HIDE DEF h, turn
<1>3. h = [i \in 0 .. N |-> IF i = 0 THEN {} ELSE HeapTurn(list, end, h[i - 1], i)]
  BY ONLY Zenon, <1>2 DEF HeapLoop
<1>4. 0 \in Good
  <2>1. h[0] = {}
    BY ONLY <1>3, <1>n
  <2>2. {l \in 1 .. N : l <= 0} = {}
    BY ONLY <1>n
  <2>3. Past(0) = {}
    BY <2>2
  <2>4. Cardinality({}) <= end
    BY SMT, FS_EmptySet
  <2>5. Smallest({}, {}, end)
    BY <2>4 DEF Smallest
  <2> HIDE DEF Past
  <2> QED
    BY <2>1, <2>3, <2>5
<1>5. ASSUME NEW n \in Good PROVE n + 1 \in Good
  <2>1. n \in Nat /\ n + 1 \in Nat
    BY SMT
  <2> SUFFICES ASSUME n + 1 <= N PROVE Smallest(h[n + 1], Past(n + 1), end)
    BY <2>1
  <2>2. n <= N /\ n + 1 \in 1 .. N /\ n + 1 \in 0 .. N /\ n + 1 # 0
        /\ (n + 1) - 1 = n
    BY ONLY <1>n, <2>1, n + 1 <= N
  <2>3. Smallest(h[n], Past(n), end)
    BY <2>2
  <2> DEFINE a == list[n + 1]
  <2>4. h[n + 1] = keepSmallest(h[n], a, end)
    <3>1. h[n + 1] = HeapTurn(list, end, h[(n + 1) - 1], n + 1)
      BY ONLY Zenon, <1>3, <2>2
    <3> QED
      BY <2>2, <3>1 DEF HeapTurn
  <2>5. a \in Range(list) /\ \A b \in Past(n) : b \in Range(list)
    BY <1>n, <2>2 DEF Range
  <2>6. ASSUME NEW k \in 1 .. N PROVE k <= n + 1 <=> k <= n \/ k = n + 1
    BY ONLY <1>n, <2>1, k \in 1 .. N
  <2>7. Past(n + 1) = Past(n) \cup {a}
    BY <2>2, <2>6
  <2>8. a \notin Past(n)
    <3>1. ~(n + 1 <= n)
      BY ONLY <2>1
    <3>2. \A l \in 1 .. N : list[l] = a => l = n + 1
      BY <1>n, <2>2 DEF Distinct
    <3> QED
      BY <3>1, <3>2
  <2> HIDE DEF Past, a
  <2>9. IsFiniteSet(Past(n))
    BY <1>r, <2>5, FS_Subset
  <2>10. /\ \A b \in Past(n) \cup {a} : b.uid \in Nat
         /\ \A b, c \in Past(n) \cup {a} : b.uid = c.uid => b = c
    BY <1>r, <2>5
  <2>11. Smallest(keepSmallest(h[n], a, end), Past(n) \cup {a}, end)
    BY ONLY Zenon, <2>3, <2>8, <2>9, <2>10, end \in Nat \ {0}, keepSmallestKeeps
  <2> QED
    BY <2>4, <2>7, <2>11
<1>6. Good \in SUBSET Nat
  OBVIOUS
<1>7. N \in Good /\ N <= N
  <2> HIDE DEF Good
  <2>1. N \in Good
    BY <1>n, <1>4, <1>5, <1>6, SetInduction
  <2> QED
    BY SMT, <1>n, <2>1
<1>8. Smallest(h[N], Past(N), end)
  <2> HIDE DEF Past
  <2> QED
    BY <1>7
<1>9. Past(N) = Range(list)
  <2>1. \A k \in 1 .. N : k <= N
    BY ONLY <1>n
  <2> QED
    BY <1>n, <2>1 DEF Range
<1> QED
  BY <1>1, <1>8, <1>9 DEF N

\* sort.Slice puts the agents of a slice in the order of their instance_uids.
LEMMA UidSorted ==
  ASSUME NEW S, IsFiniteSet(S), \A a \in S : a.uid \in Nat,
         \A a, b \in S : a.uid = b.uid => a = b, NEW T \in SUBSET S
  PROVE  /\ IsFiniteSet(T) /\ sortByInstanceUID(T) \in InAnyOrder(T)
         /\ InOrder(sortByInstanceUID(T), UidOrder(S))
<1> DEFINE s == sortByInstanceUID(T)
<1>1. IsFiniteSet(T)
  BY FS_Subset
<1>2. \E t \in InAnyOrder(T) : ByUid(t)
  BY <1>1, SortedExists
<1>3. s \in InAnyOrder(T) /\ ByUid(s)
  BY <1>2 DEF sortByInstanceUID, ByUid
<1> HIDE DEF s
<1>4. Range(s) = T
  BY <1>1, <1>3, Arranged
<1>5. ASSUME NEW i \in DOMAIN s, NEW j \in DOMAIN s, i < j
      PROVE  <<s[i], s[j]>> \in UidOrder(S) /\ <<s[j], s[i]>> \notin UidOrder(S)
  <2>1. s[i] \in S /\ s[j] \in S
    BY <1>4 DEF Range
  <2>2. s[i].uid < s[j].uid
    BY <1>3, <1>5 DEF ByUid
  <2>3. s[i].uid \in Nat /\ s[j].uid \in Nat
    BY <2>1
  <2>4. ~(s[j].uid < s[i].uid)
    BY ONLY <2>2, <2>3
  <2> QED
    BY <2>1, <2>2, <2>4 DEF UidOrder
<1> QED
  BY <1>1, <1>3, <1>5 DEF InOrder, s

\* The n smallest agents are those of the first n ranks, with their ranks.
LEMMA SmallestRank ==
  ASSUME NEW S, IsFiniteSet(S), \A a \in S : a.uid \in Nat,
         NEW n \in Nat, NEW h, Smallest(h, S, n), Cardinality(h) = n
  PROVE  /\ \A a \in S : a \in h <=> Rank(S, UidOrder(S), a) < n
         /\ \A a \in h : Rank(h, UidOrder(S), a) = Rank(S, UidOrder(S), a)
<1> DEFINE R == UidOrder(S)
<1>1. h \in SUBSET S /\ \A a \in h, b \in S \ h : a.uid < b.uid
  BY DEF Smallest
<1>2. IsFiniteSet(h)
  BY <1>1, FS_Subset
<1>3. \A a, b \in S : <<a, b>> \in R <=> a.uid < b.uid
  BY DEF UidOrder
<1> HIDE DEF R
<1>4. ASSUME NEW a \in h PROVE Before(h, R, a) = Before(S, R, a)
  <2>1. ASSUME NEW b \in S, <<b, a>> \in R PROVE b \in h
    <3> SUFFICES ASSUME b \notin h PROVE FALSE
      OBVIOUS
    <3>1. a.uid < b.uid /\ b.uid < a.uid
      BY <1>1, <1>3, <2>1
    <3>2. a.uid \in Nat /\ b.uid \in Nat
      BY <1>1
    <3> QED
      BY ONLY <3>1, <3>2
  <2> QED
    BY <1>1, <2>1 DEF Before
<1>5. ASSUME NEW a \in h PROVE Rank(h, R, a) = Rank(S, R, a) /\ Rank(S, R, a) < n
  <2>1. Rank(h, R, a) < Cardinality(h)
    BY <1>2, RankType
  <2> QED
    BY <1>4, <2>1 DEF Rank
<1>6. ASSUME NEW a \in S \ h PROVE ~(Rank(S, R, a) < n)
  <2>1. h \in SUBSET Before(S, R, a)
    BY <1>1, <1>3 DEF Before
  <2>2. Before(S, R, a) \in SUBSET S
    BY DEF Before
  <2>3. IsFiniteSet(Before(S, R, a))
    BY <2>2, FS_Subset
  <2>4. n <= Rank(S, R, a) /\ Rank(S, R, a) \in Nat
    BY <2>1, <2>3, FS_Subset, FS_CardinalityType DEF Rank
  <2> QED
    BY ONLY <2>4, n \in Nat
<1> QED
  BY <1>5, <1>6 DEF R

\* A page of the API shows the agents of its ranks, whether it comes from a
\* sort of all the agents or out of the heap.
LEMMA UidPageShows ==
  ASSUME NEW list \in Seq(SnapshotOf), Distinct(list),
         NEW start \in Nat, NEW end \in Nat, end <= Len(list)
  PROVE  LET S == Range(list)
             R == UidOrder(S)
         IN  Range(pageByInstanceUID(list, start, end)) = OfRanks(S, R, start, end)
<1> DEFINE S == Range(list)
           R == UidOrder(S)
           page == OfRanks(S, R, start, end)
<1>1. /\ IsFiniteSet(S) /\ Cardinality(S) = Len(list)
      /\ \A a, b \in S : a.uid = b.uid => a = b
      /\ \A a \in S : a.uid \in Nat
  BY DistinctCount
<1>2. \A a \in S : Rank(S, R, a) \in Nat
  BY <1>1, RankType
<1>3. CASE end = 0
  <2>1. page = {}
    <3> HIDE DEF S, R
    <3> QED
      BY SMT, <1>2, <1>3 DEF OfRanks
  <2>2. pageByInstanceUID(list, start, end) = << >> /\ Range(<< >>) = {}
    BY SMT, <1>3 DEF pageByInstanceUID, Range
  <2> QED
    BY <2>1, <2>2
<1>4. CASE end # 0 /\ end >= Len(list)
  <2> DEFINE s == sortByInstanceUID(S)
  <2>1. pageByInstanceUID(list, start, end) = Slice(s, start, end)
    BY <1>4 DEF pageByInstanceUID
  <2> HIDE DEF S
  <2>2. s \in InAnyOrder(S) /\ InOrder(s, R)
    <3>1. S \in SUBSET S
      OBVIOUS
    <3> QED
      BY ONLY Zenon, <1>1, <3>1, UidSorted
  <2> HIDE DEF s, R
  <2>3. Range(Slice(s, start, end)) = page
    <3>1. end <= Cardinality(S)
      BY <1>1
    <3> QED
      BY ONLY Zenon, <1>1, <2>2, <3>1, start \in Nat, end \in Nat, PageShows
  <2> QED
    BY <2>1, <2>3 DEF S, R
<1>5. CASE end # 0 /\ ~(end >= Len(list))
  <2>0. end \in Nat \ {0}
    BY <1>5
  <2>1. PICK h : /\ Smallest(h, S, end)
                 /\ pageByInstanceUID(list, start, end) =
                      Slice(sortByInstanceUID(h), start, end)
    <3> DEFINE g[i \in 0 .. Len(list)] ==
                 IF i = 0 THEN {} ELSE keepSmallest(g[i - 1], list[i], end)
    <3>1. Smallest(g[Len(list)], S, end)
      BY <2>0, HeapShows
    <3>2. pageByInstanceUID(list, start, end) =
            Slice(sortByInstanceUID(g[Len(list)]), start, end)
      BY <1>5 DEF pageByInstanceUID
    <3> HIDE DEF g, S
    <3> QED
      BY <3>1, <3>2
  <2> HIDE DEF S
  <2>2. h \in SUBSET S /\ Cardinality(h) <= end /\ (Cardinality(h) < end => h = S)
    BY <2>1 DEF Smallest
  <2>3. IsFiniteSet(h) /\ sortByInstanceUID(h) \in InAnyOrder(h)
        /\ InOrder(sortByInstanceUID(h), R)
    BY ONLY Zenon, <1>1, <2>2, UidSorted
  <2>4. Cardinality(h) = end
    <3>1. Cardinality(h) \in Nat /\ Len(list) \in Nat
      BY <1>1, <2>3, FS_CardinalityType
    <3>2. Cardinality(h) < end => Cardinality(h) = Len(list)
      BY <1>1, <2>2
    <3> QED
      BY ONLY <1>5, <2>2, <3>1, <3>2, end \in Nat
  <2>5. /\ \A a \in S : a \in h <=> Rank(S, R, a) < end
        /\ \A a \in h : Rank(h, R, a) = Rank(S, R, a)
    BY ONLY Zenon, <1>1, <2>1, <2>4, end \in Nat, SmallestRank
  <2> HIDE DEF R
  <2>6. end <= Cardinality(h)
    BY ONLY <2>4, end \in Nat
  <2>7. Range(Slice(sortByInstanceUID(h), start, end)) = OfRanks(h, R, start, end)
    BY ONLY Zenon, <2>3, <2>6, start \in Nat, end \in Nat, PageShows
  <2>8. OfRanks(h, R, start, end) = page
    BY ONLY Zenon, <2>2, <2>5 DEF OfRanks
  <2> QED
    BY <2>1, <2>7, <2>8 DEF S, R
<1> QED
  BY <1>3, <1>4, <1>5

\* The page size of a request.
SizeOf(limit) == parsePagination([limit |-> limit, offset |-> Nil]).limit

\* What parsePagination makes of a request for a page.
LEMMA AskedPage ==
  ASSUME NEW limit \in Limits, NEW page \in Nat \ {0}, NEW sort, NEW order
  PROVE  LET q == Asking(limit, page, sort, order) IN
         /\ SizeOf(limit) \in Nat \ {0}
         /\ parsePagination(q).limit = SizeOf(limit)
         /\ parsePagination(q).offset = pageOffset(page, SizeOf(limit))
         /\ q.sort = sort /\ q.order = order
<1> DEFINE size == SizeOf(limit)
           q == Asking(limit, page, sort, order)
<1>1. Nil \notin Nat
  BY NilAssumption
<1>2. limit = Nil \/ (limit \in Nat \ {0} /\ limit # Nil)
  BY <1>1, FleetPagesAssumption
<1>3. {DefaultLimit, MaxLimit} \subseteq Nat \ {0}
  BY QueryAssumption
<1>4. /\ size = IF limit = Nil THEN DefaultLimit ELSE Minimum(limit, MaxLimit)
      /\ size \in Nat \ {0}
  BY ONLY <1>2, <1>3 DEF SizeOf, parsePagination, Minimum
<1> HIDE DEF size
<1>5. q = [limit |-> limit, offset |-> pageOffset(page, size),
           sort |-> sort, order |-> order]
  BY DEF Asking, size, SizeOf
<1> HIDE DEF q
<1>6. pageOffset(page, size) \in Nat /\ pageOffset(page, size) # Nil
  <2>1. pageOffset(page, size) = (page - 1) * size
    BY SMT, <1>4 DEF pageOffset
  <2>2. page - 1 \in Nat
    BY SMT
  <2>3. (page - 1) * size \in Nat
    BY SMT, <1>4, <2>2
  <2> QED
    BY <1>1, <2>1, <2>3
<1>7. /\ q.limit = limit /\ q.offset = pageOffset(page, size)
      /\ q.sort = sort /\ q.order = order
  BY ONLY <1>5
<1>8. /\ ~(q.limit # Nil /\ q.limit <= 0)
      /\ ~(q.offset # Nil /\ q.offset < 0)
  BY SMT, <1>2, <1>6, <1>7
<1>9. parsePagination(q) =
        [ limit  |-> IF q.limit = Nil THEN DefaultLimit
                     ELSE Minimum(q.limit, MaxLimit),
          offset |-> IF q.offset = Nil THEN 0 ELSE q.offset ]
  BY <1>8 DEF parsePagination
<1>10. parsePagination(q).limit = size /\ parsePagination(q).offset = q.offset
  BY ONLY <1>4, <1>6, <1>7, <1>9
<1> QED
  BY <1>4, <1>7, <1>10 DEF size, q

\* The pages that a list of a given total links to.
LEMMA PagesOfShows ==
  ASSUME NEW total, NEW limit
  PROVE  PagesOf(total, limit) = 1 .. pageCount(total, SizeOf(limit))
BY DEF PagesOf, pageList, Range, SizeOf

-----------------------------------------------------------------------------
(* What a request reads out of an agent.                                   *)

\* An agent whose sections hold what a request reads out of them.
Legible == {a \in SnapshotOf : Readable(a.fields)}

\* What a request reads out of an agent's sections.
LEMMA LegibleReads ==
  ASSUME NEW a \in Legible
  PROVE  /\ \A key \in Key : Attr(a, key) \in Nat
         /\ Healthy(a) \in BOOLEAN /\ SupervisorManaged(a) \in BOOLEAN
         /\ RoleOf(a) \in Nat /\ DisplayNameOf(a) \in Nat
         /\ a.uid \in Nat /\ a.lastSeen \in Nat /\ a.connected \in BOOLEAN
         /\ a.conn.viaGateway \in BOOLEAN /\ a.conn.transport \in Nat
<1>1. a \in SnapshotOf /\ Readable(a.fields)
  BY DEF Legible
<1>2. ASSUME NEW key \in Key PROVE Attr(a, key) \in Nat
  <2> DEFINE d == a.fields[Description]
  <2>1. d = Nil \/ d \in [identifying    : [Key -> Nat \cup {Nil}],
                          nonIdentifying : [Key -> Nat \cup {Nil}]]
    BY <1>1 DEF Readable
  <2> HIDE DEF d
  <2>2. d # Nil => d.identifying[key] \in Nat \cup {Nil}
                   /\ d.nonIdentifying[key] \in Nat \cup {Nil}
    BY <2>1
  <2>3. attrValue(a, key) \in Nat \cup {Nil}
    BY <2>2 DEF attrValue, d
  <2> QED
    BY <2>3 DEF Attr
<1>3. Healthy(a) \in BOOLEAN
  <2>1. a.fields[Health] = Nil \/ a.fields[Health] \in [healthy : BOOLEAN]
    BY <1>1 DEF Readable
  <2> QED
    BY <2>1 DEF Healthy, HealthReported
<1>4. SupervisorManaged(a) \in BOOLEAN
  BY DEF SupervisorManaged
<1>5. {"service.name", "host.name", "service.component"} \subseteq Key
  BY QueryAssumption
<1>6. /\ a.uid \in Uid /\ a.lastSeen \in Nat /\ a.connected \in BOOLEAN
      /\ a.conn \in Conn
  BY <1>1 DEF SnapshotOf
<1>7. a.uid \in Nat
  <2>1. \A u \in Uid : u \in Nat
    BY UidAssumption
  <2> QED
    BY <1>6, <2>1
<1>8. RoleOf(a) \in Nat
  <2>1. GatewayRole \in Nat /\ CollectorRole \in Nat
    BY QueryAssumption
  <2> QED
    BY <1>2, <1>5, <2>1 DEF RoleOf
<1>9. DisplayNameOf(a) \in Nat
  BY <1>2, <1>5, <1>7 DEF DisplayNameOf
<1>10. a.conn \in [viaGateway : BOOLEAN, transport : Nat]
  BY <1>6, QueryAssumption
<1>11. a.conn.viaGateway \in BOOLEAN /\ a.conn.transport \in Nat
  BY <1>10
<1> QED
  BY <1>2, <1>3, <1>4, <1>6, <1>7, <1>8, <1>9, <1>11

\* Every column of the table compares by a number.
LEMMA sortValueType ==
  ASSUME NEW a \in Legible, NEW key \in sortColumns
  PROVE  sortValue(a, key) \in Int
<1>1. /\ Attr(a, "service.version") \in Nat /\ RoleOf(a) \in Nat
      /\ DisplayNameOf(a) \in Nat /\ a.uid \in Nat /\ a.lastSeen \in Nat
      /\ a.conn.transport \in Nat
  <2>1. "service.version" \in Key
    BY QueryAssumption
  <2> QED
    BY <2>1, LegibleReads
<1>2. statusRank(a) \in Nat /\ (IF a.conn.viaGateway THEN 1 ELSE 0) \in Nat
  BY DEF statusRank
<1>3. sortValue(a, key) \in Nat
  BY <1>1, <1>2 DEF sortColumns, sortValue
<1> QED
  BY SMT, <1>3

\* compare has no ties: of two different agents one comes first, whichever of
\* the two it is asked about.
LEMMA compareDecides ==
  ASSUME NEW a \in Legible, NEW b \in Legible, a.uid # b.uid,
         NEW key \in sortColumns
  PROVE  /\ compare(a, b, key) \in Int /\ compare(b, a, key) \in Int
         /\ compare(a, b, key) <= 0 <=> ~(compare(b, a, key) <= 0)
         /\ compare(a, b, key) >= 0 <=> ~(compare(b, a, key) >= 0)
<1>1. /\ sortValue(a, key) \in Int /\ sortValue(b, key) \in Int
      /\ a.uid \in Nat /\ b.uid \in Nat
  BY sortValueType, LegibleReads
<1> QED
  BY ONLY <1>1, a.uid # b.uid DEF compare

\* A filter and its opposite: an agent passes exactly one.
LEMMA OppositesDecide ==
  ASSUME NEW pair \in Opposites, NEW a \in Legible
  PROVE  AgentMatches(a, pair[1]) <=> ~AgentMatches(a, pair[2])
<1>1. ASSUME NEW m \in Matchers,
             pair = << [matchers |-> {m}, bools |-> << >>],
                       [matchers |-> {[m EXCEPT !.op = Negation[m.op]]},
                        bools |-> << >>] >>
      PROVE  AgentMatches(a, pair[1]) <=> ~AgentMatches(a, pair[2])
  <2> DEFINE n == [m EXCEPT !.op = Negation[m.op]]
  <2>1. m \in [key : Key, op : DOMAIN Negation, values : SUBSET Nat]
    BY FleetPagesAssumption
  <2>2. n.key = m.key /\ n.values = m.values /\ n.op = Negation[m.op]
        /\ m.op \in DOMAIN Negation
    BY <2>1
  <2>3. m.op \in {"=", "=~"} <=> Negation[m.op] \notin {"=", "=~"}
    BY <2>2 DEF Negation
  <2> HIDE DEF n
  <2>4. matchAttr(a, m) <=> ~matchAttr(a, n)
    BY <2>2, <2>3 DEF matchAttr
  <2>5. /\ pair[1].matchers = {m} /\ DOMAIN pair[1].bools = {}
        /\ pair[2].matchers = {n} /\ DOMAIN pair[2].bools = {}
    BY SMT, <1>1 DEF n
  <2> QED
    BY <2>4, <2>5 DEF AgentMatches
<1>2. ASSUME NEW key \in boolFields,
             pair = << [matchers |-> {}, bools |-> [k \in {key} |-> TRUE]],
                       [matchers |-> {}, bools |-> [k \in {key} |-> FALSE]] >>
      PROVE  AgentMatches(a, pair[1]) <=> ~AgentMatches(a, pair[2])
  <2>1. boolField(a, key) \in BOOLEAN
    BY LegibleReads DEF boolField, boolFields
  <2>2. /\ pair[1].matchers = {} /\ DOMAIN pair[1].bools = {key}
        /\ pair[1].bools[key] = TRUE
        /\ pair[2].matchers = {} /\ DOMAIN pair[2].bools = {key}
        /\ pair[2].bools[key] = FALSE
    BY <1>2
  <2> QED
    BY <2>1, <2>2 DEF AgentMatches
<1> QED
  BY <1>1, <1>2 DEF Opposites

-----------------------------------------------------------------------------
(* The pages of GET /api/agents.                                           *)

\* Of the pages of n agents that are linked to, a's home page shows a's rank
\* and no other page does.
OneHome(S, R, a, L, n) ==
  /\ HomePage(Rank(S, R, a), L) \in 1 .. pageCount(n, L)
  /\ \A page \in 1 .. pageCount(n, L) :
       /\ PageStart(page, L, n) \in Nat
       /\ PageEnd(page, L, n) \in Nat /\ PageEnd(page, L, n) <= n
       /\ a \in OfRanks(S, R, PageStart(page, L, n), PageEnd(page, L, n)) <=>
            page = HomePage(Rank(S, R, a), L)

\* Every agent has a home page.
LEMMA OnHomePage ==
  ASSUME NEW S, IsFiniteSet(S), NEW R, NEW a \in S, NEW L \in Nat \ {0},
         NEW n, n = Cardinality(S)
  PROVE  OneHome(S, R, a, L, n)
<1> DEFINE k == Rank(S, R, a)
<1>1. n \in Nat /\ k \in Nat /\ k < n
  BY FS_CardinalityType, RankType
<1> HIDE DEF k
<1>2. /\ HomePage(k, L) \in 1 .. pageCount(n, L)
      /\ \A page \in 1 .. pageCount(n, L) :
           LET start == PageStart(page, L, n)
               end   == PageEnd(page, L, n)
           IN  /\ start \in Nat /\ end \in Nat /\ end <= n
               /\ start <= k /\ k < end <=> page = HomePage(k, L)
  BY <1>1, HomePageShows
<1> QED
  BY <1>2 DEF OneHome, OfRanks, k

\* The agents of a list that pass a filter.
Passing(list, f) == {a \in Range(list) : AgentMatches(a, f)}

\* GET /api/agents, page by page: every agent that passes the filter has one
\* page that shows it, and no page shows another agent.
LEMMA ApiPagesShow ==
  ASSUME NEW list \in Seq(SnapshotOf), Distinct(list), NEW limit \in Limits, NEW f
  PROVE  LET ask(page) == listAgents(list, Asking(limit, page, Nil, Nil), f)
             pages == PagesOf(ask(1).total, limit)
         IN  /\ \A a \in Passing(list, f) : \E home \in pages : \A page \in pages :
                  a.uid \in Uids(ask(page).page) <=> page = home
             /\ \A page \in pages :
                  Uids(ask(page).page) \subseteq {a.uid : a \in Passing(list, f)}
<1> DEFINE S == Passing(list, f)
           R == UidOrder(S)
           L == SizeOf(limit)
           n == Cardinality(S)
           m == MatchingAgents(list, f)
           ask(page) == listAgents(list, Asking(limit, page, Nil, Nil), f)
           start(page) == PageStart(page, L, n)
           end(page) == PageEnd(page, L, n)
<1>1. m \in Seq(SnapshotOf) /\ Distinct(m) /\ Range(m) = S
  BY MatchShows DEF Passing
<1> HIDE DEF S
<1>2. /\ IsFiniteSet(S) /\ n = Len(m)
      /\ \A a, b \in S : a.uid = b.uid => a = b
  BY <1>1, DistinctCount
<1>3. n \in Nat
  BY <1>2, FS_CardinalityType
<1>4. 1 \in Nat \ {0}
  BY SMT
<1>5. L \in Nat \ {0}
  BY <1>4, AskedPage
<1>6. \A page : ask(page).total = n
  BY <1>2 DEF listAgents
<1>7. PagesOf(ask(1).total, limit) = 1 .. pageCount(n, L)
  BY <1>6, PagesOfShows
<1> DEFINE pages == 1 .. pageCount(n, L)
<1>8. \A page \in pages : page \in Nat \ {0}
  <2>1. pageCount(n, L) \in Nat
    BY ONLY <1>3, <1>5 DEF pageCount
  <2> HIDE DEF n, L
  <2> QED
    BY SMT, <2>1
<1>9. ASSUME NEW page \in pages
      PROVE  ask(page).page = pageByInstanceUID(m, start(page), end(page))
  <2> DEFINE q == Asking(limit, page, Nil, Nil)
             p == parsePagination(q)
  <2>1. p.limit = L /\ p.offset = pageOffset(page, L)
    <3>1. page \in Nat \ {0}
      BY <1>8
    <3> QED
      BY ONLY <3>1, limit \in Limits, AskedPage
  <2>2. ask(page).page =
          LET s == Minimum(p.offset, Len(m))
              e == Minimum(s + p.limit, Len(m))
          IN  pageByInstanceUID(m, s, e)
    BY DEF listAgents
  <2> HIDE DEF p, ask, m, n, L
  <2> QED
    BY <1>2, <2>1, <2>2 DEF PageStart, PageEnd
<1> HIDE DEF L, n, m, ask
<1>10. ASSUME NEW page \in pages, start(page) \in Nat, end(page) \in Nat,
              end(page) <= n
       PROVE  Range(ask(page).page) = OfRanks(S, R, start(page), end(page))
  <2>1. end(page) <= Len(m)
    BY <1>2, <1>10
  <2> DEFINE x == start(page)
             y == end(page)
  <2>2. x \in Nat /\ y \in Nat /\ y <= Len(m)
    BY <1>10, <2>1
  <2> HIDE DEF x, y
  <2>3. Range(pageByInstanceUID(m, x, y)) = OfRanks(Range(m), UidOrder(Range(m)), x, y)
    BY ONLY Zenon, <1>1, <2>2, UidPageShows
  <2> QED
    BY <1>1, <1>9, <2>3 DEF x, y
<1> HIDE DEF R
<1>11. ASSUME NEW a \in S
       PROVE  /\ HomePage(Rank(S, R, a), L) \in pages
              /\ \A page \in pages :
                   /\ start(page) \in Nat /\ end(page) \in Nat /\ end(page) <= n
                   /\ a \in OfRanks(S, R, start(page), end(page)) <=>
                        page = HomePage(Rank(S, R, a), L)
  <2>1. n = Cardinality(S) /\ IsFiniteSet(S)
    BY <1>2 DEF n
  <2>2. OneHome(S, R, a, L, n)
    BY ONLY Zenon, <1>5, <2>1, a \in S, OnHomePage
  <2> QED
    BY <2>2 DEF OneHome
<1> HIDE DEF pages, start, end
<1>12. ASSUME NEW a \in S
       PROVE  \E home \in pages : \A page \in pages :
                a.uid \in Uids(ask(page).page) <=> page = home
  <2> DEFINE home == HomePage(Rank(S, R, a), L)
  <2>1. home \in pages
    BY <1>11
  <2>2. ASSUME NEW page \in pages
        PROVE  a.uid \in Uids(ask(page).page) <=> page = home
    <3>1. Range(ask(page).page) = OfRanks(S, R, start(page), end(page))
      BY <1>10, <1>11
    <3>2. \A b \in Range(ask(page).page) : b \in S
      BY <3>1 DEF OfRanks
    <3>3. a.uid \in Uids(ask(page).page) <=> a \in Range(ask(page).page)
      BY <1>2, <3>2 DEF Uids
    <3>4. a \in OfRanks(S, R, start(page), end(page)) <=> page = home
      BY <1>11
    <3> QED
      BY <3>1, <3>3, <3>4
  <2> HIDE DEF home
  <2> QED
    BY <2>1, <2>2
<1>13. ASSUME NEW page \in pages
       PROVE  Uids(ask(page).page) \subseteq {a.uid : a \in S}
  <2>1. CASE S = {}
    <3>1. n = 0
      BY <2>1, FS_EmptySet DEF n
    <3>2. pageCount(n, L) = 0
      BY SMT, <3>1 DEF pageCount
    <3>3. pages = {}
      BY SMT, <3>2 DEF pages
    <3> QED
      BY <3>3
  <2>2. CASE S # {}
    <3>1. PICK b : b \in S
      BY <2>2
    <3>2. Range(ask(page).page) = OfRanks(S, R, start(page), end(page))
      BY <1>10, <1>11, <3>1
    <3>3. \A a \in Range(ask(page).page) : a \in S
      BY <3>2 DEF OfRanks
    <3> QED
      BY <3>3 DEF Uids
  <2> QED
    BY <2>1, <2>2
<1> DEFINE Q == PagesOf(ask(1).total, limit)
<1>14. Q = pages
  BY <1>7 DEF pages
<1> HIDE DEF Q
<1>15. \A a \in S : \E home \in Q : \A page \in Q :
         a.uid \in Uids(ask(page).page) <=> page = home
  BY ONLY Zenon, <1>12, <1>14
<1>16. \A page \in Q : Uids(ask(page).page) \subseteq {a.uid : a \in S}
  BY ONLY Zenon, <1>13, <1>14
<1> QED
  BY ONLY Zenon, <1>15, <1>16 DEF S, ask, Q

\* The pages of GET /api/agents with a filter, and what each of them shows.
ApiPages(list, limit, f) ==
  LET ask(page) == listAgents(list, Asking(limit, page, Nil, Nil), f)
  IN  {<<page, Uids(ask(page).page)>> : page \in PagesOf(ask(1).total, limit)}

\* How many of them show an agent.
TimesShown(list, limit, f, id) ==
  Cardinality({p \in ApiPages(list, limit, f) : id \in p[2]})

\* They show an agent once if it passes the filter, and not at all otherwise.
LEMMA ApiPagesCount ==
  ASSUME NEW list \in Seq(SnapshotOf), Distinct(list), NEW limit \in Limits, NEW f,
         NEW a \in Range(list)
  PROVE  TimesShown(list, limit, f, a.uid) = IF AgentMatches(a, f) THEN 1 ELSE 0
<1> DEFINE ask(page) == listAgents(list, Asking(limit, page, Nil, Nil), f)
           pages == PagesOf(ask(1).total, limit)
           shows(page) == Uids(ask(page).page)
           on == {p \in ApiPages(list, limit, f) : a.uid \in p[2]}
<1>1. /\ \A b \in Passing(list, f) : \E home \in pages : \A page \in pages :
           b.uid \in shows(page) <=> page = home
      /\ \A page \in pages : shows(page) \subseteq {b.uid : b \in Passing(list, f)}
  BY ApiPagesShow
<1>2. ApiPages(list, limit, f) = {<<page, shows(page)>> : page \in pages}
  BY DEF ApiPages
<1>3. \A b, c \in Range(list) : b.uid = c.uid => b = c
  BY DistinctCount
<1> HIDE DEF ask, pages, shows
<1>4. CASE AgentMatches(a, f)
  <2>1. a \in Passing(list, f)
    BY <1>4 DEF Passing
  <2>2. PICK home \in pages : \A page \in pages : a.uid \in shows(page) <=> page = home
    BY <1>1, <2>1
  <2>3. on = {<<home, shows(home)>>}
    BY SMT, <1>2, <2>2
  <2>4. Cardinality(on) = 1
    BY ONLY Zenon, <2>3, FS_Singleton
  <2> HIDE DEF on
  <2> QED
    BY ONLY <1>4, <2>4 DEF TimesShown, on
<1>5. CASE ~AgentMatches(a, f)
  <2>1. \A b \in Passing(list, f) : b.uid # a.uid
    BY <1>3, <1>5 DEF Passing
  <2>2. \A page \in pages : a.uid \notin shows(page)
    BY <1>1, <2>1
  <2>3. on = {}
    BY SMT, <1>2, <2>2
  <2>4. Cardinality(on) = 0
    BY ONLY Zenon, <2>3, FS_EmptySet
  <2> HIDE DEF on
  <2> QED
    BY ONLY <1>5, <2>4 DEF TimesShown, on
<1> QED
  BY <1>4, <1>5

\* The pages of two opposite filters show every agent once.
LEMMA ApiPagesPartitionList ==
  ASSUME NEW list \in Seq(SnapshotOf), Distinct(list),
         \A a \in Range(list) : a \in Legible,
         NEW limit \in Limits, NEW pair \in Opposites, NEW id \in Uids(list)
  PROVE  TimesShown(list, limit, pair[1], id) + TimesShown(list, limit, pair[2], id) = 1
<1>1. PICK a \in Range(list) : id = a.uid
  BY DEF Uids
<1>2. \A f : TimesShown(list, limit, f, a.uid) = IF AgentMatches(a, f) THEN 1 ELSE 0
  BY ApiPagesCount
<1>3. AgentMatches(a, pair[1]) <=> ~AgentMatches(a, pair[2])
  BY <1>1, OppositesDecide
<1> QED
  BY ONLY <1>1, <1>2, <1>3

-----------------------------------------------------------------------------
(* The UI's table.                                                         *)

\* The order of a sort.
SortOrder(S, sort) ==
  {p \in S \X S : IF sort.order = "desc" THEN compare(p[1], p[2], sort.key) >= 0
                  ELSE compare(p[1], p[2], sort.key) <= 0}

\* However the sort comes out, it is an arrangement in that order.
LEMMA sortAgentsSorts ==
  ASSUME NEW list \in Seq(SnapshotOf), Distinct(list),
         \A a \in Range(list) : a \in Legible,
         NEW sort, sort.key \in sortColumns, NEW s \in sortAgents(list, sort)
  PROVE  s \in InAnyOrder(Range(list)) /\ InOrder(s, SortOrder(Range(list), sort))
<1> DEFINE S == Range(list)
           D == DOMAIN list
           before(a, b) == IF sort.order = "desc" THEN compare(a, b, sort.key) >= 0
                           ELSE compare(a, b, sort.key) <= 0
<1>1. PICK p \in Injection(D, D) :
        /\ \A i, j \in D : i < j => before(list[p[i]], list[p[j]])
        /\ s = [i \in D |-> list[p[i]]]
  BY DEF sortAgents
<1>2. p \in [D -> D] /\ \A i, j \in D : p[i] = p[j] => i = j
  BY <1>1 DEF Injection, IsInjective
<1>3. D = 1 .. Cardinality(S)
  <2>1. Cardinality(S) = Len(list)
    BY DistinctCount
  <2> QED
    BY SMT, <2>1
<1> HIDE DEF D, S
<1>4. \A i \in D : list[i] \in S /\ list[i] \in Legible
  BY DEF D, S, Range
<1>5. \A i, j \in D : list[i].uid = list[j].uid => i = j
  BY DEF Distinct, D
<1>6. s \in [D -> S] /\ DOMAIN s = D /\ \A i \in D : s[i] = list[p[i]]
  BY <1>1, <1>2, <1>4
<1>7. \A i, j \in D : i # j => s[i].uid # s[j].uid
  <2> SUFFICES ASSUME NEW i \in D, NEW j \in D, s[i].uid = s[j].uid
               PROVE  i = j
    OBVIOUS
  <2>1. list[p[i]].uid = list[p[j]].uid
    BY ONLY Zenon, <1>6, i \in D, j \in D, s[i].uid = s[j].uid
  <2>2. p[i] = p[j]
    BY ONLY Zenon, <1>2, <1>5, <2>1, i \in D, j \in D
  <2> QED
    BY <1>2, <2>2
<1>8. s \in InAnyOrder(S)
  <2>1. \A i, j \in D : s[i] = s[j] => i = j
    BY <1>7
  <2>2. s \in Injection(D, S)
    BY <1>6, <2>1 DEF Injection, IsInjective
  <2> QED
    BY <1>3, <2>2 DEF InAnyOrder
<1>9. ASSUME NEW i \in D, NEW j \in D, i < j
      PROVE  <<s[i], s[j]>> \in SortOrder(S, sort) /\ <<s[j], s[i]>> \notin SortOrder(S, sort)
  <2>1. /\ s[i] \in S /\ s[j] \in S /\ s[i] \in Legible /\ s[j] \in Legible
        /\ before(s[i], s[j])
    BY <1>1, <1>2, <1>4, <1>6, <1>9
  <2>2. i # j
    BY SMT, <1>3, <1>9
  <2>3. s[i].uid # s[j].uid
    BY <1>7, <2>2
  <2>4. ~before(s[j], s[i])
    BY <2>1, <2>3, compareDecides
  <2>5. \A a, b \in S : <<a, b>> \in SortOrder(S, sort) <=> before(a, b)
    BY DEF SortOrder
  <2> HIDE DEF before
  <2> QED
    BY <2>1, <2>4, <2>5
<1> QED
  BY <1>6, <1>8, <1>9 DEF InOrder, S

\* A sort parameter that names no column sorts by instance.
LEMMA parseSortType ==
  ASSUME NEW q
  PROVE  parseSort(q).key \in sortColumns
<1>1. "instance" \in sortColumns
  BY DEF sortColumns
<1> QED
  BY <1>1 DEF parseSort

\* One page of the table shows an agent, whichever way each of the requests sorts.
HasHome(list, limit, sort, order, id) ==
  LET all == [matchers |-> {}, bools |-> << >>]
      shows(page) == fleetData(list, Asking(limit, page, sort, order), all)
      pages == PagesOf(Len(list), limit)
  IN  \E home \in pages : \A page \in pages : \A some \in shows(page) :
        id \in Uids(some) <=> page = home

\* Every agent of the list has a home.
LEMMA UiPagesCoverList ==
  ASSUME NEW list \in Seq(SnapshotOf), Distinct(list),
         \A a \in Range(list) : a \in Legible,
         NEW limit \in Limits, NEW sort, NEW order, NEW id \in Uids(list)
  PROVE  HasHome(list, limit, sort, order, id)
<1> DEFINE all == [matchers |-> {}, bools |-> << >>]
           shows(page) == fleetData(list, Asking(limit, page, sort, order), all)
           m == MatchingAgents(list, all)
           by == parseSort([sort |-> sort, order |-> order])
           S == Range(list)
           R == SortOrder(S, by)
           L == SizeOf(limit)
           n == Cardinality(S)
           pages == 1 .. pageCount(n, L)
           start(page) == PageStart(page, L, n)
           end(page) == PageEnd(page, L, n)
<1>1. /\ IsFiniteSet(S) /\ n = Len(list)
      /\ \A a, b \in S : a.uid = b.uid => a = b
  BY DistinctCount
<1>2. m \in Seq(SnapshotOf) /\ Distinct(m) /\ Range(m) = S
  <2>1. all.matchers = {} /\ DOMAIN all.bools = {}
    BY SMT
  <2> HIDE DEF all
  <2>2. \A a : AgentMatches(a, all)
    BY <2>1 DEF AgentMatches
  <2> QED
    BY <2>2, MatchShows
<1>3. Len(m) = n
  BY <1>2, DistinctCount
<1>4. 1 \in Nat \ {0} /\ n \in Nat
  BY SMT, <1>1
<1>5. L \in Nat \ {0}
  BY <1>4, AskedPage
<1>6. \A page \in pages : page \in Nat \ {0}
  <2>1. pageCount(n, L) \in Nat
    BY ONLY <1>4, <1>5 DEF pageCount
  <2> HIDE DEF n, L
  <2> QED
    BY SMT, <2>1
<1>7. PagesOf(Len(list), limit) = pages
  BY <1>1, PagesOfShows
<1>8. by.key \in sortColumns
  BY parseSortType
<1>9. ASSUME NEW page \in pages
      PROVE  shows(page) = {Slice(s, start(page), end(page)) : s \in sortAgents(m, by)}
  <2> DEFINE q == Asking(limit, page, sort, order)
             p == parsePagination(q)
  <2>1. /\ p.limit = L /\ p.offset = pageOffset(page, L)
        /\ q.sort = sort /\ q.order = order
    <3>1. page \in Nat \ {0}
      BY <1>6
    <3> QED
      BY ONLY <3>1, limit \in Limits, AskedPage
  <2>2. shows(page) =
          LET x == Minimum(p.offset, Len(m))
              y == Minimum(x + p.limit, Len(m))
          IN  {Slice(s, x, y) : s \in sortAgents(m, parseSort(q))}
    BY DEF fleetData
  <2>3. parseSort(q) = by
    <3> HIDE DEF q
    <3> QED
      BY <2>1 DEF parseSort
  <2> HIDE DEF p, q, m, n, L, by, shows
  <2> QED
    BY <1>3, <2>1, <2>2, <2>3 DEF PageStart, PageEnd
<1> HIDE DEF L, m, shows, by, R, S
<1>10. \A s \in sortAgents(m, by) : s \in InAnyOrder(S) /\ InOrder(s, R)
  <2>1. \A a \in Range(m) : a \in Legible
    BY <1>2 DEF S
  <2>2. \A s \in sortAgents(m, by) :
          s \in InAnyOrder(Range(m)) /\ InOrder(s, SortOrder(Range(m), by))
    BY ONLY Zenon, <1>2, <1>8, <2>1, sortAgentsSorts
  <2> QED
    BY ONLY Zenon, <1>2, <2>2 DEF R
<1>11. PICK a \in S : id = a.uid
  BY DEF Uids, S
<1> DEFINE home == HomePage(Rank(S, R, a), L)
<1>12. /\ home \in pages
       /\ \A page \in pages :
            /\ start(page) \in Nat /\ end(page) \in Nat /\ end(page) <= n
            /\ a \in OfRanks(S, R, start(page), end(page)) <=> page = home
  <2>1. n = Cardinality(S) /\ a \in S /\ IsFiniteSet(S)
    BY <1>1
  <2> HIDE DEF n
  <2>2. OneHome(S, R, a, L, n)
    BY ONLY Zenon, <1>5, <2>1, OnHomePage
  <2> QED
    BY <2>2 DEF OneHome
<1>13. ASSUME NEW page \in pages, NEW some \in shows(page)
       PROVE  id \in Uids(some) <=> page = home
  <2> DEFINE x == start(page)
             y == end(page)
  <2>1. PICK s \in sortAgents(m, by) : some = Slice(s, x, y)
    BY <1>9, <1>13
  <2>2. x \in Nat /\ y \in Nat /\ y <= Cardinality(S)
    BY <1>12
  <2>3. a \in OfRanks(S, R, x, y) <=> page = home
    BY <1>12
  <2>4. s \in InAnyOrder(S) /\ InOrder(s, R)
    BY <1>10
  <2> HIDE DEF x, y
  <2>5. Range(some) = OfRanks(S, R, x, y)
    BY ONLY Zenon, <1>1, <2>1, <2>2, <2>4, PageShows
  <2>6. \A b \in Range(some) : b \in S
    BY <2>5 DEF OfRanks
  <2>7. id \in Uids(some) <=> a \in Range(some)
    BY <1>1, <1>11, <2>6 DEF Uids
  <2> QED
    BY <2>3, <2>5, <2>7
<1> DEFINE Q == PagesOf(Len(list), limit)
<1>14. Q = pages
  BY <1>7
<1> HIDE DEF home, pages, Q
<1>15. \E h \in Q : \A page \in Q : \A some \in shows(page) : id \in Uids(some) <=> page = h
  BY <1>12, <1>13, <1>14
<1> QED
  BY ONLY Zenon, <1>15 DEF HasHome, Q, shows

-----------------------------------------------------------------------------
(* Readable sections.                                                      *)

\* What the pages of a merged list need beside ReadInv: every agent, row and
\* answer holds sections of the messages' form.
ReadableInv ==
  /\ \A id \in Uid : agents[id] # Nil => Readable(agents[id].fields)
  /\ \A id \in Uid : agentRow[id] # Nil => Readable(agentRow[id].fields)
  /\ \A a \in Range(local) \cup Range(db) : Readable(a.fields)

\* The two sections are columns of agents.
LEMMA ColumnSections ==
  /\ Description \in AgentColumn /\ Health \in AgentColumn
  /\ Description \in Section /\ Health \in Section
BY SectionAssumption, QueryAssumption DEF AgentColumn

\* A message is folded in section by section.
LEMMA ReportedReadable ==
  ASSUME NEW entry, NEW msg, NEW meta, NEW now, Readable(msg),
         entry # Nil => Readable(entry.fields)
  PROVE  Readable(Reported(entry, msg, meta, now).fields)
<1> DEFINE f == Reported(entry, msg, meta, now).fields
<1>1. f = [s \in Section |-> IF msg[s] # Nil THEN msg[s]
                             ELSE IF entry = Nil THEN Nil ELSE entry.fields[s]]
  BY DEF Reported
<1> HIDE DEF f
<1>2. \A s \in Section : \/ f[s] = msg[s]
                         \/ f[s] = Nil
                         \/ entry # Nil /\ f[s] = entry.fields[s]
  BY ONLY Zenon, <1>1
<1>3. Readable(f)
  BY <1>2, ColumnSections DEF Readable
<1> QED
  BY <1>3 DEF f

\* A sweep leaves the sections of the agents it leaves.
LEMMA SweptReadable ==
  ASSUME NEW entry \in Entry \cup {Nil}, NEW now, Swept(entry, now) # Nil
  PROVE  entry # Nil /\ Swept(entry, now).fields = entry.fields
<1>1. entry # Nil
  BY DEF Swept
<1>2. entry \in Entry
  BY <1>1
<1>3. [entry EXCEPT !.connected = FALSE].fields = entry.fields
  BY ONLY <1>2 DEF Entry
<1> QED
  BY <1>1, <1>3 DEF Swept

\* The upsert writes the entry's columns or leaves the row's.
LEMMA UpsertReadable ==
  ASSUME NEW row, NEW entry, Readable(entry.fields),
         row # Nil => Readable(row.fields)
  PROVE  Readable(UpsertAgent(row, entry).fields)
<1> DEFINE c == AgentColumns(entry)
<1>1. c[Description] = entry.fields[Description] /\ c[Health] = entry.fields[Health]
  BY ColumnSections DEF AgentColumns
<1> HIDE DEF c
<1>2. Readable(c)
  BY <1>1 DEF Readable
<1>3. CASE AgentsGuard(row, entry)
  <2>1. UpsertAgent(row, entry).fields = c
    BY <1>3 DEF UpsertAgent, c
  <2> QED
    BY <1>2, <2>1
<1>4. CASE ~AgentsGuard(row, entry)
  <2>1. UpsertAgent(row, entry) = row /\ row # Nil
    BY <1>4 DEF UpsertAgent, AgentsGuard
  <2> QED
    BY <2>1
<1> QED
  BY <1>3, <1>4

\* A row read back says what it said.
LEMMA ScanReadable ==
  ASSUME NEW id, NEW row, NEW session, Readable(row.fields)
  PROVE  Readable(scanAgent(id, row, session).fields)
<1> DEFINE f == scanAgent(id, row, session).fields
<1>1. f = [s \in Section |-> IF s \in AgentColumn THEN row.fields[s] ELSE Nil]
  BY DEF scanAgent
<1> HIDE DEF f
<1>2. f[Description] = row.fields[Description] /\ f[Health] = row.fields[Health]
  BY ONLY Zenon, <1>1, ColumnSections
<1>3. Readable(f)
  BY <1>2 DEF Readable
<1> QED
  BY <1>3 DEF f

\* The messages the agents send are readable.
LEMMA MessagesReadable ==
  /\ \A msg \in Messages : Readable(msg)
  /\ \A id \in Uid : Readable(FirstMessage[id])
BY FleetPagesAssumption

\* The fleet a request may meet is readable.
LEMMA ReadableInit == Init => ReadableInv
<1> SUFFICES ASSUME Init PROVE ReadableInv
  OBVIOUS
<1> DEFINE now == EvictAfter + 1
           meta == CHOOSE m \in Conn : TRUE
           past(id, at) == Reported(Nil, FirstMessage[id], meta, at)
           at(id, E) == IF id \in E THEN 0 ELSE now
<1>1. PICK here \in SUBSET Uid, stored \in SUBSET Uid :
        \E E \in SUBSET stored :
          /\ agents = [id \in Uid |-> IF id \in here THEN past(id, now) ELSE Nil]
          /\ agentRow = [id \in Uid |->
               IF id \in E THEN SoftDelete(UpsertAgent(Nil, past(id, 0)), now)
               ELSE IF id \in stored THEN UpsertAgent(Nil, past(id, now)) ELSE Nil]
          /\ sessionRow = [id \in Uid |->
               IF id \in stored THEN UpsertSession(Nil, past(id, at(id, E)))
               ELSE Nil]
          /\ configRow = [id \in Uid |->
               IF id \in stored THEN ReplaceConfig(Nil, Nil, past(id, at(id, E)))
               ELSE Nil]
  BY DEF Init
<1>2. PICK E \in SUBSET stored :
        /\ agents = [id \in Uid |-> IF id \in here THEN past(id, now) ELSE Nil]
        /\ agentRow = [id \in Uid |->
             IF id \in E THEN SoftDelete(UpsertAgent(Nil, past(id, 0)), now)
             ELSE IF id \in stored THEN UpsertAgent(Nil, past(id, now)) ELSE Nil]
  BY <1>1
<1>3. local = << >> /\ db = << >>
  BY DEF Init
<1>4. now \in Nat /\ 0 \in Nat /\ meta \in Conn
  BY SMT, ThresholdType, FleetReadAssumption
<1> HIDE DEF now, meta
<1>5. ASSUME NEW id \in Uid, NEW t \in Nat
      PROVE  past(id, t) \in Entry /\ Readable(past(id, t).fields)
  <2>1. FirstMessage[id] \in Message
    BY FleetReadAssumption
  <2> QED
    BY <1>4, <2>1, ReportedType, ReportedReadable, MessagesReadable
<1> HIDE DEF past
<1>6. ASSUME NEW id \in Uid, NEW t \in Nat
      PROVE  /\ Readable(UpsertAgent(Nil, past(id, t)).fields)
             /\ Readable(SoftDelete(UpsertAgent(Nil, past(id, t)), now).fields)
  <2> DEFINE row == UpsertAgent(Nil, past(id, t))
  <2>1. row \in AgentRow /\ Readable(row.fields)
    BY <1>5, UpsertAgentType, UpsertReadable
  <2> HIDE DEF row
  <2>2. row # Nil
    BY <2>1, RowAssumption
  <2>3. SoftDelete(row, now).fields = row.fields
    BY <1>4, <2>1, <2>2, SoftDeleteType
  <2> QED
    BY <2>1, <2>3 DEF row
<1>7. Range(<< >>) = {}
  BY SMT DEF Range
<1>8. \A id \in Uid : agents[id] # Nil => Readable(agents[id].fields)
  BY <1>2, <1>4, <1>5
<1>9. \A id \in Uid : agentRow[id] # Nil => Readable(agentRow[id].fields)
  BY <1>2, <1>4, <1>6
<1> QED
  BY <1>3, <1>7, <1>8, <1>9 DEF ReadableInv

\* So is the fleet after a change.
LEMMA ReadableChange ==
  ASSUME TypeOK, ReadableInv, FleetChanges
  PROVE  ReadableInv'
<1> DEFINE Registry == \A id \in Uid : agents[id] # Nil => Readable(agents[id].fields)
           Rows == \A id \in Uid : agentRow[id] # Nil => Readable(agentRow[id].fields)
<1>1. Registry /\ Rows
  BY DEF ReadableInv
<1>2. /\ clock \in Nat /\ agents \in [Uid -> Entry \cup {Nil}]
      /\ agentRow \in [Uid -> AgentRow \cup {Nil}]
  BY DEF TypeOK
<1>3. ASSUME Change, Registry', Rows' PROVE ReadableInv'
  <2>1. local' = local /\ db' = db
    BY <1>3 DEF Change, readVars
  <2> QED
    BY <1>3, <2>1 DEF ReadableInv
<1>4. ASSUME NEW id \in Uid, NEW msg \in Messages, NEW meta \in Conn,
             Report(id, msg, meta)
      PROVE  ReadableInv'
  <2> DEFINE entry == Reported(agents[id], msg, meta, clock + 1)
  <2>1. /\ agents' = [agents EXCEPT ![id] = entry] /\ agentRow' = agentRow
        /\ Change
    BY <1>4 DEF Report, tables
  <2>2. Readable(entry.fields)
    BY <1>1, MessagesReadable, ReportedReadable
  <2> HIDE DEF entry
  <2>3. \A u \in Uid : agents'[u] = IF u = id THEN entry ELSE agents[u]
    BY <1>2, <2>1
  <2>4. Registry' /\ Rows'
    BY <1>1, <2>1, <2>2, <2>3
  <2> QED
    BY <1>3, <2>1, <2>4
<1>5. ASSUME NEW silence \in {DisconnectThreshold + 1, EvictAfter + 1},
             Sweep(silence)
      PROVE  ReadableInv'
  <2>1. /\ agents' = [id \in Uid |-> Swept(agents[id], clock')]
        /\ agentRow' = agentRow /\ Change
    BY <1>5 DEF Sweep, tables
  <2>2. \A u \in Uid : agents[u] \in Entry \cup {Nil} /\ agents'[u] = Swept(agents[u], clock')
    BY <1>2, <2>1
  <2>3. ASSUME NEW u \in Uid, agents'[u] # Nil
        PROVE  agents[u] # Nil /\ agents'[u].fields = agents[u].fields
    <3>1. agents[u] \in Entry \cup {Nil} /\ Swept(agents[u], clock') # Nil
      BY ONLY Zenon, <2>2, <2>3
    <3>2. agents[u] # Nil /\ Swept(agents[u], clock').fields = agents[u].fields
      BY ONLY Zenon, <3>1, SweptReadable
    <3> QED
      BY <2>2, <3>2
  <2>4. Registry' /\ Rows'
    BY <1>1, <2>1, <2>3
  <2> QED
    BY <1>3, <2>1, <2>4
<1>6. ASSUME NEW id \in Uid, NEW entry \in Flushable(id), SaveAgent(id, entry)
      PROVE  ReadableInv'
  <2> DEFINE row == UpsertAgent(agentRow[id], entry)
  <2>1. agentRow' = [agentRow EXCEPT ![id] = row] /\ agents' = agents /\ Change
    BY <1>6 DEF SaveAgent
  <2>2. Readable(entry.fields)
    <3>1. CASE agents[id] # Nil /\ entry = agents[id]
      BY <1>1, <3>1
    <3>2. CASE \E msg \in Messages, meta \in Conn :
                 entry = Reported(Nil, msg, meta, clock + 1)
      BY <3>2, MessagesReadable, ReportedReadable
    <3> QED
      BY SMT, <1>6, <3>1, <3>2 DEF Flushable
  <2>3. Readable(row.fields)
    BY <1>1, <2>2, UpsertReadable
  <2> HIDE DEF row
  <2>4. \A u \in Uid : agentRow'[u] = IF u = id THEN row ELSE agentRow[u]
    BY <1>2, <2>1
  <2>5. Registry' /\ Rows'
    BY <1>1, <2>1, <2>3, <2>4
  <2> QED
    BY <1>3, <2>1, <2>5
<1>7. ASSUME NEW id \in Uid, SoftDeleteAgent(id)
      PROVE  ReadableInv'
  <2> DEFINE row == SoftDelete(agentRow[id], clock)
  <2>1. agentRow' = [agentRow EXCEPT ![id] = row] /\ agents' = agents /\ Change
    BY <1>7 DEF SoftDeleteAgent
  <2>2. /\ row = Nil <=> agentRow[id] = Nil
        /\ agentRow[id] # Nil => row.fields = agentRow[id].fields
    BY <1>2, SoftDeleteType
  <2> HIDE DEF row
  <2>3. \A u \in Uid : agentRow'[u] = IF u = id THEN row ELSE agentRow[u]
    BY <1>2, <2>1
  <2>4. Registry' /\ Rows'
    BY <1>1, <2>1, <2>2, <2>3
  <2> QED
    BY <1>3, <2>1, <2>4
<1>8. CASE PurgeWork
  <2>1. /\ agentRow' = [id \in Uid |-> IF id \in {u \in Uid : Purged(agentRow[u], clock + 1)}
                                       THEN Nil ELSE agentRow[id]]
        /\ Change
    BY <1>8 DEF PurgeWork
  <2>2. agents' = agents
    BY <1>8 DEF PurgeWork
  <2>3. \A u \in Uid : agentRow'[u] = Nil \/ agentRow'[u] = agentRow[u]
    BY <2>1
  <2>4. Registry' /\ Rows'
    BY <1>1, <2>2, <2>3
  <2> QED
    BY <1>3, <2>1, <2>4
<1> QED
  BY <1>4, <1>5, <1>6, <1>7, <1>8 DEF FleetChanges

\* And so is what a request reads of it.
LEMMA ReadableRead ==
  ASSUME TypeOK, ReadInv, ReadableInv, Requests
  PROVE  ReadableInv'
<1>1. agents' = agents /\ agentRow' = agentRow
  BY FleetStill DEF Requests, Begin, ReadShard, ListAgents, ListFails, Collect,
     ReadSeries, getAgent, GetRow, GetConfig, LookupFails, Respond, fleetVars, ReadInv
<1>2. ASSUME \A a \in Range(local') \cup Range(db') : Readable(a.fields)
      PROVE  ReadableInv'
  BY <1>1, <1>2 DEF ReadableInv
<1>3. /\ \A id \in Uid : agents[id] # Nil => Readable(agents[id].fields)
      /\ \A id \in Uid : agentRow[id] # Nil => Readable(agentRow[id].fields)
      /\ \A a \in Range(local) : Readable(a.fields)
      /\ \A a \in Range(db) : Readable(a.fields)
  BY DEF ReadableInv
<1>4. CASE local' = local /\ db' = db
  BY <1>2, <1>3, <1>4
<1>5. \A id \in Uid : agents[id] # Nil => Readable(Snapshot(id, agents[id]).fields)
  <2>1. \A id, entry : Snapshot(id, entry).fields = entry.fields
    BY DEF Snapshot
  <2> QED
    BY <1>3, <2>1
<1>6. ASSUME NEW ids \in SUBSET Uid
      PROVE  \A a \in Range(queryAgents(ids)) : Readable(a.fields)
  <2>1. \A id \in ids : agentRow[id] # Nil => sessionRow[id] # Nil
    BY DEF ReadInv, RowInv
  <2>2. Range(queryAgents(ids)) = StoredAgents(ids)
    BY <2>1, QueryRead
  <2> QED
    BY <1>3, <2>2, ScanReadable DEF StoredAgents
<1>7. CASE ReadShard
  <2>1. db' = db
    BY <1>7 DEF ReadShard
  <2>2. PICK some \in InAnyOrder(InShard(shard)) : local' = local \o some
    BY <1>7 DEF ReadShard
  <2>3. \A a \in Range(some) : a \in InShard(shard)
    BY <2>2 DEF InAnyOrder, Injection, Range
  <2>4. \A a \in Range(some) : Readable(a.fields)
    BY <1>5, <2>3 DEF InShard, Registered
  <2>5. local \in Seq(SnapshotOf) /\ some \in Seq(SnapshotOf)
    BY ShardRead DEF TypeOK
  <2>6. Range(local') = Range(local) \cup Range(some)
    BY <2>2, <2>5, ConcatShows
  <2> QED
    BY <1>2, <1>3, <2>1, <2>4, <2>6
<1>8. CASE ListAgents
  <2>1. db' = queryAgents(Uid) /\ local' = local /\ Uid \in SUBSET Uid
    BY <1>8 DEF ListAgents
  <2> QED
    BY <1>2, <1>3, <1>6, <2>1
<1>9. ASSUME NEW id \in Uid, getAgent(id) PROVE ReadableInv'
  <2>1. /\ db' = db
        /\ \/ local' = local
           \/ agents[id] # Nil /\ local' = <<Snapshot(id, agents[id])>>
    BY <1>9 DEF getAgent
  <2>2. \A a : Range(<<a>>) = {a}
    BY SMT DEF Range
  <2> QED
    BY <1>2, <1>3, <1>5, <2>1, <2>2
<1>10. CASE GetRow
  <2>1. db' = queryAgents({wanted}) /\ local' = local /\ step = "missed"
    BY <1>10 DEF GetRow
  <2>2. {wanted} \in SUBSET Uid
    BY <2>1 DEF ReadInv, DetailInv
  <2> QED
    BY <1>2, <1>3, <1>6, <2>1, <2>2
<1>11. CASE GetConfig
  <2>1. step = "got" /\ db' = db /\ (local' = local \/ local' = <<Corrected(db[1], clock)>>)
    BY <1>11 DEF GetConfig
  <2>2. db \in Seq(SnapshotOf) /\ Len(db) = 1
    BY <2>1 DEF TypeOK, ReadInv, DetailInv
  <2>3. db[1] \in SnapshotOf /\ db[1] \in Range(db)
    BY SMT, <2>2 DEF Range
  <2>4. Corrected(db[1], clock).fields = db[1].fields
    BY <2>3, CorrectedType
  <2>5. \A a : Range(<<a>>) = {a}
    BY SMT DEF Range
  <2>6. \A a \in Range(local') : Readable(a.fields)
    <3>1. CASE local' = local
      BY <1>3, <3>1
    <3>2. CASE local' = <<Corrected(db[1], clock)>>
      <4>1. Range(local') = {Corrected(db[1], clock)}
        BY <2>5, <3>2
      <4>2. Readable(db[1].fields)
        BY <1>3, <2>3
      <4> QED
        BY <2>4, <4>1, <4>2
    <3> QED
      BY <2>1, <3>1, <3>2
  <2> QED
    BY <1>2, <1>3, <2>1, <2>6
<1>12. CASE Respond
  <2>1. local' = << >> /\ db' = << >>
    BY <1>12 DEF Respond
  <2>2. Range(<< >>) = {}
    BY SMT DEF Range
  <2> QED
    BY <1>2, <2>1, <2>2
<1>13. CASE Begin \/ ListFails \/ Collect \/ ReadSeries \/ LookupFails
  <2>1. local' = local /\ db' = db
    BY <1>13 DEF Begin, ListFails, Collect, ReadSeries, LookupFails
  <2> QED
    BY <1>4, <2>1
<1> QED
  BY <1>7, <1>8, <1>9, <1>10, <1>11, <1>12, <1>13 DEF Requests

\* Every agent a request has read is readable, at every step.
LEMMA ReadableAlways == Spec => []ReadableInv
<1>1. TypeOK /\ ReadInv /\ ReadableInv /\ [Next]_vars => ReadableInv'
  <2> SUFFICES ASSUME TypeOK, ReadInv, ReadableInv, [Next]_vars PROVE ReadableInv'
    OBVIOUS
  <2>1. CASE UNCHANGED vars
    <3>1. agents' = agents /\ agentRow' = agentRow /\ local' = local /\ db' = db
      BY <2>1 DEF vars, tables, readVars
    <3> QED
      BY <3>1 DEF ReadableInv
  <2> QED
    BY <2>1, ReadableChange, ReadableRead DEF Next
<1> QED
  BY <1>1, ReadableInit, ReadAlways, PTL DEF Spec

-----------------------------------------------------------------------------
(* What the pages show.                                                    *)

\* The merged list of a request: each agent once, each of them readable.
LEMMA MergedReads ==
  ASSUME TypeOK, ReadInv, ReadableInv, step = "merged"
  PROVE  /\ Merged \in Seq(SnapshotOf) /\ Distinct(Merged)
         /\ \A a \in Range(Merged) : a \in Legible
<1>1. /\ Merged \in Seq(SnapshotOf) /\ Distinct(Merged)
      /\ SaysWhat(Merged, Range(local) \cup Range(db))
  BY MergedShows
<1>2. \A a \in Range(Merged) : Readable(a.fields)
  BY <1>1 DEF SaysWhat, ReadableInv
<1>3. \A a \in Range(Merged) : a \in SnapshotOf
  BY <1>1, DistinctCount
<1> QED
  BY <1>1, <1>2, <1>3 DEF Legible

\* The pages of GET /api/agents with a filter and with its opposite show every
\* merged agent once between them, whatever the limit, for any number of agents.
THEOREM ApiPagesPartitioned == Spec => []ApiPagesPartition
<1>1. TypeOK /\ ReadInv /\ ReadableInv => ApiPagesPartition
  <2> SUFFICES ASSUME TypeOK, ReadInv, ReadableInv, step = "merged"
               PROVE  ApiPagesPartition
    BY DEF ApiPagesPartition
  <2> DEFINE merged == Merged
  <2>1. /\ merged \in Seq(SnapshotOf) /\ Distinct(merged)
        /\ \A a \in Range(merged) : a \in Legible
    BY MergedReads
  <2> HIDE DEF merged
  <2>2. \A limit \in Limits, pair \in Opposites : \A id \in Uids(merged) :
          TimesShown(merged, limit, pair[1], id) + TimesShown(merged, limit, pair[2], id) = 1
    BY ONLY Zenon, <2>1, ApiPagesPartitionList
  <2> QED
    BY ONLY Zenon, <2>2 DEF ApiPagesPartition, TimesShown, ApiPages, merged
<1> QED
  BY <1>1, ReadAlways, ReadableAlways, PTL

\* The pages the UI links to show every merged agent on one page, however each
\* of their sorts comes out, whatever the limit and the column.
THEOREM UiPagesCovered == Spec => []UiPagesCover
<1>1. TypeOK /\ ReadInv /\ ReadableInv => UiPagesCover
  <2> SUFFICES ASSUME TypeOK, ReadInv, ReadableInv, step = "merged",
                      NEW limit \in Limits, NEW by \in Sorts, NEW id \in Uids(Merged)
               PROVE  LET pages == PagesOf(Len(Merged), limit)
                          shows(page) == fleetData(Merged, Asking(limit, page, by[1], by[2]),
                                                   [matchers |-> {}, bools |-> << >>])
                          shown == UNION {{<<page, Uids(some)>> : some \in shows(page)} :
                                            page \in pages}
                      IN  \E home \in pages : \A p \in shown : id \in p[2] <=> p[1] = home
    BY DEF UiPagesCover
  <2> DEFINE pages == PagesOf(Len(Merged), limit)
             shows(page) == fleetData(Merged, Asking(limit, page, by[1], by[2]),
                                      [matchers |-> {}, bools |-> << >>])
             shown == UNION {{<<page, Uids(some)>> : some \in shows(page)} : page \in pages}
  <2>1. /\ Merged \in Seq(SnapshotOf) /\ Distinct(Merged)
        /\ \A a \in Range(Merged) : a \in Legible
    BY MergedReads
  <2>2. \E home \in pages : \A page \in pages : \A some \in shows(page) :
          id \in Uids(some) <=> page = home
    <3>1. HasHome(Merged, limit, by[1], by[2], id)
      BY ONLY Zenon, <2>1, limit \in Limits, id \in Uids(Merged), UiPagesCoverList
    <3> QED
      BY <3>1 DEF HasHome
  <2> HIDE DEF pages, shows
  <2>3. PICK home \in pages : \A page \in pages : \A some \in shows(page) :
          id \in Uids(some) <=> page = home
    BY <2>2
  <2>4. ASSUME NEW p \in shown PROVE id \in p[2] <=> p[1] = home
    <3>1. PICK page \in pages : p \in {<<page, Uids(some)>> : some \in shows(page)}
      BY <2>4
    <3>2. PICK some \in shows(page) : p = <<page, Uids(some)>>
      BY <3>1
    <3>3. p[1] = page /\ p[2] = Uids(some)
      BY <3>2
    <3> QED
      BY <2>3, <3>3
  <2>5. \E h \in pages : \A p \in shown : id \in p[2] <=> p[1] = h
    <3> HIDE DEF shown
    <3> QED
      BY <2>4
  <2> QED
    BY ONLY Zenon, <2>5 DEF pages, shows, shown
<1> QED
  BY <1>1, ReadAlways, ReadableAlways, PTL
=============================================================================
