--------------------------- MODULE FleetReadProofs --------------------------
(***************************************************************************)
(* Proofs about read requests, for any number of agents, shards and        *)
(* changes under a request: what a walk, a list and a detail page show of  *)
(* the agents that stay, leave and come while the request reads, and what  *)
(* the pages of a list show of the list.                                   *)
(*                                                                         *)
(* What a loop computes is proved by induction over its turns, with        *)
(* induction stated for a set of naturals.                                 *)
(***************************************************************************)
EXTENDS FleetRead, FiniteSetTheorems, TLAPS

(* A leaf goes to Zenon unless it names SMT or starts with ONLY.           *)
USE Zenon

-----------------------------------------------------------------------------
(* Naturals and loops over them.                                           *)

\* A set of naturals that is not empty has a least element.
LEMMA LeastNatural ==
  ASSUME NEW T \in SUBSET Nat, T # {}
  PROVE  \E x \in T : \A y \in T : x <= y
<1> DEFINE less == {ss \in Nat \X Nat : ss[1] < ss[2]}
<1>1. IsWellFoundedOn(less, Nat)
  BY NatLessThanWellFounded DEF OpToRel
<1>2. \A m, n \in Nat : m < n => <<m, n>> \in less
  OBVIOUS
<1> HIDE DEF less
<1>3. T \subseteq Nat
  OBVIOUS
<1>4. \E x \in T : \A y \in T : ~ (<<y, x>> \in less)
  BY <1>1, <1>3, WFMin
<1>5. PICK x \in T : \A y \in T : ~ (<<y, x>> \in less)
  BY <1>4
<1>6. ASSUME NEW y \in T PROVE x <= y
  <2>1. x \in Nat /\ y \in Nat
    OBVIOUS
  <2>2. ~ (y < x)
    BY <1>2, <1>5, <2>1
  <2> QED
    BY ONLY <2>1, <2>2
<1> QED
  BY <1>6

\* A set with 0 and the successors of its elements holds every natural.
LEMMA SetInduction ==
  ASSUME NEW S \in SUBSET Nat, 0 \in S, \A n \in S : n + 1 \in S
  PROVE  \A n \in Nat : n \in S
<1> SUFFICES ASSUME Nat \ S # {} PROVE FALSE
  OBVIOUS
<1> DEFINE T == Nat \ S
<1>1. T \in SUBSET Nat /\ T # {}
  OBVIOUS
<1>2. PICK x \in T : \A y \in T : x <= y
  <2> HIDE DEF T
  <2> QED
    BY <1>1, LeastNatural
<1>3. x \in Nat /\ x \notin S /\ x # 0
  OBVIOUS
<1>4. x - 1 \in Nat /\ ~ (x <= x - 1) /\ x = (x - 1) + 1
  BY ONLY <1>3
<1>5. x - 1 \in S
  BY <1>2, <1>4
<1> QED
  BY <1>3, <1>4, <1>5

\* f is what a loop of n turns has made after each of them.
Loop(f, n, base, turn) ==
  f = [i \in 0 .. n |-> IF i = 0 THEN base ELSE turn[<<f[i - 1], i>>]]

\* A loop can be run for any number of turns.
LEMMA LoopRuns ==
  ASSUME NEW X, NEW base \in X, NEW n \in Nat, NEW turn \in [X \X (1 .. n) -> X]
  PROVE  \E f \in [0 .. n -> X] : Loop(f, n, base, turn)
<1> DEFINE Runs(f, k) ==
             /\ f \in [0 .. k -> X] /\ f[0] = base
             /\ \A i \in 1 .. k : f[i] = turn[<<f[i - 1], i>>]
           Good == {k \in Nat : k <= n => \E f : Runs(f, k)}
<1>1. 0 \in Good
  <2> DEFINE f == [i \in 0 .. 0 |-> base]
  <2>1. Runs(f, 0)
    BY SMT
  <2> HIDE DEF Runs
  <2> QED
    BY <2>1
<1>2. ASSUME NEW k \in Good PROVE k + 1 \in Good
  <2>1. k \in Nat /\ k + 1 \in Nat
    BY SMT
  <2> SUFFICES ASSUME k + 1 <= n PROVE \E f : Runs(f, k + 1)
    BY <2>1
  <2>2. k <= n /\ k + 1 \in 1 .. n /\ k \in 0 .. k /\ 0 \in 0 .. k
    BY ONLY <2>1, k + 1 <= n, n \in Nat
  <2>3. PICK f : Runs(f, k)
    BY <2>2
  <2> DEFINE g == [i \in 0 .. k + 1 |->
                     IF i = k + 1 THEN turn[<<f[k], k + 1>>] ELSE f[i]]
  <2>4. f[k] \in X /\ turn[<<f[k], k + 1>>] \in X
    BY <2>2, <2>3
  <2>5. /\ \A i \in 0 .. k + 1 : i # k + 1 => i \in 0 .. k
        /\ \A i \in 1 .. k + 1 : i # k + 1 => /\ i \in 1 .. k /\ i - 1 \in 0 .. k
                                              /\ i - 1 # k + 1 /\ i \in 0 .. k + 1
        /\ \A i \in 0 .. k : i \in 0 .. k + 1 /\ i # k + 1
        /\ \A i \in 1 .. k + 1 : i - 1 \in 0 .. k
        /\ k + 1 \in 0 .. k + 1 /\ (k + 1) - 1 = k
    BY ONLY <2>1
  <2>6. g \in [0 .. k + 1 -> X] /\ g[k + 1] = turn[<<f[k], k + 1>>]
        /\ \A i \in 0 .. k : g[i] = f[i]
    BY <2>3, <2>4, <2>5
  <2> HIDE DEF g
  <2>7. ASSUME NEW i \in 1 .. k + 1 PROVE g[i] = turn[<<g[i - 1], i>>]
    <3>1. CASE i = k + 1
      BY <2>2, <2>5, <2>6, <3>1
    <3>2. CASE i # k + 1
      <4>1. i \in 1 .. k /\ i - 1 \in 0 .. k /\ i \in 0 .. k
        BY ONLY <2>1, <3>2, i \in 1 .. k + 1
      <4> QED
        BY <2>3, <2>6, <4>1
    <3> QED
      BY <3>1, <3>2
  <2>8. Runs(g, k + 1)
    BY <2>2, <2>3, <2>6, <2>7
  <2> HIDE DEF Runs
  <2> QED
    BY <2>8
<1>3. Good \in SUBSET Nat
  OBVIOUS
<1>4. n \in Good
  <2> HIDE DEF Good
  <2> QED
    BY <1>1, <1>2, <1>3, SetInduction
<1>5. n <= n
  BY SMT
<1>6. PICK f : Runs(f, n)
  <2> HIDE DEF Runs
  <2> QED
    BY <1>4, <1>5
<1>7. \A i \in 0 .. n : i # 0 => i \in 1 .. n
  BY SMT
<1>8. f = [i \in 0 .. n |-> f[i]]
  BY <1>6
<1>9. \A i \in 0 .. n : f[i] = IF i = 0 THEN base ELSE turn[<<f[i - 1], i>>]
  BY <1>6, <1>7
<1>10. Loop(f, n, base, turn)
  BY ONLY Zenon, <1>8, <1>9 DEF Loop
<1> QED
  BY <1>6, <1>10

-----------------------------------------------------------------------------
(* Sequences of agents.                                                    *)

\* No two of a sequence's agents have the same instance_uid.
Distinct(list) ==
  \A i, j \in DOMAIN list : list[i].uid = list[j].uid => i = j

\* In the order of their instance_uids.
ByUid(list) ==
  \A i, j \in DOMAIN list : i < j => list[i].uid < list[j].uid

\* An arrangement of a finite set holds its elements, each once.
LEMMA Arranged ==
  ASSUME NEW S, IsFiniteSet(S), NEW s \in InAnyOrder(S)
  PROVE  /\ s \in Seq(S) /\ Len(s) = Cardinality(S) /\ DOMAIN s = 1 .. Len(s)
         /\ Range(s) = S
         /\ \A i, j \in DOMAIN s : s[i] = s[j] => i = j
<1> DEFINE D == 1 .. Cardinality(S)
<1>2. Cardinality(S) \in Nat
  BY FS_CardinalityType
<1>3. s \in Injection(D, S)
  BY DEF InAnyOrder
<1>1. s \in [D -> S] /\ \A i, j \in D : s[i] = s[j] => i = j
  BY <1>3 DEF Injection, IsInjective
<1>4. Cardinality(D) = Cardinality(S)
  BY SMT, <1>2, FS_Interval
<1>5. s \in Surjection(D, S)
  BY <1>3, <1>4, FS_Injection
<1>6. s \in Seq(S) /\ Len(s) = Cardinality(S)
  BY SMT, <1>1, <1>2
<1> QED
  BY SMT, <1>1, <1>5, <1>6 DEF Surjection, Range

\* ORDER BY can be obeyed: agents that differ in their instance_uids can be
\* put in order.
LEMMA SortedExists ==
  ASSUME NEW U, \A a \in U : a.uid \in Nat,
         \A a, b \in U : a.uid = b.uid => a = b
  PROVE  \A S \in SUBSET U :
           IsFiniteSet(S) => \E s \in InAnyOrder(S) : ByUid(s)
<1> DEFINE Good == {n \in Nat : \A S \in SUBSET U :
                      IsFiniteSet(S) /\ Cardinality(S) = n =>
                        \E s \in InAnyOrder(S) : ByUid(s)}
<1>1. 0 \in Good
  <2> SUFFICES ASSUME NEW S \in SUBSET U, IsFiniteSet(S), Cardinality(S) = 0
               PROVE  \E s \in InAnyOrder(S) : ByUid(s)
    OBVIOUS
  <2>1. S = {}
    BY FS_EmptySet
  <2>2. << >> \in InAnyOrder(S)
    BY SMT, <2>1, FS_EmptySet DEF InAnyOrder, Injection, IsInjective
  <2> QED
    BY SMT, <2>2 DEF ByUid
<1>2. ASSUME NEW n \in Good PROVE n + 1 \in Good
  <2>1. n \in Nat /\ n + 1 \in Nat
    BY SMT
  <2> SUFFICES ASSUME NEW S \in SUBSET U, IsFiniteSet(S), Cardinality(S) = n + 1
               PROVE  \E s \in InAnyOrder(S) : ByUid(s)
    BY <2>1
  <2>2. S # {}
    BY SMT, <2>1, FS_EmptySet
  <2>3. PICK x \in S : \A a \in S : x.uid <= a.uid
    <3> DEFINE T == {a.uid : a \in S}
    <3>1. T \in SUBSET Nat /\ T # {}
      BY SMT, <2>2
    <3>2. \E u \in T : \A v \in T : u <= v
      <4> HIDE DEF T
      <4> QED
        BY <3>1, LeastNatural
    <3> QED
      BY SMT, <3>2
  <2>4. S \ {x} \in SUBSET U /\ IsFiniteSet(S \ {x}) /\ Cardinality(S \ {x}) = n
    <3>1. /\ IsFiniteSet(S \ {x})
          /\ Cardinality(S \ {x}) = Cardinality(S) - 1
      BY FS_RemoveElement
    <3>2. Cardinality(S \ {x}) = n
      BY ONLY <2>1, <3>1, Cardinality(S) = n + 1
    <3> QED
      BY <3>1, <3>2
  <2>5. PICK s \in InAnyOrder(S \ {x}) : ByUid(s)
    BY <2>4
  <2>6. /\ s \in [1 .. n -> S \ {x}] /\ DOMAIN s = 1 .. n
        /\ \A i, j \in 1 .. n : i # j => s[i] # s[j]
    BY <2>4 DEF InAnyOrder, Injection, IsInjective
  <2> HIDE DEF Good
  <2> DEFINE t == [i \in 1 .. n + 1 |-> IF i = 1 THEN x ELSE s[i - 1]]
  <2>7. \A i \in 1 .. n + 1 : i # 1 => i - 1 \in 1 .. n
    BY SMT, <2>1
  <2>8. t \in [1 .. n + 1 -> S]
    BY <2>6, <2>7
  <2>9. ASSUME NEW i \in 1 .. n + 1, NEW j \in 1 .. n + 1, i < j
        PROVE  t[i].uid < t[j].uid
    <3>1. j # 1 /\ j - 1 \in 1 .. n /\ t[j] = s[j - 1]
      BY SMT, <2>1, <2>7, <2>9
    <3>2. t[j] \in S /\ t[j] # x /\ t[j].uid \in Nat
      BY <2>6, <3>1
    <3>3. CASE i = 1
      <4>1. t[i] = x /\ x.uid \in Nat
        BY <3>3
      <4>2. x.uid <= t[j].uid /\ x.uid # t[j].uid
        BY <2>3, <3>2
      <4> QED
        BY SMT, <3>2, <4>1, <4>2
    <3>4. CASE i # 1
      <4>1. i - 1 \in 1 .. n /\ t[i] = s[i - 1] /\ i - 1 < j - 1
        BY SMT, <2>1, <2>7, <2>9, <3>1, <3>4
      <4> QED
        BY <2>5, <2>6, <3>1, <4>1 DEF ByUid
    <3> QED
      BY <3>3, <3>4
  <2>10. \A i, j \in 1 .. n + 1 : i # j => t[i] # t[j]
    <3> SUFFICES ASSUME NEW i \in 1 .. n + 1, NEW j \in 1 .. n + 1, i # j
                 PROVE  t[i] # t[j]
      OBVIOUS
    <3>1. i < j \/ j < i
      BY SMT, <2>1
    <3>2. t[i].uid # t[j].uid
      <4>1. t[i].uid \in Nat /\ t[j].uid \in Nat
        BY <2>8
      <4> HIDE DEF t
      <4> QED
        BY SMT, <2>9, <3>1, <4>1
    <3> QED
      BY <3>2
  <2>11. t \in InAnyOrder(S)
    <3> HIDE DEF t
    <3> QED
      BY <2>8, <2>10 DEF InAnyOrder, Injection, IsInjective
  <2>12. ByUid(t)
    BY <2>9 DEF ByUid
  <2> QED
    BY <2>11, <2>12
<1>3. \A n \in Nat : n \in Good
  <2>1. Good \in SUBSET Nat
    OBVIOUS
  <2> HIDE DEF Good
  <2> QED
    BY <1>1, <1>2, <2>1, SetInduction
<1> SUFFICES ASSUME NEW S \in SUBSET U, IsFiniteSet(S)
             PROVE  \E s \in InAnyOrder(S) : ByUid(s)
  OBVIOUS
<1>4. Cardinality(S) \in Good
  BY <1>3, FS_CardinalityType
<1> QED
  BY <1>4
\* What a sequence of agents shows when one is appended to it.
LEMMA AppendShows ==
  ASSUME NEW s \in Seq(SnapshotOf), NEW a \in SnapshotOf
  PROVE  /\ Append(s, a) \in Seq(SnapshotOf)
         /\ Range(Append(s, a)) = Range(s) \cup {a}
         /\ Uids(Append(s, a)) = Uids(s) \cup {a.uid}
         /\ Distinct(s) /\ a.uid \notin Uids(s) => Distinct(Append(s, a))
<1> DEFINE t == Append(s, a)
<1>1. /\ t \in Seq(SnapshotOf) /\ Len(s) \in Nat
      /\ DOMAIN s = 1 .. Len(s) /\ DOMAIN t = 1 .. Len(s) + 1
      /\ \A i \in 1 .. Len(s) : t[i] = s[i]
      /\ t[Len(s) + 1] = a
  BY SMT
<1> HIDE DEF t
<1>2. \A i \in 1 .. Len(s) + 1 : i \in 1 .. Len(s) \/ i = Len(s) + 1
  BY SMT, <1>1
<1>3. 1 .. Len(s) \subseteq 1 .. Len(s) + 1 /\ Len(s) + 1 \in 1 .. Len(s) + 1
  BY SMT, <1>1
<1>4. Range(t) = Range(s) \cup {a}
  BY <1>1, <1>2, <1>3 DEF Range
<1>5. Uids(t) = Uids(s) \cup {a.uid}
  BY <1>4 DEF Uids
<1>6. ASSUME Distinct(s), a.uid \notin Uids(s) PROVE Distinct(t)
  <2>1. \A i \in 1 .. Len(s) : s[i].uid # a.uid
    BY <1>1, <1>6 DEF Uids, Range
  <2> QED
    BY <1>1, <1>2, <1>6, <2>1 DEF Distinct
<1> QED
  BY <1>1, <1>4, <1>5, <1>6 DEF t

\* What two sequences of agents show one after the other.
LEMMA ConcatShows ==
  ASSUME NEW s \in Seq(SnapshotOf), NEW t \in Seq(SnapshotOf)
  PROVE  /\ s \o t \in Seq(SnapshotOf)
         /\ Range(s \o t) = Range(s) \cup Range(t)
         /\ Uids(s \o t) = Uids(s) \cup Uids(t)
         /\ Distinct(s) /\ Distinct(t) /\ Uids(s) \cap Uids(t) = {} =>
              Distinct(s \o t)
<1> DEFINE u == s \o t
           m == Len(s)
           n == Len(t)
<1>1. /\ u \in Seq(SnapshotOf) /\ m \in Nat /\ n \in Nat
      /\ DOMAIN s = 1 .. m /\ DOMAIN t = 1 .. n /\ DOMAIN u = 1 .. m + n
  BY SMT
<1>2. \A i \in 1 .. m + n : u[i] = IF i <= m THEN s[i] ELSE t[i - m]
  BY SMT
<1> HIDE DEF u, m, n
<1>3. /\ \A i \in 1 .. m : i \in 1 .. m + n /\ i <= m
      /\ \A i \in 1 .. n : i + m \in 1 .. m + n /\ ~(i + m <= m) /\ (i + m) - m = i
      /\ \A i \in 1 .. m + n : i <= m => i \in 1 .. m
      /\ \A i \in 1 .. m + n : ~(i <= m) => i - m \in 1 .. n
      /\ \A i, j \in 1 .. m + n : i - m = j - m => i = j
  BY ONLY <1>1
<1>4. Range(u) = Range(s) \cup Range(t)
  <2>1. ASSUME NEW i \in 1 .. m PROVE s[i] \in Range(u)
    BY <1>1, <1>2, <1>3 DEF Range
  <2>2. ASSUME NEW i \in 1 .. n PROVE t[i] \in Range(u)
    <3>1. i + m \in DOMAIN u /\ u[i + m] = t[i]
      BY <1>1, <1>2, <1>3
    <3> QED
      BY <3>1 DEF Range
  <2>3. ASSUME NEW i \in 1 .. m + n PROVE u[i] \in Range(s) \cup Range(t)
    <3>1. CASE i <= m
      <4>1. i \in DOMAIN s /\ u[i] = s[i]
        BY <1>1, <1>2, <1>3, <3>1
      <4> QED
        BY <4>1 DEF Range
    <3>2. CASE ~(i <= m)
      <4>1. i - m \in DOMAIN t /\ u[i] = t[i - m]
        BY <1>1, <1>2, <1>3, <3>2
      <4> QED
        BY <4>1 DEF Range
    <3> QED
      BY <3>1, <3>2
  <2> QED
    BY <1>1, <2>1, <2>2, <2>3 DEF Range
<1>5. Uids(u) = Uids(s) \cup Uids(t)
  BY <1>4 DEF Uids
<1>6. ASSUME Distinct(s), Distinct(t), Uids(s) \cap Uids(t) = {}
      PROVE  Distinct(u)
  <2> SUFFICES ASSUME NEW i \in 1 .. m + n, NEW j \in 1 .. m + n,
                      u[i].uid = u[j].uid
               PROVE  i = j
    BY <1>1 DEF Distinct
  <2>1. \A k \in 1 .. m, l \in 1 .. n : s[k].uid # t[l].uid
    BY <1>1, <1>6 DEF Uids, Range
  <2>2. CASE i <= m
    <3>1. i \in 1 .. m /\ u[i] = s[i]
      BY <1>2, <1>3, <2>2
    <3>2. CASE j <= m
      <4>1. j \in 1 .. m /\ u[j] = s[j]
        BY <1>2, <1>3, <3>2
      <4> QED
        BY <1>1, <1>6, <3>1, <4>1 DEF Distinct
    <3>3. CASE ~(j <= m)
      <4>1. j - m \in 1 .. n /\ u[j] = t[j - m]
        BY <1>2, <1>3, <3>3
      <4> QED
        BY <2>1, <3>1, <4>1
    <3> QED
      BY <3>2, <3>3
  <2>3. CASE ~(i <= m)
    <3>1. i - m \in 1 .. n /\ u[i] = t[i - m]
      BY <1>2, <1>3, <2>3
    <3>2. CASE j <= m
      <4>1. j \in 1 .. m /\ u[j] = s[j]
        BY <1>2, <1>3, <3>2
      <4> QED
        BY <2>1, <3>1, <4>1
    <3>3. CASE ~(j <= m)
      <4>1. j - m \in 1 .. n /\ u[j] = t[j - m]
        BY <1>2, <1>3, <3>3
      <4>2. i - m = j - m
        BY <1>1, <1>6, <3>1, <4>1 DEF Distinct
      <4> QED
        BY <1>3, <4>2
    <3> QED
      BY <3>2, <3>3
  <2> QED
    BY <2>2, <2>3
<1> QED
  BY <1>1, <1>4, <1>5, <1>6 DEF u

-----------------------------------------------------------------------------
(* What the registry and table operators return and keep.                  *)

\* Registry.Report makes an entry out of an entry or out of nothing.
LEMMA ReportedType ==
  ASSUME NEW entry \in Entry \cup {Nil}, NEW msg \in Message,
         NEW meta \in Conn, NEW now \in Nat
  PROVE  Reported(entry, msg, meta, now) \in Entry
<1>1. [s \in Section |-> IF msg[s] # Nil THEN msg[s]
                         ELSE IF entry = Nil THEN Nil ELSE entry.fields[s]]
        \in [Section -> Value \cup {Nil}]
  BY DEF Entry, Message
<1>2. (IF entry = Nil THEN now ELSE entry.firstSeen) \in Nat
  BY DEF Entry
<1> QED BY <1>1, <1>2 DEF Reported, Entry

\* Sweep keeps an entry or drops it.
LEMMA SweptType ==
  ASSUME NEW entry \in Entry \cup {Nil}, NEW now \in Nat
  PROVE  Swept(entry, now) \in Entry \cup {Nil}
BY DEF Swept, Entry

\* The agents upsert makes a row.
LEMMA UpsertAgentType ==
  ASSUME NEW row \in AgentRow \cup {Nil}, NEW entry \in Entry
  PROVE  UpsertAgent(row, entry) \in AgentRow
<1>1. AgentColumns(entry) \in [AgentColumn -> Value \cup {Nil}]
  BY DEF AgentColumns, AgentColumn, Entry
<1>2. CASE row = Nil
  BY <1>1, <1>2 DEF UpsertAgent, AgentsGuard, AgentRow, Entry
<1>3. CASE row # Nil
  BY <1>1, <1>3 DEF UpsertAgent, AgentsGuard, AgentRow, Entry
<1> QED BY <1>2, <1>3

\* The session upsert makes a row.
LEMMA UpsertSessionType ==
  ASSUME NEW row \in SessionRow \cup {Nil}, NEW entry \in Entry
  PROVE  UpsertSession(row, entry) \in SessionRow
BY DEF UpsertSession, SessionGuard, SessionRow, Entry

\* Replacing the files leaves a row or none.
LEMMA ReplaceConfigType ==
  ASSUME NEW agent, NEW row \in ConfigRow \cup {Nil}, NEW entry \in Entry
  PROVE  ReplaceConfig(agent, row, entry) \in ConfigRow \cup {Nil}
BY SectionAssumption DEF ReplaceConfig, ConfigRow, Entry

\* The soft delete changes a row only in its evicted_at.
LEMMA SoftDeleteType ==
  ASSUME NEW row \in AgentRow \cup {Nil}, NEW now \in Nat
  PROVE  /\ SoftDelete(row, now) \in AgentRow \cup {Nil}
         /\ SoftDelete(row, now) = Nil <=> row = Nil
         /\ row # Nil => /\ SoftDelete(row, now).firstSeen = row.firstSeen
                         /\ SoftDelete(row, now).updatedAt = row.updatedAt
                         /\ SoftDelete(row, now).fields = row.fields
                         /\ SoftDelete(row, now).evictedAt # Nil
                         /\ row.evictedAt # Nil => SoftDelete(row, now) = row
BY NilAssumption, RowAssumption DEF SoftDelete, AgentRow

\* One SaveAgent keeps the files and the row together.
LEMMA SaveMatches ==
  ASSUME NEW row \in AgentRow \cup {Nil}, NEW files \in ConfigRow \cup {Nil},
         NEW entry \in Entry,
         files # Nil => row # Nil /\ files.updatedAt = row.updatedAt
  PROVE  ReplaceConfig(row, files, entry) # Nil =>
           ReplaceConfig(row, files, entry).updatedAt
             = UpsertAgent(row, entry).updatedAt
<1>1. CASE AgentsGuard(row, entry)
  BY <1>1 DEF ReplaceConfig, UpsertAgent
<1>2. CASE ~AgentsGuard(row, entry)
  BY <1>2 DEF ReplaceConfig, UpsertAgent, AgentsGuard
<1> QED BY <1>1, <1>2

\* The agents and config statements of one SaveAgent never move a row back.
LEMMA UpsertAgentAdvances ==
  ASSUME NEW row \in AgentRow, NEW files \in ConfigRow \cup {Nil},
         NEW entry \in Entry
  PROVE  /\ UpsertAgent(row, entry).firstSeen = row.firstSeen
         /\ UpsertAgent(row, entry).evictedAt = row.evictedAt
         /\ \/ UpsertAgent(row, entry).updatedAt > row.updatedAt
            \/ /\ UpsertAgent(row, entry) = row
               /\ ReplaceConfig(row, files, entry) = files
<1>1. row # Nil
  BY RowAssumption
<1>2. CASE AgentsGuard(row, entry)
  BY <1>1, <1>2 DEF UpsertAgent, AgentsGuard, AgentRow, Entry
<1>3. CASE ~AgentsGuard(row, entry)
  BY <1>3 DEF UpsertAgent, ReplaceConfig
<1> QED BY <1>2, <1>3

-----------------------------------------------------------------------------
(* What is read.                                                           *)

\* A registry entry's snapshot.
LEMMA SnapshotType ==
  ASSUME NEW id \in Uid, NEW entry \in Entry
  PROVE  Snapshot(id, entry) \in SnapshotOf /\ Snapshot(id, entry).uid = id
BY DEF Snapshot, SnapshotOf, Entry

\* A row and its session, read back.
LEMMA ScanType ==
  ASSUME NEW id \in Uid, NEW row \in AgentRow, NEW session \in SessionRow
  PROVE  /\ scanAgent(id, row, session) \in SnapshotOf
         /\ scanAgent(id, row, session).uid = id
         /\ scanAgent(id, row, session).evictedAt = row.evictedAt
         /\ scanAgent(id, row, session).lastSeen = row.updatedAt
<1>1. [s \in Section |-> IF s \in AgentColumn THEN row.fields[s] ELSE Nil]
        \in [Section -> Value \cup {Nil}]
  BY DEF AgentRow
<1> QED
  BY <1>1 DEF scanAgent, SnapshotOf, AgentRow, SessionRow

\* The correction of a stale session.
LEMMA CorrectedType ==
  ASSUME NEW a \in SnapshotOf, NEW now
  PROVE  /\ Corrected(a, now) \in SnapshotOf
         /\ Corrected(a, now).uid = a.uid
         /\ Corrected(a, now).lastSeen = a.lastSeen
         /\ Corrected(a, now).fields = a.fields
<1> DEFINE b == [a EXCEPT !.connected = FALSE]
<1>1. b \in SnapshotOf
  BY DEF SnapshotOf
<1>2. b.uid = a.uid /\ b.lastSeen = a.lastSeen /\ b.fields = a.fields
  BY DEF SnapshotOf
<1> QED
  BY <1>1, <1>2 DEF Corrected

\* What list says of an agent is what one of S says of it.
SaysWhat(list, S) == \A a \in Range(list) : \E b \in S : a.fields = b.fields

-----------------------------------------------------------------------------
(* The inductive invariant.                                                *)

\* An agent's three rows: no agents row without its session, no config files
\* without the agents row they were written with.
RowInv ==
  \A id \in Uid :
    /\ agentRow[id] # Nil => sessionRow[id] # Nil
    /\ configRow[id] # Nil =>
         /\ agentRow[id] # Nil
         /\ configRow[id].updatedAt = agentRow[id].updatedAt

\* The histories speak of agents that are still as they say.
HistoryInv ==
  /\ stayed \subseteq Registered(agents)
  /\ kept \subseteq LiveRows(agentRow)
  /\ gone \cap (Registered(agents) \cup LiveRows(agentRow)) = {}

\* What a walk that is about to read shard n has read: agents of the shards
\* before it, and all of those that stayed.
Walked(list, n) ==
  /\ \A a \in Range(list) : ShardOf[a.uid] < n
  /\ \A id \in stayed : ShardOf[id] < n => id \in Uids(list)

WalkInv ==
  /\ step = "idle" => local = << >>
  /\ step = "walk" => Walked(local, shard)
  /\ step \in {"walk", "listed", "merged", "series", "scraped"} =>
       Distinct(local) /\ gone \cap Uids(local) = {}
  /\ step \in {"listed", "merged", "series", "scraped"} =>
       stayed \subseteq Uids(local)

SeriesInv ==
  /\ step \in {"idle", "walk", "listed"} => series = << >>
  /\ step = "series" => Walked(series, shard)
  /\ step = "scraped" /\ Len(local) <= PerAgentLimit =>
       stayed \subseteq Uids(series)

\* What the store's list was when it was read.
ListInv ==
  step = "merged" /\ ~partial =>
    /\ Distinct(db)
    /\ kept \subseteq {a.uid : a \in {b \in Range(db) : b.evictedAt = Nil}}
    /\ \A a \in Range(db) : a.uid \in gone => a.evictedAt # Nil

\* What a detail request has read, and what its row has become since.
DetailInv ==
  /\ step = "idle" => config = Nil
  /\ step \in {"missed", "got"} => wanted \in Uid
  /\ step = "got" =>
       /\ Len(db) = 1
       /\ db[1].evictedAt = Nil => wanted \notin gone
       /\ wanted \in unpurged =>
            /\ agentRow[wanted] # Nil
            /\ agentRow[wanted].updatedAt >= db[1].lastSeen
  /\ step = "detail" => wanted \notin gone
  /\ ConfigNotOlder

ReadInv ==
  RowInv /\ HistoryInv /\ WalkInv /\ SeriesInv /\ ListInv /\ DetailInv

-----------------------------------------------------------------------------
(* Walks and queries.                                                      *)

\* Any arrangement of what is known of the agents T shows each of them once.
LEMMA AgentsArranged ==
  ASSUME NEW T \in SUBSET Uid, NEW R \in SUBSET SnapshotOf,
         NEW f \in Surjection(T, R), \A u \in T : f[u].uid = u
  PROVE  /\ IsFiniteSet(R)
         /\ \A a \in R : a \in SnapshotOf /\ a.uid \in T /\ a = f[a.uid]
         /\ \A s \in InAnyOrder(R) :
              /\ s \in Seq(SnapshotOf) /\ Len(s) = Cardinality(R)
              /\ Range(s) = R /\ Uids(s) = T
              /\ Distinct(s)
<1>1. f \in [T -> R] /\ \A a \in R : \E u \in T : f[u] = a
  BY DEF Surjection
<1>2. IsFiniteSet(T)
  BY FleetReadAssumption, FS_Subset
<1>3. IsFiniteSet(R)
  BY <1>2, FS_Surjection
<1>4. \A a \in R : a \in SnapshotOf /\ a.uid \in T /\ a = f[a.uid]
  BY <1>1
<1>5. ASSUME NEW s \in InAnyOrder(R)
      PROVE  /\ s \in Seq(SnapshotOf) /\ Len(s) = Cardinality(R)
             /\ Range(s) = R /\ Uids(s) = T
             /\ Distinct(s)
  <2>1. /\ s \in Seq(R) /\ Len(s) = Cardinality(R) /\ Range(s) = R
        /\ \A i, j \in DOMAIN s : s[i] = s[j] => i = j
    BY <1>3, <1>5, Arranged
  <2>2. s \in Seq(SnapshotOf)
    <3>1. R \subseteq SnapshotOf
      BY <1>4
    <3> QED
      BY ONLY <2>1, <3>1
  <2>3. Uids(s) = T
    <3>1. \A u \in T : f[u] \in R /\ f[u].uid = u
      BY <1>1
    <3>2. \A a \in R : a.uid \in T
      BY <1>4
    <3>3. ASSUME NEW u \in T PROVE u \in Uids(s)
      <4>1. f[u] \in Range(s) /\ f[u].uid = u
        BY <2>1, <3>1
      <4> QED
        BY ONLY Zenon, <4>1 DEF Uids
    <3>4. ASSUME NEW u \in Uids(s) PROVE u \in T
      <4>1. \A a \in Range(s) : a.uid \in T
        BY ONLY Zenon, <2>1, <3>2
      <4> QED
        BY ONLY Zenon, <4>1, <3>4, u \in Uids(s) DEF Uids
    <3> QED
      BY ONLY Zenon, <3>3, <3>4
  <2>4. \A i \in DOMAIN s : s[i] \in R
    BY <2>1 DEF Range
  <2>5. Distinct(s)
    <3> SUFFICES ASSUME NEW i \in DOMAIN s, NEW j \in DOMAIN s,
                        s[i].uid = s[j].uid
                 PROVE  i = j
      BY DEF Distinct
    <3>1. s[i] = f[s[i].uid] /\ s[j] = f[s[j].uid]
      BY <1>4, <2>4
    <3>2. s[i] = s[j]
      BY <3>1
    <3> QED
      BY <2>1, <3>2
  <2> QED
    BY <2>1, <2>2, <2>3, <2>5
<1> QED
  BY <1>3, <1>4, <1>5

\* One turn of a walk reads the agents that are registered in the shard.
LEMMA ShardRead ==
  ASSUME TypeOK, NEW n, NEW some \in InAnyOrder(InShard(n))
  PROVE  /\ some \in Seq(SnapshotOf) /\ Distinct(some)
         /\ Uids(some) = {u \in Registered(agents) : ShardOf[u] = n}
<1> DEFINE T == {u \in Registered(agents) : ShardOf[u] = n}
           f == [u \in T |-> Snapshot(u, agents[u])]
<1>1. \A u \in T : u \in Uid /\ agents[u] \in Entry
  BY DEF TypeOK, Registered
<1>2. T \in SUBSET Uid
  BY <1>1
<1>3. \A u \in T : /\ Snapshot(u, agents[u]) \in SnapshotOf
                   /\ Snapshot(u, agents[u]).uid = u
  BY <1>1, SnapshotType
<1>4. \A u \in T : f[u].uid = u
  BY <1>3
<1>5. InShard(n) \in SUBSET SnapshotOf /\ f \in Surjection(T, InShard(n))
  <2>1. InShard(n) \in SUBSET SnapshotOf
    BY <1>3 DEF InShard
  <2>2. f \in [T -> InShard(n)] /\ \A a \in InShard(n) : \E u \in T : f[u] = a
    BY DEF InShard
  <2> QED
    BY <2>1, <2>2 DEF Surjection
<1> HIDE DEF T, f
<1>6. \A s \in InAnyOrder(InShard(n)) :
        /\ s \in Seq(SnapshotOf) /\ Len(s) = Cardinality(InShard(n))
        /\ Range(s) = InShard(n) /\ Uids(s) = T
        /\ Distinct(s)
  BY ONLY Zenon, <1>2, <1>4, <1>5, AgentsArranged
<1> QED
  BY <1>6 DEF T

\* A walk in any order of the shard: what it has read covers one shard more.
LEMMA WalkStep ==
  ASSUME TypeOK, HistoryInv, shard \in Nat,
         NEW list \in Seq(SnapshotOf), Walked(list, shard),
         NEW some \in InAnyOrder(InShard(shard))
  PROVE  /\ list \o some \in Seq(SnapshotOf)
         /\ Walked(list \o some, shard + 1)
         /\ Distinct(list) => Distinct(list \o some)
         /\ gone \cap Uids(list) = {} => gone \cap Uids(list \o some) = {}
<1> DEFINE T == {u \in Registered(agents) : ShardOf[u] = shard}
<1>1. some \in Seq(SnapshotOf) /\ Distinct(some) /\ Uids(some) = T
  BY ShardRead
<1>2. /\ list \o some \in Seq(SnapshotOf)
      /\ Range(list \o some) = Range(list) \cup Range(some)
      /\ Uids(list \o some) = Uids(list) \cup T
      /\ Distinct(list) /\ Distinct(some) /\ Uids(list) \cap Uids(some) = {} =>
           Distinct(list \o some)
  BY <1>1, ConcatShows
<1>3. \A u \in Uid : ShardOf[u] \in Nat
  BY SMT, FleetReadAssumption
<1>4. /\ \A a \in Range(list) : a.uid \in Uid /\ ShardOf[a.uid] < shard
      /\ \A a \in Range(some) : ShardOf[a.uid] = shard
  <2>1. \A a \in Range(list) : a \in SnapshotOf
    BY SMT DEF Range
  <2>2. \A a \in Range(list) : a.uid \in Uid
    BY <2>1 DEF SnapshotOf
  <2>3. \A a \in Range(some) : a.uid \in T
    BY <1>1 DEF Uids
  <2> QED
    BY <2>2, <2>3 DEF Walked
<1>5. ASSUME NEW u \in Uid
      PROVE  /\ ShardOf[u] < shard => ShardOf[u] < shard + 1
             /\ ShardOf[u] = shard => ShardOf[u] < shard + 1
             /\ ShardOf[u] < shard => ShardOf[u] # shard
             /\ ShardOf[u] < shard + 1 => ShardOf[u] < shard \/ ShardOf[u] = shard
  <2>1. ShardOf[u] \in Nat /\ shard \in Nat
    BY <1>3
  <2> QED
    BY ONLY <2>1
<1>6. \A u \in T : u \in Uid /\ u \notin gone
  BY DEF HistoryInv, Registered
<1>7. \A u \in stayed : u \in Uid /\ (ShardOf[u] = shard => u \in T)
  BY DEF HistoryInv, Registered
<1>8. Walked(list \o some, shard + 1)
  <2>1. \A a \in Range(list \o some) : ShardOf[a.uid] < shard + 1
    <3>1. \A a \in Range(some) : a.uid \in Uid
      BY <1>1, <1>6 DEF Uids
    <3> QED
      BY <1>2, <1>4, <1>5, <3>1
  <2>2. \A u \in stayed : ShardOf[u] < shard + 1 => u \in Uids(list \o some)
    BY <1>2, <1>5, <1>7 DEF Walked
  <2> QED
    BY <2>1, <2>2 DEF Walked
<1>9. Uids(list) \cap Uids(some) = {}
  <2>1. \A u \in Uids(list) : u \in Uid /\ ShardOf[u] < shard
    BY <1>4 DEF Uids
  <2> QED
    BY <1>1, <1>5, <2>1
<1>10. gone \cap Uids(list) = {} => gone \cap Uids(list \o some) = {}
  BY <1>2, <1>6
<1> QED
  BY <1>1, <1>2, <1>8, <1>9, <1>10

\* What the agents query reads of the rows of ids.
StoredAgents(ids) ==
  {scanAgent(id, agentRow[id], sessionRow[id]) :
     id \in {u \in ids : agentRow[u] # Nil}}

\* The query's rows: each agent once, in an order that exists.
LEMMA QueryRead ==
  ASSUME TypeOK, NEW ids \in SUBSET Uid,
         \A id \in ids : agentRow[id] # Nil => sessionRow[id] # Nil
  PROVE  /\ queryAgents(ids) \in Seq(SnapshotOf) /\ Distinct(queryAgents(ids))
         /\ Range(queryAgents(ids)) = StoredAgents(ids)
         /\ Len(queryAgents(ids)) = Cardinality(StoredAgents(ids))
         /\ \A id \in ids : agentRow[id] # Nil =>
              LET a == scanAgent(id, agentRow[id], sessionRow[id]) IN
              /\ a.uid = id /\ a.evictedAt = agentRow[id].evictedAt
              /\ a.lastSeen = agentRow[id].updatedAt
<1> DEFINE T == {u \in ids : agentRow[u] # Nil}
           f == [u \in T |-> scanAgent(u, agentRow[u], sessionRow[u])]
           R == StoredAgents(ids)
<1>1. \A u \in T : u \in Uid /\ agentRow[u] \in AgentRow /\ sessionRow[u] \in SessionRow
  BY DEF TypeOK
<1>2. T \in SUBSET Uid
  BY <1>1
<1>3. \A u \in T :
        /\ scanAgent(u, agentRow[u], sessionRow[u]) \in SnapshotOf
        /\ scanAgent(u, agentRow[u], sessionRow[u]).uid = u
        /\ scanAgent(u, agentRow[u], sessionRow[u]).evictedAt = agentRow[u].evictedAt
        /\ scanAgent(u, agentRow[u], sessionRow[u]).lastSeen = agentRow[u].updatedAt
  <2> HIDE DEF T, f, R
  <2> SUFFICES ASSUME NEW u \in T
               PROVE  /\ scanAgent(u, agentRow[u], sessionRow[u]) \in SnapshotOf
                      /\ scanAgent(u, agentRow[u], sessionRow[u]).uid = u
                      /\ scanAgent(u, agentRow[u], sessionRow[u]).evictedAt
                           = agentRow[u].evictedAt
                      /\ scanAgent(u, agentRow[u], sessionRow[u]).lastSeen
                           = agentRow[u].updatedAt
    OBVIOUS
  <2>1. u \in Uid /\ agentRow[u] \in AgentRow /\ sessionRow[u] \in SessionRow
    BY <1>1
  <2> QED
    BY <2>1, ScanType
<1>4. \A u \in T : f[u].uid = u
  BY <1>3
<1>5. R \in SUBSET SnapshotOf /\ f \in Surjection(T, R)
  <2>1. R \in SUBSET SnapshotOf
    BY <1>3 DEF StoredAgents
  <2>2. f \in [T -> R] /\ \A a \in R : \E u \in T : f[u] = a
    BY DEF StoredAgents
  <2> QED
    BY <2>1, <2>2 DEF Surjection
<1>7. queryAgents(ids) = CHOOSE rows \in InAnyOrder(R) : ByUid(rows)
  BY DEF queryAgents, StoredAgents, ByUid
<1> HIDE DEF T, f, R
<1>8. /\ IsFiniteSet(R)
      /\ \A a \in R : a \in SnapshotOf /\ a.uid \in T /\ a = f[a.uid]
      /\ \A s \in InAnyOrder(R) :
           /\ s \in Seq(SnapshotOf) /\ Len(s) = Cardinality(R)
           /\ Range(s) = R /\ Uids(s) = T
           /\ Distinct(s)
  <2>1. IsFiniteSet(R)
    BY ONLY Zenon, <1>2, <1>4, <1>5, AgentsArranged
  <2>2. \A a \in R : a \in SnapshotOf /\ a.uid \in T /\ a = f[a.uid]
    BY ONLY Zenon, <1>4, <1>5 DEF Surjection
  <2>3. \A s \in InAnyOrder(R) :
          /\ s \in Seq(SnapshotOf) /\ Len(s) = Cardinality(R)
          /\ Range(s) = R /\ Uids(s) = T
          /\ Distinct(s)
    BY ONLY Zenon, <1>2, <1>4, <1>5, AgentsArranged
  <2> QED
    BY <2>1, <2>2, <2>3
<1>9. \E rows \in InAnyOrder(R) : ByUid(rows)
  <2>1. \A u \in Uid : u \in Nat
    BY UidAssumption
  <2>2. \A a \in R : a.uid \in Nat
    BY <1>2, <1>8, <2>1
  <2>3. \A a, b \in R : a.uid = b.uid => a = b
    BY <1>8
  <2>4. R \in SUBSET R
    OBVIOUS
  <2> QED
    BY <1>8, <2>2, <2>3, <2>4, SortedExists
<1>10. queryAgents(ids) \in InAnyOrder(R)
  BY <1>7, <1>9
<1> QED
  BY <1>3, <1>8, <1>10 DEF R, T

-----------------------------------------------------------------------------
(* The merge: what the loop over the store's rows has made after n turns.  *)

MergeTurn(list, rows, now, merged, i) ==
  IF rows[i].uid \in Uids(list) \/ rows[i].evictedAt # Nil THEN merged
  ELSE Append(merged, Corrected(rows[i], now))

MergeLoop(list, rows, now, f, n) ==
  f = [i \in 0 .. n |-> IF i = 0 THEN list
                        ELSE MergeTurn(list, rows, now, f[i - 1], i)]

\* The loop over the store's rows can be run.
LEMMA MergeLoopRuns ==
  ASSUME NEW list \in Seq(SnapshotOf), NEW rows \in Seq(SnapshotOf), NEW now
  PROVE  \E f : MergeLoop(list, rows, now, f, Len(rows))
<1> DEFINE N == Len(rows)
           X == Seq(SnapshotOf)
           turn == [p \in X \X (1 .. N) |-> MergeTurn(list, rows, now, p[1], p[2])]
<1>1. N \in Nat /\ \A k \in 1 .. N : rows[k] \in SnapshotOf
  BY SMT
<1> HIDE DEF N
<1>2. ASSUME NEW s \in X, NEW i \in 1 .. N
      PROVE  MergeTurn(list, rows, now, s, i) \in X
  <2>1. Corrected(rows[i], now) \in SnapshotOf
    BY <1>1, CorrectedType
  <2>2. Append(s, Corrected(rows[i], now)) \in X
    BY <2>1, AppendShows
  <2> QED
    BY <2>2 DEF MergeTurn
<1>3. list \in X
  OBVIOUS
<1> HIDE DEF X
<1>4. turn \in [X \X (1 .. N) -> X]
  BY <1>2
<1>5. \A s \in X, i \in 1 .. N : turn[<<s, i>>] = MergeTurn(list, rows, now, s, i)
  OBVIOUS
<1> HIDE DEF turn
<1>6. PICK g \in [0 .. N -> X] : Loop(g, N, list, turn)
  BY ONLY Zenon, <1>1, <1>3, <1>4, LoopRuns
<1>7. \A i \in 0 .. N : i # 0 => i \in 1 .. N /\ i - 1 \in 0 .. N
  BY ONLY <1>1
<1>8. \A i \in 0 .. N : i # 0 =>
        turn[<<g[i - 1], i>>] = MergeTurn(list, rows, now, g[i - 1], i)
  BY <1>5, <1>7
<1>9. g = [i \in 0 .. N |-> IF i = 0 THEN list
                            ELSE MergeTurn(list, rows, now, g[i - 1], i)]
  BY ONLY Zenon, <1>6, <1>8 DEF Loop
<1>10. MergeLoop(list, rows, now, g, N)
  BY ONLY Zenon, <1>9 DEF MergeLoop
<1> QED
  BY <1>10 DEF N

\* The merge shows the local agents and those of the store's rows that are not
\* soft-deleted, each of them once.
LEMMA MergeShows ==
  ASSUME NEW list \in Seq(SnapshotOf), NEW rows \in Seq(SnapshotOf), NEW now,
         Distinct(list), Distinct(rows)
  PROVE  /\ MergeAgents(list, rows, now) \in Seq(SnapshotOf)
         /\ Distinct(MergeAgents(list, rows, now))
         /\ Uids(MergeAgents(list, rows, now)) =
              Uids(list) \cup
                {a.uid : a \in {b \in Range(rows) : b.evictedAt = Nil}}
         /\ SaysWhat(MergeAgents(list, rows, now), Range(list) \cup Range(rows))
<1> DEFINE N == Len(rows)
           f == CHOOSE g : MergeLoop(list, rows, now, g, N)
           Alive(n) == {k \in 1 .. N : k <= n /\ rows[k].evictedAt = Nil}
           Shown(n) == Uids(list) \cup {rows[k].uid : k \in Alive(n)}
           All == Range(list) \cup Range(rows)
           Good == {n \in Nat : n <= N =>
                      /\ f[n] \in Seq(SnapshotOf) /\ Distinct(f[n])
                      /\ Uids(f[n]) = Shown(n) /\ SaysWhat(f[n], All)}
<1>n. N \in Nat /\ DOMAIN rows = 1 .. N /\ \A k \in 1 .. N : rows[k] \in SnapshotOf
  BY SMT
<1>1. MergeAgents(list, rows, now) = f[N]
  BY DEF MergeAgents, MergeLoop, MergeTurn
<1>2. MergeLoop(list, rows, now, f, N)
  BY MergeLoopRuns
<1> HIDE DEF N
<1> HIDE DEF f
<1>3. f = [i \in 0 .. N |-> IF i = 0 THEN list
                            ELSE MergeTurn(list, rows, now, f[i - 1], i)]
  BY ONLY Zenon, <1>2 DEF MergeLoop
<1>4. 0 \in Good
  <2>1. f[0] = list
    BY ONLY <1>3, <1>n
  <2>2. Alive(0) = {}
    BY ONLY <1>n
  <2>3. Shown(0) = Uids(list)
    BY <2>2
  <2>4. SaysWhat(list, All)
    BY DEF SaysWhat
  <2> HIDE DEF Shown, All
  <2> QED
    BY <2>1, <2>3, <2>4
<1>5. ASSUME NEW n \in Good PROVE n + 1 \in Good
  <2>1. n \in Nat /\ n + 1 \in Nat
    BY SMT
  <2> SUFFICES ASSUME n + 1 <= N
               PROVE  /\ f[n + 1] \in Seq(SnapshotOf) /\ Distinct(f[n + 1])
                      /\ Uids(f[n + 1]) = Shown(n + 1) /\ SaysWhat(f[n + 1], All)
    BY <2>1
  <2>2. n <= N /\ n + 1 \in 1 .. N /\ n + 1 \in 0 .. N /\ n + 1 # 0
        /\ (n + 1) - 1 = n
    BY ONLY <1>n, <2>1, n + 1 <= N
  <2>3. /\ f[n] \in Seq(SnapshotOf) /\ Distinct(f[n])
        /\ Uids(f[n]) = Shown(n) /\ SaysWhat(f[n], All)
    BY <2>2
  <2> DEFINE a == rows[n + 1]
  <2>4. f[n + 1] = MergeTurn(list, rows, now, f[n], n + 1)
    <3>1. f[n + 1] = MergeTurn(list, rows, now, f[(n + 1) - 1], n + 1)
      BY ONLY Zenon, <1>3, <2>2
    <3> QED
      BY <2>2, <3>1
  <2>5. f[n + 1] = IF a.uid \in Uids(list) \/ a.evictedAt # Nil THEN f[n]
                   ELSE Append(f[n], Corrected(a, now))
    BY <2>4 DEF MergeTurn
  <2>6. a \in SnapshotOf /\ a \in All
    BY <1>n, <2>2 DEF Range
  <2>7. ASSUME NEW k \in 1 .. N
        PROVE  k <= n + 1 <=> k <= n \/ k = n + 1
    BY ONLY <1>n, <2>1, k \in 1 .. N
  <2>8. Alive(n + 1) = IF a.evictedAt = Nil THEN Alive(n) \cup {n + 1} ELSE Alive(n)
    BY <2>2, <2>7
  <2>9. Shown(n + 1) = IF a.evictedAt = Nil THEN Shown(n) \cup {a.uid} ELSE Shown(n)
    <3> HIDE DEF Alive
    <3> QED
      BY <2>8
  <2>10. Uids(list) \subseteq Shown(n)
    OBVIOUS
  <2>11. a.uid \in Shown(n) => a.uid \in Uids(list)
    <3>1. ~(n + 1 <= n)
      BY ONLY <2>1
    <3>2. n + 1 \notin Alive(n)
      BY <3>1
    <3>3. \A k \in Alive(n) : k \in DOMAIN rows
      BY <1>n
    <3> HIDE DEF Alive
    <3>4. \A k \in Alive(n) : rows[k].uid # a.uid
      BY <1>n, <2>2, <3>2, <3>3 DEF Distinct
    <3> QED
      BY <3>4
  <2> HIDE DEF Shown, Alive, All, a
  <2>12. CASE a.uid \in Uids(list) \/ a.evictedAt # Nil
    <3>1. Shown(n + 1) = Shown(n)
      BY <2>9, <2>10, <2>12
    <3> QED
      BY <2>3, <2>5, <2>12, <3>1
  <2>13. CASE ~(a.uid \in Uids(list) \/ a.evictedAt # Nil)
    <3>1. /\ Corrected(a, now) \in SnapshotOf
          /\ Corrected(a, now).uid = a.uid
          /\ Corrected(a, now).fields = a.fields
      BY <2>6, CorrectedType
    <3>2. a.uid \notin Uids(f[n])
      BY <2>3, <2>11, <2>13
    <3>3. Shown(n + 1) = Shown(n) \cup {a.uid}
      BY <2>9, <2>13
    <3>4. f[n + 1] = Append(f[n], Corrected(a, now))
      BY <2>5, <2>13
    <3> DEFINE c == Corrected(a, now)
    <3> HIDE DEF c
    <3>5. c \in SnapshotOf /\ c.uid = a.uid /\ c.fields = a.fields
          /\ f[n + 1] = Append(f[n], c)
      BY <3>1, <3>4 DEF c
    <3>6. /\ Append(f[n], c) \in Seq(SnapshotOf)
          /\ Range(Append(f[n], c)) = Range(f[n]) \cup {c}
          /\ Uids(Append(f[n], c)) = Uids(f[n]) \cup {c.uid}
          /\ Distinct(f[n]) /\ c.uid \notin Uids(f[n]) => Distinct(Append(f[n], c))
      BY ONLY Zenon, <2>3, <3>5, AppendShows
    <3>7. SaysWhat(f[n + 1], All)
      BY ONLY Zenon, <2>3, <2>6, <3>5, <3>6 DEF SaysWhat
    <3> QED
      BY ONLY Zenon, <2>3, <3>2, <3>3, <3>5, <3>6, <3>7
  <2> QED
    BY <2>12, <2>13
<1>6. Good \in SUBSET Nat
  OBVIOUS
<1>7. \A n \in Nat : n \in Good
  <2> HIDE DEF Good
  <2> QED
    BY <1>4, <1>5, <1>6, SetInduction
<1>8. /\ f[N] \in Seq(SnapshotOf) /\ Distinct(f[N])
      /\ Uids(f[N]) = Shown(N) /\ SaysWhat(f[N], All)
  <2>1. N <= N
    BY ONLY <1>n
  <2> HIDE DEF Shown, All
  <2> QED
    BY <1>n, <1>7, <2>1
<1>9. Shown(N) = Uids(list) \cup
                   {a.uid : a \in {b \in Range(rows) : b.evictedAt = Nil}}
  <2>1. \A k \in 1 .. N : k <= N
    BY ONLY <1>n
  <2>2. ASSUME NEW k \in Alive(N)
        PROVE  \E a \in {b \in Range(rows) : b.evictedAt = Nil} : a.uid = rows[k].uid
    <3>1. rows[k] \in Range(rows) /\ rows[k].evictedAt = Nil
      BY <1>n DEF Range
    <3> QED
      BY <3>1
  <2>3. ASSUME NEW a \in Range(rows), a.evictedAt = Nil
        PROVE  \E k \in Alive(N) : a.uid = rows[k].uid
    <3>1. PICK k \in 1 .. N : a = rows[k]
      BY <1>n DEF Range
    <3> QED
      BY <2>1, <2>3, <3>1
  <2> HIDE DEF Alive
  <2>4. {rows[k].uid : k \in Alive(N)} =
          {a.uid : a \in {b \in Range(rows) : b.evictedAt = Nil}}
    BY ONLY <2>2, <2>3
  <2> QED
    BY <2>4
<1> QED
  BY <1>1, <1>8, <1>9

-----------------------------------------------------------------------------
(* The fleet changes.                                                      *)

\* The two parts of TypeOK: the fleet, and the request.
FleetType ==
  /\ clock \in Nat
  /\ agents \in [Uid -> Entry \cup {Nil}]
  /\ agentRow \in [Uid -> AgentRow \cup {Nil}]
  /\ sessionRow \in [Uid -> SessionRow \cup {Nil}]
  /\ configRow \in [Uid -> ConfigRow \cup {Nil}]

RequestType ==
  /\ changes \in 0 .. MaxChanges
  /\ step \in {"idle", "walk", "listed", "merged", "series", "scraped",
               "missed", "got", "detail", "absent"}
  /\ wanted \in Uid \cup {Nil} /\ shard \in 0 .. ShardCount
  /\ {local, series, db} \subseteq Seq(SnapshotOf)
  /\ config \in ConfigRow \cup {Nil}
  /\ partial \in BOOLEAN
  /\ \A ids \in {stayed, kept, gone, unpurged} : ids \subseteq Uid

\* A row that stays never moves back in event time.
RowsForward ==
  \A id \in Uid : agentRow[id] # Nil /\ agentRow'[id] # Nil =>
    agentRow'[id].updatedAt >= agentRow[id].updatedAt

\* The two thresholds are times.
LEMMA ThresholdType ==
  DisconnectThreshold \in Nat /\ EvictAfter \in Nat
BY SMT, TimingAssumption DEF DisconnectThreshold, EvictAfter

\* A fleet at rest satisfies the invariant before its first request.
LEMMA ReadInit == Init => TypeOK /\ ReadInv
<1> SUFFICES ASSUME Init PROVE TypeOK /\ ReadInv
  OBVIOUS
<1> DEFINE now == EvictAfter + 1
           meta == CHOOSE m \in Conn : TRUE
           past(id, at) == Reported(Nil, FirstMessage[id], meta, at)
           at(id, E) == IF id \in E THEN 0 ELSE now
<1>1. now \in Nat /\ 0 \in Nat
  BY SMT, ThresholdType
<1>2. meta \in Conn
  BY FleetReadAssumption
<1>3a. PICK here \in SUBSET Uid, stored \in SUBSET Uid :
         \E E \in SUBSET stored :
          /\ agents = [id \in Uid |-> IF id \in here THEN past(id, now) ELSE Nil]
          /\ agentRow = [id \in Uid |->
               IF id \in E THEN SoftDelete(UpsertAgent(Nil, past(id, 0)), now)
               ELSE IF id \in stored THEN UpsertAgent(Nil, past(id, now)) ELSE Nil]
          /\ sessionRow = [id \in Uid |->
               IF id \in stored THEN UpsertSession(Nil, past(id, at(id, E)))
               ELSE Nil]
          /\ configRow = [id \in Uid |->
               IF id \in stored THEN ReplaceConfig(Nil, Nil, past(id, at(id, E)))
               ELSE Nil]
  BY DEF Init
<1>3. PICK E \in SUBSET stored :
        /\ agents = [id \in Uid |-> IF id \in here THEN past(id, now) ELSE Nil]
        /\ agentRow = [id \in Uid |->
             IF id \in E THEN SoftDelete(UpsertAgent(Nil, past(id, 0)), now)
             ELSE IF id \in stored THEN UpsertAgent(Nil, past(id, now)) ELSE Nil]
        /\ sessionRow = [id \in Uid |->
             IF id \in stored THEN UpsertSession(Nil, past(id, at(id, E)))
             ELSE Nil]
        /\ configRow = [id \in Uid |->
             IF id \in stored THEN ReplaceConfig(Nil, Nil, past(id, at(id, E)))
             ELSE Nil]
  BY <1>3a
<1>4. /\ clock = now /\ changes = 0
      /\ step = "idle" /\ wanted = Nil /\ shard = 0
      /\ local = << >> /\ series = << >> /\ db = << >>
      /\ config = Nil /\ partial = FALSE
      /\ stayed = {} /\ kept = {} /\ gone = {} /\ unpurged = {}
  BY DEF Init
<1>5. ASSUME NEW id \in Uid, NEW t \in Nat
      PROVE  past(id, t) \in Entry
  <2>1. FirstMessage[id] \in Message
    BY FleetReadAssumption
  <2> HIDE DEF meta
  <2> QED
    BY <1>2, <1>5, <2>1, ReportedType
<1>6. \A id \in Uid : past(id, now).lastSeen = now /\ past(id, 0).lastSeen = 0
  BY DEF Reported
<1> HIDE DEF past, now
<1>7. ASSUME NEW id \in Uid
      PROVE  /\ agents[id] \in Entry \cup {Nil}
             /\ agentRow[id] \in AgentRow \cup {Nil}
             /\ sessionRow[id] \in SessionRow \cup {Nil}
             /\ configRow[id] \in ConfigRow \cup {Nil}
             /\ agentRow[id] # Nil => sessionRow[id] # Nil
             /\ configRow[id] # Nil =>
                  /\ agentRow[id] # Nil
                  /\ configRow[id].updatedAt = agentRow[id].updatedAt
  <2>1. agents[id] \in Entry \cup {Nil}
    BY <1>1, <1>3, <1>5
  <2>2. CASE id \notin stored
    <3>1. agentRow[id] = Nil /\ sessionRow[id] = Nil /\ configRow[id] = Nil
      BY <1>3, <2>2
    <3> QED
      BY <2>1, <3>1
  <2>3. CASE id \in stored
    <3> DEFINE entry == past(id, at(id, E))
               row == UpsertAgent(Nil, entry)
    <3>1. entry \in Entry
      BY <1>1, <1>5
    <3>2. /\ sessionRow[id] = UpsertSession(Nil, entry)
          /\ configRow[id] = ReplaceConfig(Nil, Nil, entry)
          /\ agentRow[id] = IF id \in E THEN SoftDelete(row, now) ELSE row
      BY <1>3, <2>3
    <3> HIDE DEF entry
    <3>3. /\ row \in AgentRow /\ UpsertSession(Nil, entry) \in SessionRow
          /\ ReplaceConfig(Nil, Nil, entry) \in ConfigRow \cup {Nil}
      BY <3>1, UpsertAgentType, UpsertSessionType, ReplaceConfigType
    <3>4. ReplaceConfig(Nil, Nil, entry) # Nil =>
            ReplaceConfig(Nil, Nil, entry).updatedAt = row.updatedAt
      BY <3>1, SaveMatches
    <3> HIDE DEF row
    <3>5. row # Nil /\ UpsertSession(Nil, entry) # Nil
      BY <3>3, RowAssumption
    <3>6. /\ agentRow[id] \in AgentRow \cup {Nil} /\ agentRow[id] # Nil
          /\ agentRow[id].updatedAt = row.updatedAt
      <4>1. /\ SoftDelete(row, now) \in AgentRow \cup {Nil}
            /\ SoftDelete(row, now) # Nil
            /\ SoftDelete(row, now).updatedAt = row.updatedAt
        BY <1>1, <3>3, <3>5, SoftDeleteType
      <4> QED
        BY <3>2, <3>3, <3>5, <4>1
    <3> QED
      BY <2>1, <3>2, <3>3, <3>4, <3>5, <3>6
  <2> QED
    BY <2>2, <2>3
<1>8. FleetType
  <2>1. /\ agents = [id \in Uid |-> agents[id]]
        /\ agentRow = [id \in Uid |-> agentRow[id]]
        /\ sessionRow = [id \in Uid |-> sessionRow[id]]
        /\ configRow = [id \in Uid |-> configRow[id]]
    BY <1>3
  <2>2. /\ agents \in [Uid -> Entry \cup {Nil}]
        /\ agentRow \in [Uid -> AgentRow \cup {Nil}]
        /\ sessionRow \in [Uid -> SessionRow \cup {Nil}]
        /\ configRow \in [Uid -> ConfigRow \cup {Nil}]
    BY <1>7, <2>1
  <2> QED
    BY <1>1, <1>4, <2>2 DEF FleetType
<1>9. TypeOK
  <2>1. 0 \in 0 .. MaxChanges /\ 0 \in 0 .. ShardCount
    BY SMT, FleetReadAssumption
  <2>2. << >> \in Seq(SnapshotOf)
    BY SMT
  <2>3. RequestType
    BY <1>4, <2>1, <2>2 DEF RequestType
  <2> QED
    BY <1>8, <2>3 DEF TypeOK, FleetType, RequestType
<1>10. RowInv
  BY <1>7 DEF RowInv
<1>11. HistoryInv
  BY <1>4 DEF HistoryInv
<1>12. WalkInv /\ SeriesInv /\ ListInv /\ DetailInv
  BY <1>4 DEF WalkInv, SeriesInv, ListInv, DetailInv, ConfigNotOlder
<1> QED
  BY <1>9, <1>10, <1>11, <1>12 DEF ReadInv

\* Each change of the fleet is one of the statements or registry updates, so
\* the rows stay together and move forward.
LEMMA FleetMoves ==
  ASSUME TypeOK, RowInv, FleetChanges
  PROVE  Change /\ FleetType' /\ RowInv' /\ RowsForward
<1>t. FleetType
  BY DEF TypeOK, FleetType
<1>f. \A id \in Uid : agentRow[id] # Nil =>
        agentRow[id].updatedAt \in Nat /\ agentRow[id].updatedAt >= agentRow[id].updatedAt
  BY SMT, <1>t DEF FleetType, AgentRow
<1>s. ASSUME UNCHANGED tables
      PROVE  /\ agentRow' \in [Uid -> AgentRow \cup {Nil}]
             /\ sessionRow' \in [Uid -> SessionRow \cup {Nil}]
             /\ configRow' \in [Uid -> ConfigRow \cup {Nil}]
             /\ RowInv' /\ RowsForward
  <2>1. agentRow' = agentRow /\ sessionRow' = sessionRow /\ configRow' = configRow
    BY <1>s DEF tables
  <2> QED
    BY <1>t, <1>f, <2>1 DEF FleetType, RowInv, RowsForward
<1>1. ASSUME NEW id \in Uid, NEW msg \in Messages, NEW meta \in Conn,
             Report(id, msg, meta)
      PROVE  Change /\ FleetType' /\ RowInv' /\ RowsForward
  <2>1. /\ clock' = clock + 1 /\ UNCHANGED tables /\ Change
        /\ agents' = [agents EXCEPT ![id] = Reported(agents[id], msg, meta, clock + 1)]
    BY <1>1 DEF Report
  <2>2. clock' \in Nat /\ clock + 1 \in Nat
    BY SMT, <1>t, <2>1 DEF FleetType
  <2>3. Reported(agents[id], msg, meta, clock + 1) \in Entry
    <3>1. agents[id] \in Entry \cup {Nil} /\ msg \in Message
      BY <1>t, FleetReadAssumption DEF FleetType
    <3> QED
      BY <2>2, <3>1, ReportedType
  <2>4. agents' \in [Uid -> Entry \cup {Nil}]
    BY <1>t, <2>1, <2>3 DEF FleetType
  <2> QED
    BY <1>s, <2>1, <2>2, <2>4 DEF FleetType
<1>2. ASSUME NEW silence \in {DisconnectThreshold + 1, EvictAfter + 1},
             Sweep(silence)
      PROVE  Change /\ FleetType' /\ RowInv' /\ RowsForward
  <2>1. /\ clock' = clock + silence /\ UNCHANGED tables /\ Change
        /\ agents' = [id \in Uid |-> Swept(agents[id], clock')]
    BY <1>2 DEF Sweep
  <2>2. silence \in Nat
    BY SMT, ThresholdType
  <2>3. clock' \in Nat
    BY SMT, <1>t, <2>1, <2>2 DEF FleetType
  <2>4. \A id \in Uid : Swept(agents[id], clock') \in Entry \cup {Nil}
    BY <1>t, <2>3, SweptType DEF FleetType
  <2>5. agents' \in [Uid -> Entry \cup {Nil}]
    BY <2>1, <2>4
  <2> QED
    BY <1>s, <2>1, <2>3, <2>5 DEF FleetType
<1>3. ASSUME NEW id \in Uid, NEW entry \in Flushable(id), SaveAgent(id, entry)
      PROVE  Change /\ FleetType' /\ RowInv' /\ RowsForward
  <2> DEFINE row == UpsertAgent(agentRow[id], entry)
             session == UpsertSession(sessionRow[id], entry)
             files == ReplaceConfig(agentRow[id], configRow[id], entry)
  <2>1. /\ agentRow' = [agentRow EXCEPT ![id] = row]
        /\ sessionRow' = [sessionRow EXCEPT ![id] = session]
        /\ configRow' = [configRow EXCEPT ![id] = files]
        /\ clock' = Max({clock, entry.lastSeen})
        /\ UNCHANGED agents /\ Change
    BY <1>3 DEF SaveAgent
  <2>2. /\ agents[id] \in Entry \cup {Nil} /\ agentRow[id] \in AgentRow \cup {Nil}
        /\ sessionRow[id] \in SessionRow \cup {Nil}
        /\ configRow[id] \in ConfigRow \cup {Nil} /\ clock \in Nat
    BY <1>t DEF FleetType
  <2>3. entry \in Entry
    <3>1. CASE agents[id] # Nil /\ entry = agents[id]
      BY <2>2, <3>1
    <3>2. CASE \E msg \in Messages, meta \in Conn :
                 entry = Reported(Nil, msg, meta, clock + 1)
      <4>1. clock + 1 \in Nat /\ Messages \subseteq Message
        BY SMT, <2>2, FleetReadAssumption
      <4>2. Nil \in Entry \cup {Nil}
        OBVIOUS
      <4> QED
        BY <3>2, <4>1, <4>2, ReportedType
    <3> QED
      BY SMT, <1>3, <3>1, <3>2 DEF Flushable
  <2>4. clock' \in Nat
    <3>1. entry.lastSeen \in Nat
      BY <2>3 DEF Entry
    <3>2. \E x \in {clock, entry.lastSeen} : \A y \in {clock, entry.lastSeen} : x >= y
      BY ONLY <2>2, <3>1
    <3>3. Max({clock, entry.lastSeen}) \in {clock, entry.lastSeen}
      BY ONLY Zenon, <3>2 DEF Max
    <3> QED
      BY <2>1, <2>2, <3>1, <3>3
  <2>5. /\ row \in AgentRow /\ session \in SessionRow
        /\ files \in ConfigRow \cup {Nil}
    BY <2>2, <2>3, UpsertAgentType, UpsertSessionType, ReplaceConfigType
  <2>6. row # Nil /\ session # Nil
    BY <2>5, RowAssumption
  <2>7. files # Nil => files.updatedAt = row.updatedAt
    BY <2>2, <2>3, SaveMatches DEF RowInv
  <2>8. agentRow[id] # Nil => row.updatedAt >= agentRow[id].updatedAt
    <3> SUFFICES ASSUME agentRow[id] # Nil
                 PROVE  row.updatedAt >= agentRow[id].updatedAt
      OBVIOUS
    <3>1. agentRow[id] \in AgentRow
      BY <2>2
    <3>2. row.updatedAt > agentRow[id].updatedAt \/ row = agentRow[id]
      BY <2>2, <2>3, <3>1, UpsertAgentAdvances
    <3>3. row.updatedAt \in Nat /\ agentRow[id].updatedAt \in Nat
      BY <2>5, <3>1 DEF AgentRow
    <3> QED
      BY ONLY <3>2, <3>3
  <2> HIDE DEF row, session, files
  <2>9. /\ agentRow' \in [Uid -> AgentRow \cup {Nil}]
        /\ sessionRow' \in [Uid -> SessionRow \cup {Nil}]
        /\ configRow' \in [Uid -> ConfigRow \cup {Nil}]
    BY <1>t, <2>1, <2>5 DEF FleetType
  <2>10. /\ agentRow'[id] = row /\ sessionRow'[id] = session
         /\ configRow'[id] = files
    BY <1>t, <2>1 DEF FleetType
  <2>11. \A u \in Uid : u # id => /\ agentRow'[u] = agentRow[u]
                                  /\ sessionRow'[u] = sessionRow[u]
                                  /\ configRow'[u] = configRow[u]
    BY <1>t, <2>1 DEF FleetType
  <2>12. RowInv'
    <3> SUFFICES ASSUME NEW u \in Uid
                 PROVE  /\ agentRow'[u] # Nil => sessionRow'[u] # Nil
                        /\ configRow'[u] # Nil =>
                             /\ agentRow'[u] # Nil
                             /\ configRow'[u].updatedAt = agentRow'[u].updatedAt
      BY DEF RowInv
    <3>1. CASE u = id
      BY <2>6, <2>7, <2>10, <3>1
    <3>2. CASE u # id
      BY <2>11, <3>2 DEF RowInv
    <3> QED
      BY <3>1, <3>2
  <2>13. RowsForward
    <3> SUFFICES ASSUME NEW u \in Uid, agentRow[u] # Nil, agentRow'[u] # Nil
                 PROVE  agentRow'[u].updatedAt >= agentRow[u].updatedAt
      BY DEF RowsForward
    <3>1. CASE u = id
      BY <2>8, <2>10, <3>1
    <3>2. CASE u # id
      BY <1>f, <2>11, <3>2
    <3> QED
      BY <3>1, <3>2
  <2> QED
    BY <1>t, <2>1, <2>4, <2>9, <2>12, <2>13 DEF FleetType
<1>4. ASSUME NEW id \in Uid, SoftDeleteAgent(id)
      PROVE  Change /\ FleetType' /\ RowInv' /\ RowsForward
  <2> DEFINE row == SoftDelete(agentRow[id], clock)
  <2>1. /\ agentRow' = [agentRow EXCEPT ![id] = row]
        /\ UNCHANGED <<clock, agents, sessionRow, configRow>>
        /\ Change
    BY <1>4 DEF SoftDeleteAgent
  <2>2. agentRow[id] \in AgentRow \cup {Nil} /\ clock \in Nat
    BY <1>t DEF FleetType
  <2>3. /\ row \in AgentRow \cup {Nil} /\ (row = Nil <=> agentRow[id] = Nil)
        /\ agentRow[id] # Nil => row.updatedAt = agentRow[id].updatedAt
    BY <2>2, SoftDeleteType
  <2> HIDE DEF row
  <2>4. /\ agentRow' \in [Uid -> AgentRow \cup {Nil}] /\ agentRow'[id] = row
        /\ \A u \in Uid : u # id => agentRow'[u] = agentRow[u]
    BY <1>t, <2>1, <2>3 DEF FleetType
  <2>5. clock' = clock /\ agents' = agents /\ sessionRow' = sessionRow
        /\ configRow' = configRow
    BY <2>1
  <2>6. ASSUME NEW u \in Uid
        PROVE  /\ agentRow'[u] = Nil <=> agentRow[u] = Nil
               /\ agentRow[u] # Nil => agentRow'[u].updatedAt = agentRow[u].updatedAt
    <3>1. CASE u = id
      BY <2>3, <2>4, <3>1
    <3>2. CASE u # id
      BY <2>4, <3>2
    <3> QED
      BY <3>1, <3>2
  <2>7. RowInv'
    BY <2>5, <2>6 DEF RowInv
  <2>8. RowsForward
    BY <1>f, <2>6 DEF RowsForward
  <2> QED
    BY <1>t, <2>1, <2>4, <2>5, <2>7, <2>8 DEF FleetType
<1>5. CASE PurgeWork
  <2> DEFINE due == {id \in Uid : Purged(agentRow[id], clock + 1)}
  <2>1. /\ agentRow' = [id \in Uid |-> IF id \in due THEN Nil ELSE agentRow[id]]
        /\ sessionRow' = [id \in Uid |-> IF id \in due THEN Nil ELSE sessionRow[id]]
        /\ configRow' = [id \in Uid |-> IF id \in due THEN Nil ELSE configRow[id]]
        /\ Change
    BY <1>5 DEF PurgeWork
  <2>2. clock' = clock /\ agents' = agents
    BY <1>5 DEF PurgeWork
  <2> HIDE DEF due
  <2>3. ASSUME NEW u \in Uid
        PROVE  \/ agentRow'[u] = Nil /\ sessionRow'[u] = Nil /\ configRow'[u] = Nil
               \/ /\ agentRow'[u] = agentRow[u] /\ sessionRow'[u] = sessionRow[u]
                  /\ configRow'[u] = configRow[u]
    BY <2>1
  <2>4. /\ agentRow' \in [Uid -> AgentRow \cup {Nil}]
        /\ sessionRow' \in [Uid -> SessionRow \cup {Nil}]
        /\ configRow' \in [Uid -> ConfigRow \cup {Nil}]
    BY <1>t, <2>1 DEF FleetType
  <2>5. RowInv'
    BY <2>3 DEF RowInv
  <2>6. RowsForward
    BY <1>f, <2>3 DEF RowsForward
  <2> QED
    BY <1>t, <2>1, <2>2, <2>4, <2>5, <2>6 DEF FleetType
<1> QED
  BY <1>1, <1>2, <1>3, <1>4, <1>5 DEF FleetChanges

\* A change under a request leaves what the request has read as it is, and
\* what the histories promise of it.
LEMMA ChangeKeeps ==
  ASSUME TypeOK, ReadInv, FleetChanges
  PROVE  TypeOK' /\ ReadInv'
<1>1. Change /\ FleetType' /\ RowInv' /\ RowsForward
  BY FleetMoves DEF ReadInv
<1>2. /\ step' = step /\ wanted' = wanted /\ shard' = shard /\ local' = local
      /\ series' = series /\ db' = db /\ config' = config /\ partial' = partial
  BY <1>1 DEF Change, readVars
<1>3. /\ step \notin {"merged", "scraped", "detail", "absent"}
      /\ changes < MaxChanges /\ changes' = changes + 1
      /\ stayed' = stayed \cap Registered(agents')
      /\ kept' = kept \cap LiveRows(agentRow')
      /\ gone' = gone \ (Registered(agents') \cup LiveRows(agentRow'))
      /\ unpurged' = {id \in unpurged : agentRow[id] = Nil \/ agentRow'[id] # Nil}
  BY <1>1 DEF Change, FleetChanges, Changing
<1>4. RequestType
  BY DEF TypeOK, RequestType
<1>5. stayed' \subseteq stayed /\ kept' \subseteq kept /\ gone' \subseteq gone
      /\ unpurged' \subseteq unpurged
  BY <1>3
<1>6. TypeOK'
  <2>1. changes' \in 0 .. MaxChanges
    BY SMT, <1>3, <1>4, FleetReadAssumption DEF RequestType
  <2>2. \A ids \in {stayed', kept', gone', unpurged'} : ids \subseteq Uid
    BY <1>4, <1>5 DEF RequestType
  <2>3. RequestType'
    BY <1>2, <1>4, <2>1, <2>2 DEF RequestType
  <2> QED
    BY <1>1, <2>3 DEF TypeOK, FleetType, RequestType
<1>7. HistoryInv'
  BY <1>3 DEF HistoryInv, Registered, LiveRows
<1>8. WalkInv'
  <2>1. WalkInv
    BY DEF ReadInv
  <2>2. step = "walk" => Walked(local, shard)'
    BY <1>2, <1>5, <2>1 DEF WalkInv, Walked
  <2>3. gone \cap Uids(local) = {} => gone' \cap Uids(local) = {}
    BY <1>5
  <2>4. stayed \subseteq Uids(local) => stayed' \subseteq Uids(local)
    BY <1>5
  <2> QED
    BY <1>2, <2>1, <2>2, <2>3, <2>4 DEF WalkInv, Walked
<1>9. SeriesInv'
  <2>1. SeriesInv
    BY DEF ReadInv
  <2>2. step = "series" => Walked(series, shard)'
    BY <1>2, <1>5, <2>1 DEF SeriesInv, Walked
  <2> QED
    BY <1>2, <1>3, <2>1, <2>2 DEF SeriesInv, Walked
<1>10. ListInv'
  BY <1>2, <1>3 DEF ListInv
<1>11. DetailInv'
  <2>1. DetailInv
    BY DEF ReadInv
  <2>2. ASSUME step = "got", wanted \in unpurged'
        PROVE  agentRow'[wanted] # Nil /\ agentRow'[wanted].updatedAt >= db[1].lastSeen
    <3>1. /\ wanted \in Uid /\ wanted \in unpurged /\ Len(db) = 1
          /\ agentRow[wanted] # Nil /\ agentRow[wanted].updatedAt >= db[1].lastSeen
      BY <1>5, <2>1, <2>2 DEF DetailInv
    <3>2. agentRow'[wanted] # Nil
      BY <1>3, <2>2, <3>1
    <3>3. agentRow'[wanted].updatedAt >= agentRow[wanted].updatedAt
      BY <1>1, <3>1, <3>2 DEF RowsForward
    <3>4. agentRow[wanted].updatedAt \in Nat /\ agentRow'[wanted].updatedAt \in Nat
      <4>1. /\ agentRow[wanted] \in AgentRow \cup {Nil}
            /\ agentRow'[wanted] \in AgentRow \cup {Nil}
        BY <1>1, <3>1 DEF TypeOK, FleetType
      <4> QED
        BY ONLY <3>1, <3>2, <4>1 DEF AgentRow
    <3>5. db[1].lastSeen \in Nat
      <4>1. db \in Seq(SnapshotOf)
        BY <1>4 DEF RequestType
      <4>2. 1 \in 1 .. Len(db)
        BY ONLY <3>1
      <4>3. db[1] \in SnapshotOf
        BY ONLY <4>1, <4>2
      <4> QED
        BY ONLY <4>3 DEF SnapshotOf
    <3>6. agentRow'[wanted].updatedAt >= db[1].lastSeen
      BY ONLY <3>1, <3>3, <3>4, <3>5
    <3> QED
      BY <3>2, <3>6
  <2>3. ASSUME step = "got"
        PROVE  Len(db) = 1 /\ (db[1].evictedAt = Nil => wanted \notin gone')
    BY <1>5, <2>1, <2>3 DEF DetailInv
  <2> QED
    BY <1>2, <1>3, <2>1, <2>2, <2>3 DEF DetailInv, ConfigNotOlder
<1> QED
  BY <1>1, <1>6, <1>7, <1>8, <1>9, <1>10, <1>11 DEF ReadInv

-----------------------------------------------------------------------------
(* The request reads.                                                      *)

\* A read leaves the fleet alone.
LEMMA FleetStill ==
  ASSUME TypeOK, RowInv, HistoryInv, UNCHANGED fleetVars
  PROVE  /\ FleetType' /\ RowInv'
         /\ clock' = clock /\ changes' = changes /\ agents' = agents
         /\ agentRow' = agentRow /\ configRow' = configRow
         /\ UNCHANGED seen => HistoryInv'
         /\ Watch \/ (stayed' = {} /\ kept' = {} /\ gone' = {} /\ unpurged' = {}) =>
              HistoryInv' /\ \A ids \in {stayed', kept', gone', unpurged'} : ids \subseteq Uid
<1>1. /\ clock' = clock /\ changes' = changes /\ agents' = agents
      /\ agentRow' = agentRow /\ sessionRow' = sessionRow
      /\ configRow' = configRow
  BY DEF fleetVars, tables
<1>2. FleetType' /\ RowInv'
  BY <1>1 DEF TypeOK, FleetType, RowInv
<1>3. ASSUME UNCHANGED seen PROVE HistoryInv'
  <2>1. stayed' = stayed /\ kept' = kept /\ gone' = gone
    BY <1>3 DEF seen
  <2> QED
    BY <1>1, <2>1 DEF HistoryInv
<1>4. ASSUME Watch
      PROVE  HistoryInv' /\ \A ids \in {stayed', kept', gone', unpurged'} : ids \subseteq Uid
  BY <1>1, <1>4 DEF Watch, HistoryInv, Registered, LiveRows
<1>5. ASSUME stayed' = {}, kept' = {}, gone' = {}, unpurged' = {}
      PROVE  HistoryInv' /\ \A ids \in {stayed', kept', gone', unpurged'} : ids \subseteq Uid
  BY <1>5 DEF HistoryInv
<1> QED
  BY <1>1, <1>2, <1>3, <1>4, <1>5

\* Begin: nothing is read yet, so nothing before shard 0 is missing.
LEMMA BeginKeeps ==
  ASSUME TypeOK, ReadInv, Begin
  PROVE  TypeOK' /\ ReadInv'
<1>1. /\ step = "idle" /\ step' = "walk" /\ shard' = 0 /\ Watch
      /\ UNCHANGED fleetVars
      /\ wanted' = wanted /\ local' = local /\ series' = series /\ db' = db
      /\ config' = config /\ partial' = partial
  BY DEF Begin
<1>2. /\ FleetType' /\ RowInv' /\ HistoryInv' /\ changes' = changes
      /\ \A ids \in {stayed', kept', gone', unpurged'} : ids \subseteq Uid
  BY <1>1, FleetStill DEF ReadInv
<1>3. 0 \in 0 .. ShardCount /\ \A id \in Uid : ~(ShardOf[id] < 0)
  BY SMT, FleetReadAssumption
<1>4. TypeOK'
  <2>1. RequestType'
    BY <1>1, <1>2, <1>3 DEF TypeOK, RequestType
  <2> QED
    BY <1>2, <2>1 DEF TypeOK, FleetType, RequestType
<1>5. local' = << >> /\ series' = << >>
  BY <1>1 DEF ReadInv, WalkInv, SeriesInv
<1>6. Range(<< >>) = {}
  BY SMT DEF Range
<1>7. Uids(<< >>) = {}
  BY <1>6 DEF Uids
<1>8. Distinct(<< >>)
  BY SMT DEF Distinct
<1>9. Walked(<< >>, 0)'
  BY <1>2, <1>3, <1>6 DEF Walked
<1>10. WalkInv'
  BY <1>1, <1>5, <1>7, <1>8, <1>9 DEF WalkInv, Walked
<1>11. SeriesInv' /\ ListInv'
  BY <1>1, <1>5 DEF SeriesInv, ListInv
<1>12. DetailInv'
  BY <1>1 DEF DetailInv, ConfigNotOlder
<1> QED
  BY <1>2, <1>4, <1>10, <1>11, <1>12 DEF ReadInv

\* A walk that has read every shard has read everyone who stayed.
LEMMA WalkedAll ==
  ASSUME TypeOK, NEW list, Walked(list, ShardCount)
  PROVE  stayed \subseteq Uids(list)
<1>1. \A id \in Uid : ShardOf[id] < ShardCount
  BY SMT, FleetReadAssumption
<1>2. stayed \subseteq Uid
  BY DEF TypeOK
<1> QED
  BY <1>1, <1>2 DEF Walked

\* ReadShard: one shard more.
LEMMA ReadShardKeeps ==
  ASSUME TypeOK, ReadInv, ReadShard
  PROVE  TypeOK' /\ ReadInv'
<1>1. /\ step = "walk" /\ shard < ShardCount /\ shard' = shard + 1
      /\ step' = IF shard' = ShardCount THEN "listed" ELSE "walk"
      /\ UNCHANGED fleetVars /\ UNCHANGED seen
      /\ wanted' = wanted /\ series' = series /\ db' = db
      /\ config' = config /\ partial' = partial
  BY DEF ReadShard
<1>2. PICK some \in InAnyOrder(InShard(shard)) : local' = local \o some
  BY DEF ReadShard
<1>3. stayed' = stayed /\ kept' = kept /\ gone' = gone /\ unpurged' = unpurged
  BY <1>1 DEF seen
<1>4. FleetType' /\ RowInv' /\ HistoryInv' /\ changes' = changes
  BY <1>1, FleetStill DEF ReadInv
<1>5. shard \in Nat /\ local \in Seq(SnapshotOf) /\ shard' \in 0 .. ShardCount
  <2>1. shard \in 0 .. ShardCount /\ ShardCount \in Nat
    BY FleetReadAssumption DEF TypeOK
  <2>2. shard \in Nat /\ shard + 1 \in 0 .. ShardCount
    BY ONLY <1>1, <2>1
  <2> QED
    BY <1>1, <2>2 DEF TypeOK
<1>6. Walked(local, shard) /\ Distinct(local) /\ gone \cap Uids(local) = {}
  BY <1>1 DEF ReadInv, WalkInv
<1>7. /\ local' \in Seq(SnapshotOf) /\ Walked(local', shard')
      /\ Distinct(local') /\ gone \cap Uids(local') = {}
  BY <1>1, <1>2, <1>5, <1>6, WalkStep DEF ReadInv
<1>8. TypeOK'
  <2>1. RequestType'
    BY <1>1, <1>3, <1>4, <1>5, <1>7 DEF TypeOK, RequestType
  <2> QED
    BY <1>4, <2>1 DEF TypeOK, FleetType, RequestType
<1>9. shard' = ShardCount => stayed \subseteq Uids(local')
  BY <1>7, WalkedAll
<1>10. WalkInv'
  BY <1>1, <1>3, <1>7, <1>9 DEF WalkInv, Walked
<1>11. SeriesInv' /\ ListInv'
  BY <1>1 DEF ReadInv, SeriesInv, ListInv
<1>12. DetailInv'
  BY <1>1 DEF DetailInv, ConfigNotOlder
<1> QED
  BY <1>4, <1>8, <1>10, <1>11, <1>12 DEF ReadInv

\* ReadSeries: the same for the second walk of a scrape.
LEMMA ReadSeriesKeeps ==
  ASSUME TypeOK, ReadInv, ReadSeries
  PROVE  TypeOK' /\ ReadInv'
<1>1. /\ step = "series" /\ shard < ShardCount /\ shard' = shard + 1
      /\ step' = IF shard' = ShardCount THEN "scraped" ELSE "series"
      /\ UNCHANGED fleetVars /\ UNCHANGED seen
      /\ wanted' = wanted /\ local' = local /\ db' = db
      /\ config' = config /\ partial' = partial
  BY DEF ReadSeries
<1>2. PICK some \in InAnyOrder(InShard(shard)) : series' = series \o some
  BY DEF ReadSeries
<1>3. stayed' = stayed /\ kept' = kept /\ gone' = gone /\ unpurged' = unpurged
  BY <1>1 DEF seen
<1>4. FleetType' /\ RowInv' /\ HistoryInv' /\ changes' = changes
  BY <1>1, FleetStill DEF ReadInv
<1>5. shard \in Nat /\ series \in Seq(SnapshotOf) /\ shard' \in 0 .. ShardCount
  <2>1. shard \in 0 .. ShardCount /\ ShardCount \in Nat
    BY FleetReadAssumption DEF TypeOK
  <2>2. shard \in Nat /\ shard + 1 \in 0 .. ShardCount
    BY ONLY <1>1, <2>1
  <2> QED
    BY <1>1, <2>2 DEF TypeOK
<1>6. Walked(series, shard)
  BY <1>1 DEF ReadInv, SeriesInv
<1>7. series' \in Seq(SnapshotOf) /\ Walked(series', shard')
  BY <1>1, <1>2, <1>5, <1>6, WalkStep DEF ReadInv
<1>8. TypeOK'
  <2>1. RequestType'
    BY <1>1, <1>3, <1>4, <1>5, <1>7 DEF TypeOK, RequestType
  <2> QED
    BY <1>4, <2>1 DEF TypeOK, FleetType, RequestType
<1>9. shard' = ShardCount => stayed \subseteq Uids(series')
  BY <1>7, WalkedAll
<1>10. WalkInv' /\ ListInv'
  BY <1>1, <1>3 DEF ReadInv, WalkInv, ListInv
<1>11. SeriesInv'
  BY <1>1, <1>3, <1>7, <1>9 DEF SeriesInv, Walked
<1>12. DetailInv'
  BY <1>1 DEF DetailInv, ConfigNotOlder
<1> QED
  BY <1>4, <1>8, <1>10, <1>11, <1>12 DEF ReadInv

\* ListAgents: the answer has a live row for everyone whose row stayed live,
\* and none for those who are gone.
LEMMA ListAgentsKeeps ==
  ASSUME TypeOK, ReadInv, ListAgents
  PROVE  TypeOK' /\ ReadInv'
<1>1. /\ step = "listed" /\ step' = "merged"
      /\ \A id \in Uid : agentRow[id] # Nil => sessionRow[id] # Nil
      /\ db' = queryAgents(Uid)
      /\ UNCHANGED fleetVars /\ UNCHANGED seen
      /\ wanted' = wanted /\ shard' = shard /\ local' = local
      /\ series' = series /\ config' = config /\ partial' = partial
  BY DEF ListAgents
<1>2. stayed' = stayed /\ kept' = kept /\ gone' = gone /\ unpurged' = unpurged
  BY <1>1 DEF seen
<1>3. FleetType' /\ RowInv' /\ HistoryInv' /\ changes' = changes
  BY <1>1, FleetStill DEF ReadInv
<1> DEFINE scan(id) == scanAgent(id, agentRow[id], sessionRow[id])
<1>4. /\ db' \in Seq(SnapshotOf) /\ Distinct(db')
      /\ Range(db') = StoredAgents(Uid)
      /\ \A id \in Uid : agentRow[id] # Nil =>
           scan(id).uid = id /\ scan(id).evictedAt = agentRow[id].evictedAt
  <2>1. Uid \in SUBSET Uid
    OBVIOUS
  <2> QED
    BY <1>1, <2>1, QueryRead
<1>5. /\ \A id \in Uid : agentRow[id] # Nil => scan(id) \in Range(db')
      /\ \A a \in Range(db') : \E id \in Uid : agentRow[id] # Nil /\ a = scan(id)
  BY <1>4 DEF StoredAgents
<1> HIDE DEF scan
<1>6. kept \subseteq {a.uid : a \in {b \in Range(db') : b.evictedAt = Nil}}
  <2> SUFFICES ASSUME NEW id \in kept
               PROVE  \E a \in {b \in Range(db') : b.evictedAt = Nil} : id = a.uid
    OBVIOUS
  <2>1. id \in Uid /\ agentRow[id] # Nil /\ agentRow[id].evictedAt = Nil
    BY DEF ReadInv, HistoryInv, LiveRows, Live
  <2>2. scan(id) \in Range(db') /\ scan(id).evictedAt = Nil /\ scan(id).uid = id
    BY <1>4, <1>5, <2>1
  <2> QED
    BY <2>2
<1>7. ASSUME NEW a \in Range(db'), a.uid \in gone
      PROVE  a.evictedAt # Nil
  <2>1. PICK id \in Uid : agentRow[id] # Nil /\ a = scan(id)
    BY <1>5, <1>7
  <2>2. id \in gone /\ a.evictedAt = agentRow[id].evictedAt
    BY <1>4, <1>7, <2>1
  <2>3. id \notin LiveRows(agentRow)
    BY <2>2 DEF ReadInv, HistoryInv
  <2> QED
    BY <2>1, <2>2, <2>3 DEF LiveRows, Live
<1>8. TypeOK'
  <2>1. RequestType'
    BY <1>1, <1>2, <1>3, <1>4 DEF TypeOK, RequestType
  <2> QED
    BY <1>3, <2>1 DEF TypeOK, FleetType, RequestType
<1>9. WalkInv' /\ SeriesInv'
  BY <1>1, <1>2 DEF ReadInv, WalkInv, SeriesInv
<1>10. ListInv'
  BY <1>2, <1>4, <1>6, <1>7 DEF ListInv
<1>11. DetailInv'
  BY <1>1 DEF DetailInv, ConfigNotOlder
<1> QED
  BY <1>3, <1>8, <1>9, <1>10, <1>11 DEF ReadInv

\* ListFails: the list is marked partial.
LEMMA ListFailsKeeps ==
  ASSUME TypeOK, ReadInv, ListFails
  PROVE  TypeOK' /\ ReadInv'
<1>1. /\ step = "listed" /\ step' = "merged" /\ partial' = TRUE
      /\ UNCHANGED fleetVars /\ UNCHANGED seen
      /\ wanted' = wanted /\ shard' = shard /\ local' = local
      /\ series' = series /\ db' = db /\ config' = config
  BY DEF ListFails
<1>2. stayed' = stayed /\ kept' = kept /\ gone' = gone /\ unpurged' = unpurged
  BY <1>1 DEF seen
<1>3. FleetType' /\ RowInv' /\ HistoryInv' /\ changes' = changes
  BY <1>1, FleetStill DEF ReadInv
<1>4. TypeOK'
  <2>1. RequestType'
    BY <1>1, <1>2, <1>3 DEF TypeOK, RequestType
  <2> QED
    BY <1>3, <2>1 DEF TypeOK, FleetType, RequestType
<1>5. WalkInv' /\ SeriesInv'
  BY <1>1, <1>2 DEF ReadInv, WalkInv, SeriesInv
<1>6. ListInv' /\ DetailInv'
  BY <1>1 DEF ListInv, DetailInv, ConfigNotOlder
<1> QED
  BY <1>3, <1>4, <1>5, <1>6 DEF ReadInv

\* Collect: a fleet above the limit is not walked again, one within it is,
\* from shard 0.
LEMMA CollectKeeps ==
  ASSUME TypeOK, ReadInv, Collect
  PROVE  TypeOK' /\ ReadInv'
<1>1. /\ step = "listed"
      /\ IF Len(local) > PerAgentLimit THEN step' = "scraped" /\ shard' = shard
         ELSE step' = "series" /\ shard' = 0
      /\ UNCHANGED fleetVars /\ UNCHANGED seen
      /\ wanted' = wanted /\ local' = local /\ series' = series
      /\ db' = db /\ config' = config /\ partial' = partial
  BY DEF Collect
<1>2. stayed' = stayed /\ kept' = kept /\ gone' = gone /\ unpurged' = unpurged
  BY <1>1 DEF seen
<1>3. FleetType' /\ RowInv' /\ HistoryInv' /\ changes' = changes
  BY <1>1, FleetStill DEF ReadInv
<1>4. 0 \in 0 .. ShardCount /\ \A id \in Uid : ~(ShardOf[id] < 0)
  BY SMT, FleetReadAssumption
<1>5. TypeOK'
  <2>1. RequestType'
    BY <1>1, <1>2, <1>3, <1>4 DEF TypeOK, RequestType
  <2> QED
    BY <1>3, <2>1 DEF TypeOK, FleetType, RequestType
<1>6. step' \in {"scraped", "series"}
  BY <1>1
<1>7. WalkInv'
  BY <1>1, <1>2, <1>6 DEF ReadInv, WalkInv
<1>8. SeriesInv'
  <2>1. series' = << >>
    BY <1>1 DEF ReadInv, SeriesInv
  <2>2. Range(<< >>) = {}
    BY SMT DEF Range
  <2>3. Walked(<< >>, 0)
    <3>1. stayed \subseteq Uid
      BY DEF TypeOK
    <3> QED
      BY <1>4, <2>2, <3>1 DEF Walked
  <2>4. step' = "series" => Walked(series, shard)'
    BY <1>1, <1>2, <2>1, <2>3 DEF Walked
  <2>5. step' = "scraped" => ~(Len(local') <= PerAgentLimit)
    <3>1. step' = "scraped" => Len(local) > PerAgentLimit
      BY <1>1
    <3>2. Len(local) \in Nat /\ PerAgentLimit \in Nat
      <4>1. local \in Seq(SnapshotOf)
        BY DEF TypeOK
      <4> QED
        BY ONLY <4>1, FleetReadAssumption
    <3>3. Len(local) > PerAgentLimit => ~(Len(local) <= PerAgentLimit)
      BY ONLY <3>2
    <3> QED
      BY <1>1, <3>1, <3>3
  <2> QED
    BY <1>6, <2>4, <2>5 DEF SeriesInv
<1>9. ListInv' /\ DetailInv'
  BY <1>6 DEF ListInv, DetailInv, ConfigNotOlder
<1> QED
  BY <1>3, <1>5, <1>7, <1>8, <1>9 DEF ReadInv

\* getAgent: an agent that the registry has is not gone.
LEMMA getAgentKeeps ==
  ASSUME TypeOK, ReadInv, NEW id \in Uid, getAgent(id)
  PROVE  TypeOK' /\ ReadInv'
<1>1. /\ step = "idle" /\ wanted' = id /\ Watch
      /\ IF agents[id] # Nil
           THEN step' = "detail" /\ local' = <<Snapshot(id, agents[id])>>
           ELSE step' = "missed" /\ local' = local
      /\ UNCHANGED fleetVars
      /\ shard' = shard /\ series' = series /\ db' = db
      /\ config' = config /\ partial' = partial
  BY DEF getAgent
<1>2. /\ FleetType' /\ RowInv' /\ HistoryInv' /\ changes' = changes
      /\ agents' = agents
      /\ \A ids \in {stayed', kept', gone', unpurged'} : ids \subseteq Uid
  BY <1>1, FleetStill DEF ReadInv
<1>3. step' \in {"detail", "missed"}
  BY <1>1
<1>4. local' \in Seq(SnapshotOf)
  <2>1. CASE agents[id] # Nil
    <3>1. agents[id] \in Entry
      BY <2>1 DEF TypeOK
    <3>2. Snapshot(id, agents[id]) \in SnapshotOf
      BY <3>1, SnapshotType
    <3>3. local' = <<Snapshot(id, agents[id])>>
      BY <1>1, <2>1
    <3> QED
      BY ONLY <3>2, <3>3
  <2>2. CASE agents[id] = Nil
    BY <1>1, <2>2 DEF TypeOK
  <2> QED
    BY <2>1, <2>2
<1>5. TypeOK'
  <2>1. RequestType'
    BY <1>1, <1>2, <1>3, <1>4 DEF TypeOK, RequestType
  <2> QED
    BY <1>2, <2>1 DEF TypeOK, FleetType, RequestType
<1>6. WalkInv' /\ SeriesInv' /\ ListInv'
  BY <1>3 DEF WalkInv, SeriesInv, ListInv
<1>7. DetailInv'
  <2>1. config' = Nil
    BY <1>1 DEF ReadInv, DetailInv
  <2>2. step' = "detail" => id \notin gone'
    BY <1>1 DEF Watch, Registered
  <2> QED
    BY <1>1, <1>3, <2>1, <2>2 DEF DetailInv, ConfigNotOlder
<1> QED
  BY <1>2, <1>5, <1>6, <1>7 DEF ReadInv

\* GetRow: the row that is found is the wanted agent's.
LEMMA GetRowKeeps ==
  ASSUME TypeOK, ReadInv, GetRow
  PROVE  TypeOK' /\ ReadInv'
<1>1. /\ step = "missed" /\ db' = queryAgents({wanted})
      /\ step' = IF db' = << >> THEN "absent" ELSE "got"
      /\ UNCHANGED fleetVars /\ UNCHANGED seen
      /\ wanted' = wanted /\ shard' = shard /\ local' = local
      /\ series' = series /\ config' = config /\ partial' = partial
  BY DEF GetRow
<1>2. stayed' = stayed /\ kept' = kept /\ gone' = gone /\ unpurged' = unpurged
  BY <1>1 DEF seen
<1>3. /\ FleetType' /\ RowInv' /\ HistoryInv' /\ changes' = changes
      /\ agentRow' = agentRow
  BY <1>1, FleetStill DEF ReadInv
<1>4. wanted \in Uid /\ {wanted} \in SUBSET Uid
  BY <1>1 DEF ReadInv, DetailInv
<1>5. step' \in {"absent", "got"}
  BY <1>1
<1> DEFINE row == scanAgent(wanted, agentRow[wanted], sessionRow[wanted])
<1>6. /\ db' \in Seq(SnapshotOf) /\ Range(db') = StoredAgents({wanted})
      /\ Len(db') = Cardinality(StoredAgents({wanted}))
      /\ agentRow[wanted] # Nil =>
           /\ row.evictedAt = agentRow[wanted].evictedAt
           /\ row.lastSeen = agentRow[wanted].updatedAt
  <2>1. \A id \in {wanted} : agentRow[id] # Nil => sessionRow[id] # Nil
    BY <1>4 DEF ReadInv, RowInv
  <2>2. wanted \in {wanted}
    OBVIOUS
  <2> QED
    BY <1>1, <1>4, <2>1, <2>2, QueryRead
<1>7. StoredAgents({wanted}) = IF agentRow[wanted] # Nil THEN {row} ELSE {}
  BY DEF StoredAgents
<1> HIDE DEF row
<1>8. ASSUME db' # << >>
      PROVE  agentRow[wanted] # Nil /\ Len(db') = 1 /\ db'[1] = row
  <2>1. Len(db') # 0
    BY SMT, <1>6, <1>8
  <2>2. StoredAgents({wanted}) # {}
    BY <1>6, <2>1, FS_EmptySet
  <2>3. agentRow[wanted] # Nil /\ StoredAgents({wanted}) = {row}
    BY <1>7, <2>2
  <2>4. Len(db') = 1
    BY <1>6, <2>3, FS_Singleton
  <2>5. 1 \in DOMAIN db'
    <3>1. DOMAIN db' = 1 .. Len(db')
      BY ONLY <1>6
    <3>2. 1 \in 1 .. Len(db')
      BY ONLY <2>4
    <3> QED
      BY <3>1, <3>2
  <2>6. db'[1] \in Range(db')
    BY <2>5 DEF Range
  <2> QED
    BY <1>6, <2>3, <2>4, <2>6
<1>9. TypeOK'
  <2>1. RequestType'
    BY <1>1, <1>2, <1>3, <1>5, <1>6 DEF TypeOK, RequestType
  <2> QED
    BY <1>3, <2>1 DEF TypeOK, FleetType, RequestType
<1>10. WalkInv' /\ SeriesInv' /\ ListInv'
  BY <1>5 DEF WalkInv, SeriesInv, ListInv
<1>11. DetailInv'
  <2>1. ASSUME step' = "got"
        PROVE  /\ Len(db') = 1
               /\ db'[1].evictedAt = Nil => wanted \notin gone
               /\ agentRow[wanted] # Nil
               /\ agentRow[wanted].updatedAt >= db'[1].lastSeen
    <3>1. db' # << >>
      BY <1>1, <2>1
    <3>2. /\ agentRow[wanted] # Nil /\ Len(db') = 1
          /\ db'[1].evictedAt = agentRow[wanted].evictedAt
          /\ db'[1].lastSeen = agentRow[wanted].updatedAt
      BY <1>6, <1>8, <3>1
    <3>3. db'[1].evictedAt = Nil => wanted \notin gone
      BY <1>4, <3>2 DEF ReadInv, HistoryInv, LiveRows, Live
    <3>4. agentRow[wanted].updatedAt \in Nat
      <4>1. agentRow[wanted] \in AgentRow
        BY <1>4, <3>2 DEF TypeOK
      <4> QED
        BY ONLY <4>1 DEF AgentRow
    <3>5. agentRow[wanted].updatedAt >= db'[1].lastSeen
      BY ONLY <3>2, <3>4
    <3> QED
      BY <3>2, <3>3, <3>5
  <2> QED
    BY <1>1, <1>2, <1>3, <1>4, <1>5, <2>1 DEF DetailInv, ConfigNotOlder
<1> QED
  BY <1>3, <1>9, <1>10, <1>11 DEF ReadInv

\* GetConfig: the files were written with the row, or after it.
LEMMA GetConfigKeeps ==
  ASSUME TypeOK, ReadInv, GetConfig
  PROVE  TypeOK' /\ ReadInv'
<1>1. /\ step = "got"
      /\ IF db[1].evictedAt # Nil
           THEN step' = "absent" /\ local' = local /\ config' = config
           ELSE /\ step' = "detail" /\ local' = <<Corrected(db[1], clock)>>
                /\ config' = configRow[wanted]
      /\ UNCHANGED fleetVars /\ UNCHANGED seen
      /\ wanted' = wanted /\ shard' = shard /\ series' = series /\ db' = db
      /\ partial' = partial
  BY DEF GetConfig
<1>2. stayed' = stayed /\ kept' = kept /\ gone' = gone /\ unpurged' = unpurged
  BY <1>1 DEF seen
<1>3. FleetType' /\ RowInv' /\ HistoryInv' /\ changes' = changes
  BY <1>1, FleetStill DEF ReadInv
<1>4. /\ wanted \in Uid /\ Len(db) = 1
      /\ db[1].evictedAt = Nil => wanted \notin gone
      /\ wanted \in unpurged =>
           agentRow[wanted] # Nil /\ agentRow[wanted].updatedAt >= db[1].lastSeen
  BY <1>1 DEF ReadInv, DetailInv
<1>5. db[1] \in SnapshotOf
  <2>1. db \in Seq(SnapshotOf) /\ 1 \in 1 .. Len(db)
    BY SMT, <1>4 DEF TypeOK
  <2> QED
    BY ONLY <2>1
<1>6. /\ Corrected(db[1], clock) \in SnapshotOf
      /\ Corrected(db[1], clock).lastSeen = db[1].lastSeen
  BY <1>5, CorrectedType
<1>7. step' \in {"absent", "detail"}
  BY <1>1
<1>8. local' \in Seq(SnapshotOf) /\ config' \in ConfigRow \cup {Nil}
  <2>1. CASE db[1].evictedAt # Nil
    BY <1>1, <2>1 DEF TypeOK
  <2>2. CASE db[1].evictedAt = Nil
    <3>1. local' = <<Corrected(db[1], clock)>> /\ config' = configRow[wanted]
      BY <1>1, <2>2
    <3>2. configRow[wanted] \in ConfigRow \cup {Nil}
      BY <1>4 DEF TypeOK
    <3>3. local' \in Seq(SnapshotOf)
      BY ONLY <1>6, <3>1
    <3> QED
      BY <3>1, <3>2, <3>3
  <2> QED
    BY <2>1, <2>2
<1>9. TypeOK'
  <2>1. RequestType'
    BY <1>1, <1>2, <1>3, <1>7, <1>8 DEF TypeOK, RequestType
  <2> QED
    BY <1>3, <2>1 DEF TypeOK, FleetType, RequestType
<1>10. WalkInv' /\ SeriesInv' /\ ListInv'
  BY <1>7 DEF WalkInv, SeriesInv, ListInv
<1>11. DetailInv'
  <2>1. ASSUME step' = "detail"
        PROVE  wanted \notin gone /\ local' = <<Corrected(db[1], clock)>>
               /\ config' = configRow[wanted]
    BY <1>1, <1>4, <2>1
  <2>2. ASSUME step' = "detail", config' # Nil, wanted \in unpurged
        PROVE  config'.updatedAt >= local'[1].lastSeen
    <3>1. config'.updatedAt = agentRow[wanted].updatedAt
      BY <1>4, <2>1, <2>2 DEF ReadInv, RowInv
    <3>2. local'[1] = Corrected(db[1], clock)
      BY SMT, <2>1, <2>2
    <3> QED
      BY <1>4, <1>6, <2>2, <3>1, <3>2
  <2> QED
    BY <1>1, <1>2, <1>7, <2>1, <2>2 DEF DetailInv, ConfigNotOlder
<1> QED
  BY <1>3, <1>9, <1>10, <1>11 DEF ReadInv

\* LookupFails: the request ends with nothing to show.
LEMMA LookupFailsKeeps ==
  ASSUME TypeOK, ReadInv, LookupFails
  PROVE  TypeOK' /\ ReadInv'
<1>1. /\ step' = "absent"
      /\ UNCHANGED fleetVars /\ UNCHANGED seen
      /\ wanted' = wanted /\ shard' = shard /\ local' = local /\ series' = series
      /\ db' = db /\ config' = config /\ partial' = partial
  BY DEF LookupFails
<1>2. stayed' = stayed /\ kept' = kept /\ gone' = gone /\ unpurged' = unpurged
  BY <1>1 DEF seen
<1>3. FleetType' /\ RowInv' /\ HistoryInv' /\ changes' = changes
  BY <1>1, FleetStill DEF ReadInv
<1>4. TypeOK'
  <2>1. RequestType'
    BY <1>1, <1>2, <1>3 DEF TypeOK, RequestType
  <2> QED
    BY <1>3, <2>1 DEF TypeOK, FleetType, RequestType
<1>5. WalkInv' /\ SeriesInv' /\ ListInv' /\ DetailInv'
  BY <1>1 DEF WalkInv, SeriesInv, ListInv, DetailInv, ConfigNotOlder
<1> QED
  BY <1>3, <1>4, <1>5 DEF ReadInv

\* Respond: the next request starts from nothing.
LEMMA RespondKeeps ==
  ASSUME TypeOK, ReadInv, Respond
  PROVE  TypeOK' /\ ReadInv'
<1>1. /\ step' = "idle" /\ wanted' = Nil /\ shard' = 0
      /\ local' = << >> /\ series' = << >> /\ db' = << >>
      /\ config' = Nil /\ partial' = FALSE
      /\ stayed' = {} /\ kept' = {} /\ gone' = {} /\ unpurged' = {}
      /\ UNCHANGED fleetVars
  BY DEF Respond
<1>2. /\ FleetType' /\ RowInv' /\ HistoryInv' /\ changes' = changes
      /\ \A ids \in {stayed', kept', gone', unpurged'} : ids \subseteq Uid
  BY <1>1, FleetStill DEF ReadInv
<1>3. 0 \in 0 .. ShardCount /\ << >> \in Seq(SnapshotOf)
  BY SMT, FleetReadAssumption
<1>4. TypeOK'
  <2>1. RequestType'
    BY <1>1, <1>2, <1>3 DEF TypeOK, RequestType
  <2> QED
    BY <1>2, <2>1 DEF TypeOK, FleetType, RequestType
<1>5. WalkInv' /\ SeriesInv' /\ ListInv' /\ DetailInv'
  BY <1>1 DEF WalkInv, SeriesInv, ListInv, DetailInv, ConfigNotOlder
<1> QED
  BY <1>2, <1>4, <1>5 DEF ReadInv

-----------------------------------------------------------------------------
(* What the requests show.                                                 *)

\* Every change of the fleet and every step of a request keeps the invariant.
LEMMA ReadNext == TypeOK /\ ReadInv /\ [Next]_vars => TypeOK' /\ ReadInv'
<1> SUFFICES ASSUME TypeOK, ReadInv, [Next]_vars PROVE TypeOK' /\ ReadInv'
  OBVIOUS
<1>1. CASE FleetChanges
  BY <1>1, ChangeKeeps
<1>2. CASE Requests
  BY <1>2, BeginKeeps, ReadShardKeeps, ListAgentsKeeps, ListFailsKeeps,
     CollectKeeps, ReadSeriesKeeps, getAgentKeeps, GetRowKeeps, GetConfigKeeps,
     LookupFailsKeeps, RespondKeeps DEF Requests
<1>3. CASE UNCHANGED vars
  <2>1. /\ clock' = clock /\ changes' = changes /\ agents' = agents
        /\ agentRow' = agentRow /\ sessionRow' = sessionRow
        /\ configRow' = configRow /\ step' = step /\ wanted' = wanted
        /\ shard' = shard /\ local' = local /\ series' = series /\ db' = db
        /\ config' = config /\ partial' = partial /\ stayed' = stayed
        /\ kept' = kept /\ gone' = gone /\ unpurged' = unpurged
    BY <1>3 DEF vars, tables, readVars, seen
  <2>2. TypeOK'
    BY <2>1 DEF TypeOK
  <2>3. RowInv' /\ HistoryInv' /\ WalkInv'
    BY <2>1 DEF ReadInv, RowInv, HistoryInv, WalkInv, Walked
  <2>4. SeriesInv' /\ ListInv'
    BY <2>1 DEF ReadInv, SeriesInv, Walked, ListInv
  <2>5. DetailInv'
    BY <2>1 DEF ReadInv, DetailInv, ConfigNotOlder
  <2> QED
    BY <2>2, <2>3, <2>4, <2>5 DEF ReadInv
<1> QED
  BY <1>1, <1>2, <1>3 DEF Next

\* The invariant holds throughout.
LEMMA ReadAlways == Spec => [](TypeOK /\ ReadInv)
BY ReadInit, ReadNext, PTL DEF Spec

\* What a request holds of the fleet is well formed at every step: the query
\* has an order to put its rows in, a detail request a row and its session.
THEOREM ReadTypes == Spec => []TypeOK
BY ReadAlways, PTL

\* Registry.List, Aggregate and AgentSeries read every agent that stays
\* registered, whatever the fleet does between two shards.
THEOREM WalksSeeStayers == Spec => []WalkSeesStayers
<1>1. ReadInv => WalkSeesStayers
  BY DEF ReadInv, WalkInv, SeriesInv, WalkSeesStayers
<1> QED
  BY <1>1, ReadAlways, PTL

\* What the merge shows, once registry and store have been read.
LEMMA MergedShows ==
  ASSUME TypeOK, ReadInv, step = "merged"
  PROVE  /\ Distinct(Merged) /\ stayed \subseteq Uids(Merged)
         /\ ~partial => kept \subseteq Uids(Merged)
         /\ gone \cap Uids(Merged) = {}
         /\ Merged \in Seq(SnapshotOf)
         /\ SaysWhat(Merged, Range(local) \cup Range(db))
<1>0. local \in Seq(SnapshotOf) /\ db \in Seq(SnapshotOf)
  BY DEF TypeOK
<1>1. /\ Distinct(local) /\ gone \cap Uids(local) = {}
      /\ stayed \subseteq Uids(local)
  BY DEF ReadInv, WalkInv
<1>2. CASE partial
  <2>1. Merged = local
    BY <1>2 DEF Merged
  <2>2. SaysWhat(local, Range(local) \cup Range(db))
    BY DEF SaysWhat
  <2> QED
    BY <1>0, <1>1, <1>2, <2>1, <2>2
<1>3. CASE ~partial
  <2> DEFINE live == {a.uid : a \in {b \in Range(db) : b.evictedAt = Nil}}
  <2>1. /\ Distinct(db) /\ kept \subseteq live
        /\ \A a \in Range(db) : a.uid \in gone => a.evictedAt # Nil
    BY <1>3 DEF ReadInv, ListInv
  <2>3. Merged = MergeAgents(local, db, clock)
    BY <1>3 DEF Merged
  <2>4. /\ Distinct(Merged) /\ Uids(Merged) = Uids(local) \cup live
        /\ Merged \in Seq(SnapshotOf)
        /\ SaysWhat(Merged, Range(local) \cup Range(db))
    BY <1>0, <1>1, <2>1, <2>3, MergeShows
  <2>5. gone \cap live = {}
    BY <2>1
  <2> HIDE DEF live
  <2> QED
    BY <1>1, <2>1, <2>4, <2>5
<1> QED
  BY <1>2, <1>3

\* Every list is complete: nobody twice, nobody missing who was registered
\* here or had a live row since the request began.
THEOREM ListsComplete == Spec => []ListComplete
<1>1. TypeOK /\ ReadInv => ListComplete
  <2> SUFFICES ASSUME TypeOK, ReadInv, step = "merged"
               PROVE  /\ IsInjective([i \in DOMAIN Merged |-> Merged[i].uid])
                      /\ stayed \subseteq Uids(Merged)
                      /\ ~partial => kept \subseteq Uids(Merged)
    BY DEF ListComplete
  <2>1. /\ Distinct(Merged) /\ stayed \subseteq Uids(Merged)
        /\ ~partial => kept \subseteq Uids(Merged)
    BY MergedShows
  <2>2. IsInjective([i \in DOMAIN Merged |-> Merged[i].uid])
    BY <2>1 DEF IsInjective, Distinct
  <2> QED
    BY <2>1, <2>2
<1> QED
  BY <1>1, ReadAlways, PTL

\* An agent evicted before a request began, and not back since, is on no list
\* and has no page.
THEOREM GoneStaysGone == Spec => []GoneIsGone
<1>1. TypeOK /\ ReadInv => GoneIsGone
  <2>1. ASSUME TypeOK, ReadInv, step = "merged"
        PROVE  gone \cap Uids(Merged) = {}
    BY <2>1, MergedShows
  <2> QED
    BY <2>1 DEF GoneIsGone, ReadInv, DetailInv
<1> QED
  BY <1>1, ReadAlways, PTL

\* The config files of a detail page are never older than the row they are
\* shown with, unless the row was purged in between.
THEOREM ConfigsNotOlder == Spec => []ConfigNotOlder
<1>1. ReadInv => ConfigNotOlder
  BY DEF ReadInv, DetailInv
<1> QED
  BY <1>1, ReadAlways, PTL

=============================================================================
