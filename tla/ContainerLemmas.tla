---------------------------- MODULE ContainerLemmas ----------------------------
(***************************************************************************)
(* Facts about the sequences and sets of numbers the models are built      *)
(* from, which the proofs of several of them need.                         *)
(***************************************************************************)
EXTENDS Integers, SequencesExt, Selection, FiniteSetTheorems, TLAPS

-------------------------------------------------------------------------------
(* Queues. *)

(* Append adds its argument to the elements of a queue, and nothing else. *)
LEMMA PushAdds ==
    ASSUME NEW S, NEW s \in Seq(S), NEW e \in S
    PROVE  ToSet(Append(s, e)) = ToSet(s) \cup {e}
  <1>1. DOMAIN s = 1..Len(s) /\ Len(s) \in Nat
    OBVIOUS
  <1>2. DOMAIN Append(s, e) = 1..(Len(s) + 1)
    OBVIOUS
  <1>3. \A i \in 1..Len(s) : Append(s, e)[i] = s[i]
    OBVIOUS
  <1>4. Append(s, e)[Len(s) + 1] = e
    OBVIOUS
  <1>5. ToSet(Append(s, e)) \subseteq ToSet(s) \cup {e}
    BY <1>1, <1>2, <1>3, <1>4 DEF ToSet
  <1>6. ToSet(s) \subseteq ToSet(Append(s, e))
    BY <1>1, <1>2, <1>3 DEF ToSet
  <1>7. e \in ToSet(Append(s, e))
    BY <1>1, <1>2, <1>4 DEF ToSet
  <1>8. QED
    BY <1>5, <1>6, <1>7

(* A queue without duplicates stays so when an element it lacks is appended. *)
LEMMA PushKeepsInjective ==
    ASSUME NEW S, NEW s \in Seq(S), NEW e \in S, IsInjective(s), e \notin ToSet(s)
    PROVE  IsInjective(Append(s, e))
  <1>1. DOMAIN Append(s, e) = 1..(Len(s) + 1)
    OBVIOUS
  <1>2. \A i \in 1..Len(s) : Append(s, e)[i] = s[i] /\ s[i] # e
    BY DEF ToSet
  <1>3. Append(s, e)[Len(s) + 1] = e
    OBVIOUS
  <1>4. DOMAIN s = 1..Len(s) /\ Len(s) \in Nat
    OBVIOUS
  <1>5. ASSUME NEW a \in 1..(Len(s) + 1), NEW b \in 1..(Len(s) + 1),
               Append(s, e)[a] = Append(s, e)[b]
        PROVE  a = b
    <2>1. CASE a \in 1..Len(s) /\ b \in 1..Len(s)
      BY <2>1, <1>2, <1>4, <1>5 DEF IsInjective
    <2>2. CASE a = Len(s) + 1 \/ b = Len(s) + 1
      BY <2>2, <1>2, <1>3, <1>4, <1>5
    <2>3. QED
      BY <2>1, <2>2, <1>4
  <1>6. \A a, b \in DOMAIN Append(s, e) : Append(s, e)[a] = Append(s, e)[b] => a = b
    BY <1>1, <1>5
  <1>7. QED
    BY <1>6 DEF IsInjective

(* Head and Tail of a queue without duplicates: the first element leaves, the
   others stay, each at most once. *)
LEMMA PopRemoves ==
    ASSUME NEW S, NEW s \in Seq(S), s # << >>, IsInjective(s)
    PROVE  /\ Head(s) \in ToSet(s)
           /\ ToSet(Tail(s)) = ToSet(s) \ {Head(s)}
           /\ IsInjective(Tail(s))
  <1>1. /\ Len(s) \in Nat \ {0}
        /\ DOMAIN s = 1..Len(s)
        /\ Head(s) = s[1]
        /\ Tail(s) \in Seq(S)
        /\ Len(Tail(s)) = Len(s) - 1
        /\ DOMAIN Tail(s) = 1..(Len(s) - 1)
    OBVIOUS
  <1>2. \A i \in 1..(Len(s) - 1) : Tail(s)[i] = s[i + 1] /\ i + 1 \in DOMAIN s
    BY <1>1
  <1>3. Head(s) \in ToSet(s)
    BY <1>1 DEF ToSet
  <1>4. ToSet(Tail(s)) \subseteq ToSet(s) \ {Head(s)}
    BY <1>1, <1>2 DEF ToSet, IsInjective
  <1>5. ASSUME NEW e \in ToSet(s) \ {Head(s)}
        PROVE  e \in ToSet(Tail(s))
    <2>1. PICK i \in 1..Len(s) : s[i] = e
      BY <1>1 DEF ToSet
    <2>2. i # 1
      BY <2>1, <1>1
    <2>3. i - 1 \in 1..(Len(s) - 1) /\ Tail(s)[i - 1] = e
      BY <2>1, <2>2, <1>1, <1>2
    <2>4. QED
      BY <2>3, <1>1 DEF ToSet
  <1>6. IsInjective(Tail(s))
    BY <1>1, <1>2 DEF IsInjective
  <1>7. QED
    BY <1>3, <1>4, <1>5, <1>6

(* A queue without duplicates is as long as the set of its elements is large. *)
LEMMA LengthOfInjective ==
    ASSUME NEW S, NEW s \in Seq(S), IsInjective(s)
    PROVE  IsFiniteSet(ToSet(s)) /\ Cardinality(ToSet(s)) = Len(s)
  <1>1. Len(s) \in Nat /\ DOMAIN s = 1..Len(s)
    OBVIOUS
  <1>2. s \in [1..Len(s) -> ToSet(s)]
    BY <1>1 DEF ToSet
  <1>3. \A a, b \in 1..Len(s) : s[a] = s[b] => a = b
    BY <1>1 DEF IsInjective
  <1>4. \A e \in ToSet(s) : \E a \in 1..Len(s) : s[a] = e
    BY <1>1 DEF ToSet
  <1>5. s \in Bijection(1..Len(s), ToSet(s))
    BY <1>2, <1>3, <1>4 DEF Bijection, Injection, Surjection, IsInjective
  <1>6. ExistsBijection(1..Len(s), ToSet(s))
    BY <1>5 DEF ExistsBijection
  <1>7. QED
    BY <1>1, <1>6, FS_NatBijection, FS_CountingElements

(* t is the table s, the entry at i of which has gone by giving its place to the
   last. *)
LastMoved(s, i, t) ==
    Len(t) = Len(s) - 1 /\ \A j \in 1..Len(s) - 1 : t[j] = IF j = i THEN s[Len(s)] ELSE s[j]

(* What is left of the elements of a table in which they differ. *)
LEMMA LastTakesPlace ==
    ASSUME NEW S, NEW s \in Seq(S), NEW i \in 1..Len(s), IsInjective(s),
           NEW t \in Seq(S), LastMoved(s, i, t)
    PROVE  IsInjective(t) /\ ToSet(t) = ToSet(s) \ {s[i]}
  <1> DEFINE n == Len(s)
  <1>1. n \in Nat \ {0} /\ i \in 1..n /\ DOMAIN s = 1..n
    OBVIOUS
  <1>2. DOMAIN t = 1..n - 1 /\ \A j \in 1..n - 1 : t[j] = IF j = i THEN s[n] ELSE s[j]
    BY <1>1 DEF LastMoved
  <1>3. \A a, b \in 1..n : s[a] = s[b] => a = b
    BY <1>1 DEF IsInjective
  <1> HIDE DEF n
  <1>4. IsInjective(t)
    BY <1>1, <1>2, <1>3 DEF IsInjective
  <1>5. ToSet(t) \subseteq ToSet(s) \ {s[i]}
    BY <1>1, <1>2, <1>3 DEF ToSet
  <1>6. ASSUME NEW e \in ToSet(s) \ {s[i]} PROVE e \in ToSet(t)
    <2>1. PICK j \in 1..n : s[j] = e
      BY <1>1 DEF ToSet
    <2>2. CASE j = n
      <3>1. i \in 1..n - 1 /\ t[i] = e
        BY <2>1, <2>2, <1>1, <1>2
      <3>2. QED
        BY <3>1, <1>2 DEF ToSet
    <2>3. CASE j # n
      <3>1. j \in 1..n - 1 /\ t[j] = e
        BY <2>1, <2>3, <1>1, <1>2
      <3>2. QED
        BY <3>1, <1>2 DEF ToSet
    <2>4. QED
      BY <2>2, <2>3
  <1>7. QED
    BY <1>4, <1>5, <1>6

(* What is in the parts of a queue that is cut after its n-th element. *)
LEMMA Cut ==
    ASSUME NEW S, NEW s \in Seq(S), NEW n \in 0..Len(s)
    PROVE  /\ SubSeq(s, 1, n) \in Seq(S) /\ Len(SubSeq(s, 1, n)) = n
           /\ \A i \in 1..n : SubSeq(s, 1, n)[i] = s[i]
           /\ SubSeq(s, n + 1, Len(s)) \in Seq(S) /\ Len(SubSeq(s, n + 1, Len(s))) = Len(s) - n
           /\ \A i \in 1..Len(s) - n : SubSeq(s, n + 1, Len(s))[i] = s[n + i]
  OBVIOUS

(* What is in two queues put together. *)
LEMMA Joined ==
    ASSUME NEW S, NEW s \in Seq(S), NEW t \in Seq(S)
    PROVE  /\ s \o t \in Seq(S) /\ Len(s \o t) = Len(s) + Len(t)
           /\ \A i \in 1..Len(s) : (s \o t)[i] = s[i]
           /\ \A i \in 1..Len(t) : (s \o t)[Len(s) + i] = t[i]
           /\ \A i \in 1..Len(s) + Len(t) :
                 \/ i \in 1..Len(s)
                 \/ i - Len(s) \in 1..Len(t) /\ (s \o t)[i] = t[i - Len(s)]
  OBVIOUS
-------------------------------------------------------------------------------
(* Numbers. *)

(* Every set of natural numbers that is not empty has a least element.  The
   minimum is found among the initial segments 0..n, which strict inclusion
   orders well because they are finite. *)
LEMMA LeastNatural ==
    ASSUME NEW S \in SUBSET Nat, S # {}
    PROVE  \E m \in S : \A n \in S : m <= n
  <1> DEFINE R == StrictSubsetOrdering(Nat)
             Segments == {0..n : n \in S}
  <1>1. Segments \subseteq FiniteSubsetsOf(Nat)
    <2>1. ASSUME NEW n \in S PROVE 0..n \in FiniteSubsetsOf(Nat)
      BY FS_Interval DEF FiniteSubsetsOf
    <2>2. QED
      BY <2>1
  <1>2. Segments # {}
    OBVIOUS
  <1>3. PICK I \in Segments : \A J \in Segments : ~(<<J, I>> \in R)
    <2>1. IsWellFoundedOn(R, FiniteSubsetsOf(Nat))
      BY FS_StrictSubsetOrderingWellFounded
    <2> HIDE DEF R, Segments
    <2>2. QED
      BY <2>1, <1>1, <1>2, WFMin
  <1>4. PICK m \in S : I = 0..m
    OBVIOUS
  <1>5. ASSUME NEW n \in S, n < m PROVE FALSE
    <2>1. 0..n \subseteq 0..m /\ 0..n # 0..m
      BY <1>5
    <2>2. <<0..n, 0..m>> \in R
      BY <2>1 DEF StrictSubsetOrdering
    <2>3. QED
      BY <2>2, <1>3, <1>4
  <1>6. QED
    BY <1>5

(* Min of a set of natural numbers that is not empty is its least element. *)
LEMMA MinIsLeast ==
    ASSUME NEW S \in SUBSET Nat, S # {}
    PROVE  Min(S) \in S /\ \A n \in S : Min(S) <= n
  <1>1. \E m \in S : \A n \in S : m <= n
    BY LeastNatural
  <1>2. QED
    BY <1>1 DEF Min

(* A set no two elements of which differ has one element or none. *)
LEMMA AtMostOne ==
    ASSUME NEW S, \A x, y \in S : x = y
    PROVE  /\ IsFiniteSet(S)
           /\ S = {} => Cardinality(S) = 0
           /\ S # {} => Cardinality(S) = 1
  <1>1. CASE S = {}
    BY <1>1, FS_EmptySet
  <1>2. CASE S # {}
    <2>1. PICK x : S = {x}
      BY <1>2
    <2>2. QED
      BY <2>1, FS_Singleton
  <1>3. QED
    BY <1>1, <1>2

-------------------------------------------------------------------------------
(* Induction and recursion. *)

(* Induction, over the set of the numbers that have the property. *)
LEMMA EveryNatural ==
    ASSUME NEW P, 0 \in P, \A n \in Nat : n \in P => n + 1 \in P
    PROVE  Nat \subseteq P
  <1>1. SUFFICES ASSUME Nat \ P # {} PROVE FALSE
    OBVIOUS
  <1>2. PICK m \in Nat \ P : \A n \in Nat \ P : m <= n
    BY <1>1, LeastNatural
  <1>3. m - 1 \in Nat /\ m - 1 \in P
    BY <1>2
  <1>4. (m - 1) + 1 \in P
    BY <1>3
  <1>5. QED
    BY <1>2, <1>4

(* next leads from each place of S to one of lower rank, until a place of Stop;
   there base gives a value, and step gives one on the way back. *)
Paths(S, V, Stop, bound, rank, next, base, step) ==
    /\ bound \in Nat /\ \A x \in S : rank[x] \in 0..bound
    /\ \A x \in S \ Stop : next[x] \in S /\ rank[next[x]] < rank[x]
    /\ \A x \in S \cap Stop : base[x] \in V
    /\ \A x \in S \ Stop : \A v \in V : step[<<x, v>>] \in V

(* A function may be defined by recursion along such paths. *)
LEMMA PathRecursion ==
    ASSUME NEW S, NEW V, NEW Stop, NEW bound, NEW rank, NEW next, NEW base, NEW step,
           Paths(S, V, Stop, bound, rank, next, base, step)
    PROVE  \E f \in [S -> V] :
              \A x \in S : f[x] = IF x \in Stop THEN base[x] ELSE step[<<x, f[next[x]]>>]
  <1>0. /\ bound \in Nat /\ \A x \in S : rank[x] \in 0..bound
        /\ \A x \in S \ Stop : next[x] \in S /\ rank[next[x]] < rank[x]
        /\ \A x \in S \cap Stop : base[x] \in V
        /\ \A x \in S \ Stop : \A v \in V : step[<<x, v>>] \in V
    BY Zenon DEF Paths
  <1> USE <1>0
  <1> DEFINE Below(k) == {x \in S : rank[x] < k}
             Defined(f, k) ==
                \A x \in Below(k) :
                    f[x] = IF x \in Stop THEN base[x] ELSE step[<<x, f[next[x]]>>]
             Good == {k \in Nat : \E f \in [Below(k) -> V] : Defined(f, k)}
  <1>1. 0 \in Good
    <2>1. Below(0) = {}
      OBVIOUS
    <2>2. PICK f : f = [x \in {} |-> base[x]]
      OBVIOUS
    <2>3. f \in [Below(0) -> V] /\ Defined(f, 0)
      BY <2>1, <2>2
    <2>4. QED
      BY <2>3
  <1>2. ASSUME NEW k \in Nat, k \in Good PROVE k + 1 \in Good
    <2>1. PICK f \in [Below(k) -> V] : Defined(f, k)
      BY <1>2
    <2>2. PICK g : g = [x \in Below(k + 1) |->
                           IF x \in Stop THEN base[x] ELSE step[<<x, f[next[x]]>>]]
      OBVIOUS
    <2>3. ASSUME NEW x \in Below(k + 1) \ Stop PROVE next[x] \in Below(k) /\ next[x] \in S
      <3>1. next[x] \in S /\ rank[next[x]] < rank[x] /\ rank[x] < k + 1 /\ x \in S
        BY <2>3
      <3>2. rank[x] \in Int /\ rank[next[x]] \in Int
        BY <3>1
      <3>3. QED
        BY <3>1, <3>2
    <2>4. ASSUME NEW x \in Below(k + 1) PROVE g[x] \in V
      <3>1. x \in S /\ g[x] = IF x \in Stop THEN base[x] ELSE step[<<x, f[next[x]]>>]
        BY <2>2
      <3>2. CASE x \in Stop
        BY <3>1, <3>2
      <3>3. CASE x \notin Stop
        <4>1. f[next[x]] \in V
          BY <2>3, <3>3
        <4>2. QED
          BY <3>1, <3>3, <4>1
      <3>4. QED
        BY <3>2, <3>3
    <2>5. ASSUME NEW x \in Below(k) PROVE x \in Below(k + 1) /\ g[x] = f[x]
      <3>1. x \in Below(k + 1)
        <4>1. x \in S /\ rank[x] \in Int /\ rank[x] < k
          OBVIOUS
        <4>2. QED
          BY <4>1
      <3>2. g[x] = IF x \in Stop THEN base[x] ELSE step[<<x, f[next[x]]>>]
        BY <2>2, <3>1
      <3>3. QED
        BY <2>1, <3>1, <3>2
    <2>6. Defined(g, k + 1)
      <3>1. SUFFICES ASSUME NEW x \in Below(k + 1)
                     PROVE  g[x] = IF x \in Stop THEN base[x] ELSE step[<<x, g[next[x]]>>]
        BY Zenon
      <3>2. g[x] = IF x \in Stop THEN base[x] ELSE step[<<x, f[next[x]]>>]
        BY <2>2
      <3>3. CASE x \in Stop
        BY <3>2, <3>3
      <3>4. CASE x \notin Stop
        <4>1. g[next[x]] = f[next[x]]
          BY <2>3, <2>5, <3>4
        <4>2. QED
          BY <3>2, <3>4, <4>1
      <3>5. QED
        BY <3>3, <3>4
    <2>7. g \in [Below(k + 1) -> V]
      BY <2>2, <2>4
    <2>8. k + 1 \in Nat
      OBVIOUS
    <2> HIDE DEF Below, Defined
    <2>9. QED
      BY <2>6, <2>7, <2>8
  <1> HIDE DEF Good
  <1>3. bound + 1 \in Good
    BY <1>1, <1>2, EveryNatural
  <1> USE DEF Good
  <1>4. Below(bound + 1) = S
    <2>1. ASSUME NEW x \in S PROVE rank[x] < bound + 1
      OBVIOUS
    <2>2. QED
      BY <2>1
  <1>5. PICK f \in [Below(bound + 1) -> V] : Defined(f, bound + 1)
    BY <1>3
  <1>6. QED
    BY <1>4, <1>5

(* Induction along a rank. *)
LEMMA RankInduction ==
    ASSUME NEW S, NEW P, NEW rank, \A x \in S : rank[x] \in Nat,
           \A x \in S : (\A y \in S : rank[y] < rank[x] => y \in P) => x \in P
    PROVE  S \subseteq P
  <1>1. SUFFICES ASSUME S \ P # {} PROVE FALSE
    OBVIOUS
  <1>2. PICK m \in {rank[x] : x \in S \ P} : \A n \in {rank[x] : x \in S \ P} : m <= n
    <2>1. PICK Ranks : Ranks = {rank[x] : x \in S \ P}
      OBVIOUS
    <2>2. Ranks \in SUBSET Nat /\ Ranks # {}
      BY <1>1, <2>1
    <2>3. \E m \in Ranks : \A n \in Ranks : m <= n
      BY <2>2, LeastNatural
    <2>4. QED
      BY <2>1, <2>3
  <1>3. PICK x \in S \ P : rank[x] = m
    BY <1>2
  <1>4. ASSUME NEW y \in S, rank[y] < rank[x] PROVE y \in P
    <2>1. SUFFICES ASSUME y \notin P PROVE FALSE
      OBVIOUS
    <2>2. rank[x] <= rank[y]
      BY <1>2, <1>3, <2>1
    <2>3. rank[x] \in Nat /\ rank[y] \in Nat
      OBVIOUS
    <2>4. QED
      BY <1>4, <2>2, <2>3
  <1>5. QED
    BY <1>3, <1>4

(* What SelectIn has chosen of the first i elements of s. *)
Selected(r, s, S, i) ==
    /\ \A e \in ToSet(r) : e \in S /\ \E k \in 1..i : s[k] = e
    /\ \A k \in 1..i : s[k] \in S => s[k] \in ToSet(r)
    /\ \A a, b \in DOMAIN r : a < b =>
          \E k, l \in 1..i : k < l /\ r[a] = s[k] /\ r[b] = s[l]

(* One more element is looked at. *)
LEMMA SelectsNext ==
    ASSUME NEW T, NEW s \in Seq(T), NEW S, NEW i \in 1..Len(s),
           NEW r \in Seq(T), Selected(r, s, S, i - 1)
    PROVE  Selected(IF s[i] \in S THEN Append(r, s[i]) ELSE r, s, S, i)
  <1>1. i \in Nat /\ i - 1 \in Nat /\ s[i] \in T
    OBVIOUS
  <1>2. \A k \in 1..i : k \in 1..i - 1 \/ k = i
    BY <1>1
  <1>3. \A k \in 1..i - 1 : k \in 1..i
    BY <1>1
  <1>4. i \in 1..i
    BY <1>1
  <1>5. CASE s[i] \notin S
    <2>1. Selected(r, s, S, i)
      BY <1>2, <1>3, <1>5 DEF Selected
    <2>2. QED
      BY <1>5, <2>1
  <1>6. CASE s[i] \in S
    <2>1. PICK q : q = Append(r, s[i])
      OBVIOUS
    <2>2. ToSet(q) = ToSet(r) \cup {s[i]}
      BY <1>1, <2>1, PushAdds
    <2>3. ASSUME NEW e \in ToSet(q) PROVE e \in S /\ \E k \in 1..i : s[k] = e
      <3>1. CASE e = s[i]
        BY <1>4, <1>6, <3>1
      <3>2. CASE e \in ToSet(r)
        BY <1>3, <3>2 DEF Selected
      <3>3. QED
        BY <2>2, <3>1, <3>2
    <2>4. \A k \in 1..i : s[k] \in S => s[k] \in ToSet(q)
      BY <1>2, <2>2 DEF Selected
    <2>5. ASSUME NEW a \in DOMAIN q, NEW b \in DOMAIN q, a < b
          PROVE  \E k, l \in 1..i : k < l /\ q[a] = s[k] /\ q[b] = s[l]
      <3>1. /\ DOMAIN q = 1..Len(r) + 1 /\ Len(r) \in Nat /\ DOMAIN r = 1..Len(r)
            /\ q[Len(r) + 1] = s[i] /\ \A c \in 1..Len(r) : q[c] = r[c]
        BY <2>1
      <3>2. a \in DOMAIN r /\ q[a] = r[a]
        BY <2>5, <3>1
      <3>3. CASE b \in DOMAIN r
        <4>1. PICK k \in 1..i - 1, l \in 1..i - 1 : k < l /\ r[a] = s[k] /\ r[b] = s[l]
          BY <2>5, <3>2, <3>3 DEF Selected
        <4>2. k \in 1..i /\ l \in 1..i /\ q[b] = s[l]
          BY <1>3, <3>1, <3>3, <4>1
        <4>3. QED
          BY <3>2, <4>1, <4>2
      <3>4. CASE b = Len(r) + 1
        <4>1. r[a] \in ToSet(r)
          BY <3>2 DEF ToSet
        <4>2. PICK k \in 1..i - 1 : s[k] = r[a]
          BY <4>1 DEF Selected
        <4>3. k \in 1..i /\ k < i
          BY <1>1, <4>2
        <4>4. QED
          BY <1>4, <3>1, <3>2, <3>4, <4>2, <4>3
      <3>5. QED
        BY <3>1, <3>3, <3>4
    <2>6. Selected(q, s, S, i)
      BY <2>3, <2>4, <2>5 DEF Selected
    <2>7. QED
      BY <1>6, <2>1, <2>6
  <1>7. QED
    BY <1>5, <1>6

LEMMA SelectInFacts ==
    ASSUME NEW T, NEW s \in Seq(T), NEW S
    PROVE  SelectIn(s, S) \in Seq(T) /\ Selected(SelectIn(s, S), s, S, Len(s))
  <1> DEFINE n == Len(s)
             I == 0..n
             V == Seq(T)
             Stop == {0}
             next == [i \in I |-> i - 1]
             rank == [i \in I |-> i]
             base == [i \in I |-> << >>]
             step == [p \in (I \ Stop) \X V |-> IF s[p[1]] \in S THEN Append(p[2], s[p[1]]) ELSE p[2]]
             Equation(f) ==
                f = [i \in 0..Len(s) |->
                       IF i = 0 THEN << >>
                       ELSE IF s[i] \in S THEN Append(f[i - 1], s[i]) ELSE f[i - 1]]
  <1>1. n \in Nat
    OBVIOUS
  <1> HIDE DEF n
  <1>2. \A i \in I \ Stop : next[i] \in I /\ rank[next[i]] < rank[i] /\ next[i] = i - 1
    BY <1>1
  <1>3. \A i \in I \cap Stop : base[i] \in V
    OBVIOUS
  <1>4. \A i \in I \ Stop : s[i] \in T
    BY <1>1 DEF n
  <1>5. \A i \in I \ Stop : \A v \in V :
            step[<<i, v>>] = IF s[i] \in S THEN Append(v, s[i]) ELSE v
    OBVIOUS
  <1>6. ASSUME NEW i \in I \ Stop, NEW v \in V PROVE step[<<i, v>>] \in V
    <2>1. step[<<i, v>>] = IF s[i] \in S THEN Append(v, s[i]) ELSE v
      BY <1>5
    <2> HIDE DEF step
    <2>2. QED
      BY <1>4, <2>1
  <1>7. \A i \in I : rank[i] \in 0..n /\ rank[i] \in Nat
    BY <1>1
  <1> HIDE DEF I, V, Stop, next, rank, base, step
  <1>8. PICK f \in [I -> V] :
            \A i \in I : f[i] = IF i \in Stop THEN base[i] ELSE step[<<i, f[next[i]]>>]
    <2>1. Paths(I, V, Stop, n, rank, next, base, step)
      BY <1>1, <1>2, <1>3, <1>6, <1>7 DEF Paths
    <2>2. QED
      BY <2>1, PathRecursion
  <1>9. ASSUME NEW i \in I
        PROVE  f[i] = IF i = 0 THEN << >>
                      ELSE IF s[i] \in S THEN Append(f[i - 1], s[i]) ELSE f[i - 1]
    <2>1. CASE i = 0
      BY <1>8, <2>1 DEF Stop, base, I
    <2>2. CASE i # 0
      <3>1. i \in I \ Stop
        BY <2>2 DEF Stop
      <3>2. f[i] = step[<<i, f[next[i]]>>] /\ f[next[i]] \in V /\ next[i] = i - 1
        BY <1>2, <1>8, <3>1
      <3>3. QED
        BY <1>5, <2>2, <3>1, <3>2
    <2>3. QED
      BY <2>1, <2>2
  <1>10. Equation(f)
    BY <1>9 DEF I, n
  <1> HIDE DEF Equation
  <1>11. PICK g : Equation(g) /\ SelectIn(s, S) = g[Len(s)]
    BY <1>10, Zenon DEF SelectIn, Equation
  <1>12. \A i \in I : g[i] = IF i = 0 THEN << >>
                             ELSE IF s[i] \in S THEN Append(g[i - 1], s[i]) ELSE g[i - 1]
    BY <1>11 DEF Equation, I, n
  <1> DEFINE P == {i \in I : g[i] \in Seq(T) /\ Selected(g[i], s, S, i)}
  <1>13. ASSUME NEW i \in I, \A k \in I : rank[k] < rank[i] => k \in P PROVE i \in P
    <2>1. CASE i = 0
      <3>1. g[i] = << >>
        BY <1>12, <2>1
      <3>2. Selected(<< >>, s, S, 0)
        BY DEF Selected, ToSet
      <3>3. QED
        BY <2>1, <3>1, <3>2
    <2>2. CASE i # 0
      <3>1. i \in I \ Stop /\ i \in 1..Len(s)
        BY <1>1, <2>2 DEF Stop, I, n
      <3>2. i - 1 \in P
        BY <1>2, <1>13, <3>1
      <3>3. PICK r \in Seq(T) : r = g[i - 1] /\ Selected(r, s, S, i - 1)
        BY <3>2
      <3>4. PICK q : q = IF s[i] \in S THEN Append(r, s[i]) ELSE r
        OBVIOUS
      <3>5. g[i] = q
        BY <1>12, <2>2, <3>3, <3>4
      <3>6. Selected(q, s, S, i)
        BY <3>1, <3>3, <3>4, SelectsNext, Zenon
      <3>7. q \in Seq(T)
        BY <1>4, <3>1, <3>4
      <3>8. QED
        BY <3>5, <3>6, <3>7
    <2>3. QED
      BY <2>1, <2>2
  <1> HIDE DEF P
  <1>14. I \subseteq P
    BY <1>7, <1>13, RankInduction
  <1>15. Len(s) \in I
    BY <1>1 DEF I, n
  <1>16. QED
    BY <1>11, <1>14, <1>15 DEF P

(* What is selected of a sequence without duplicates has none either. *)
LEMMA SelectInInjective ==
    ASSUME NEW T, NEW s \in Seq(T), NEW S, IsInjective(s)
    PROVE  /\ IsInjective(SelectIn(s, S))
           /\ ToSet(SelectIn(s, S)) = ToSet(s) \cap S
  <1>1. PICK r \in Seq(T) : r = SelectIn(s, S) /\ Selected(r, s, S, Len(s))
    BY SelectInFacts
  <1>2. DOMAIN s = 1..Len(s) /\ DOMAIN r \subseteq Nat
    OBVIOUS
  <1>3. ASSUME NEW a \in DOMAIN r, NEW b \in DOMAIN r, a < b PROVE r[a] # r[b]
    <2>1. PICK k, l \in 1..Len(s) : k < l /\ r[a] = s[k] /\ r[b] = s[l]
      BY <1>1, <1>3 DEF Selected
    <2>2. QED
      BY <1>2, <2>1 DEF IsInjective
  <1>4. ASSUME NEW a \in DOMAIN r, NEW b \in DOMAIN r, r[a] = r[b] PROVE a = b
    BY <1>2, <1>3, <1>4
  <1>5. IsInjective(r)
    BY <1>4 DEF IsInjective
  <1>6. ToSet(r) = ToSet(s) \cap S
    BY <1>1, <1>2 DEF Selected, ToSet
  <1>7. QED
    BY <1>1, <1>5, <1>6
===============================================================================
